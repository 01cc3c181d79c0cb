-------------------------- MODULE AuthorityLease --------------------------
(***************************************************************************)
(* The read authority window of internal/cluster: heartbeat, ensure,       *)
(* authoritative and authorityTimeValid of async.go, fence of node.go.     *)
(*                                                                         *)
(* A leader that has just been confirmed by a quorum may serve metadata    *)
(* for authorityWindow without asking again.  This is safe only if no      *)
(* other node can be elected, and commit, inside the window.  The window   *)
(* is anchored at the instant BEFORE the confirmation round, is compared   *)
(* with both the monotonic and the wall clock, and is shorter than Raft's  *)
(* heartbeat timeout, during which a follower that heard from its leader   *)
(* refuses to vote for anybody else.                                       *)
(*                                                                         *)
(* Raft (external) is modelled down to votes, leader contact and terms.    *)
(* Two things make a voter forget its refusal: a process restart, and the  *)
(* vote request of a leadership transfer.  The constants Restarts and      *)
(* Transfers say whether a run allows them.                                *)
(***************************************************************************)
EXTENDS Integers, FiniteSets

CONSTANTS
    Node,
    Quorum,      \* the majorities of the voters
    Source,      \* who proves authority: the heartbeat and ensure
    Window,      \* authorityWindow, in ticks
    Timeout,     \* Raft's HeartbeatTimeout, in ticks
    Faults,      \* the clock faults a run allows
    Restarts,    \* may a node restart?
    Transfers,   \* may a failed leader start a leadership transfer?
    MaxTerm,     \* bound: terms explored
    None

ASSUME QuorumAssumption ==
    /\ Quorum \subseteq SUBSET Node
    /\ \A Q1, Q2 \in Quorum : Q1 \cap Q2 # {}

ASSUME WindowAssumption ==
    /\ Window \in Nat /\ Timeout \in Nat /\ Window <= Timeout

ASSUME BoundsAssumption ==
    /\ MaxTerm \in Nat /\ {Restarts, Transfers} \subseteq BOOLEAN
    /\ Faults \subseteq {"suspend", "step"}

VARIABLES
    fault,    \* fault[n]: which of n's clocks may misbehave
    term,     \* CurrentTerm
    leads,    \* State() = Leader
    votedFor, \* the vote in the current term (durable)
    votes,    \* the votes a candidate collected
    boosted,  \* the candidate campaigns on behalf of a leadership transfer
    refuses,  \* ticks for which a node that heard from its leader refuses to vote
    proof,    \* proof[n][s]: a VerifyLeader round in flight
    lease,    \* the authority window: time since its anchor, and leaseTerm
    failed,   \* asyncWriter.failed
    xfer,     \* the heartbeat's leadership transfer: none, decided or sent
    stale,    \* ghost: for how many ticks a leader has been superseded without knowing
    forgot    \* ghost: a restart or a transfer has made a voter forget a refusal

raftVars == <<term, leads, votedFor, votes, boosted, refuses>>
codeVars == <<proof, lease, failed, xfer>>
vars == <<fault, term, leads, votedFor, votes, boosted, refuses,
          proof, lease, failed, xfer, stale, forgot>>

\* Time since the anchor on the node's two clocks; capped, as only its relation
\* to the window matters.
Elapsed == (-1)..Window
Anchor  == [mono : Elapsed, wall : Elapsed, term : Nat]
Round   == [mono : Elapsed, wall : Elapsed, term : Nat, acks : SUBSET Node]

ASSUME NoneAssumption == None \notin Node /\ None \notin Anchor /\ None \notin Round

Init ==
    /\ fault \in [Node -> Faults]
    /\ term = [n \in Node |-> 0]
    /\ leads = [n \in Node |-> FALSE]
    /\ votedFor = [n \in Node |-> None]
    /\ votes = [n \in Node |-> {}]
    /\ boosted = [n \in Node |-> FALSE]
    /\ refuses = [n \in Node |-> 0]
    /\ proof = [n \in Node |-> [s \in Source |-> None]]
    /\ lease = [n \in Node |-> None]
    /\ failed = [n \in Node |-> FALSE]
    /\ xfer = [n \in Node |-> "none"]
    /\ stale = [n \in Node |-> 0]
    /\ forgot = FALSE

-----------------------------------------------------------------------------
(* Clocks.  A machine suspend stops the monotonic clock, an adjustment steps *)
(* the wall clock back; a node suffers from at most one kind of fault.        *)

Plus(e, d) == IF e + d > Window THEN Window ELSE IF e + d < -1 THEN -1 ELSE e + d

Age(a, m, w) == IF a = None THEN None ELSE [a EXCEPT !.mono = Plus(@, m), !.wall = Plus(@, w)]

\* A newer leader has a quorum in its term: it can commit writes.
Superseded(n) ==
    \E l \in Node : /\ leads[l] /\ term[l] > term[n]
                    /\ \E Q \in Quorum : l \in Q /\ \A v \in Q : term[v] = term[l]

Tick ==
    /\ \E asleep \in SUBSET {n \in Node : fault[n] = "suspend"},
          stepped \in SUBSET {n \in Node : fault[n] = "step"} :
        LET m(n) == IF n \in asleep THEN 0 ELSE 1
            w(n) == IF n \in stepped THEN -1 ELSE 1
        IN  /\ lease' = [n \in Node |-> Age(lease[n], m(n), w(n))]
            /\ proof' = [n \in Node |-> [s \in Source |-> Age(proof[n][s], m(n), w(n))]]
    /\ refuses' = [n \in Node |-> IF refuses[n] = 0 THEN 0 ELSE refuses[n] - 1]
    /\ stale' = [n \in Node |-> IF leads[n] /\ Superseded(n) THEN Plus(stale[n], 1) ELSE 0]
    /\ UNCHANGED <<fault, term, leads, votedFor, votes, boosted, failed, xfer, forgot>>

\* Mutant of AuthorityTimeValid: only the monotonic clock is consulted.
MonotonicOnly(a) == a.mono >= 0 /\ a.mono < Window

\* authorityTimeValid: both clocks must still be inside the window.
AuthorityTimeValid(a) ==
    /\ a.mono >= 0 /\ a.mono < Window
    /\ a.wall >= 0 /\ a.wall < Window

-----------------------------------------------------------------------------
(* Raft (external) *)

\* Campaign in a new term, voting for oneself.
Campaign(n, boost) ==
    /\ term[n] < MaxTerm
    /\ term' = [term EXCEPT ![n] = @ + 1]
    /\ votedFor' = [votedFor EXCEPT ![n] = n]
    /\ votes' = [votes EXCEPT ![n] = {n}]
    /\ boosted' = [boosted EXCEPT ![n] = boost]

\* A follower that has not heard from a leader for the heartbeat timeout.
StartElection(n) ==
    /\ ~leads[n] /\ refuses[n] = 0
    /\ Campaign(n, FALSE)
    /\ UNCHANGED <<fault, leads, refuses, codeVars, stale, forgot>>

\* A voter with a known leader refuses, unless the candidate was asked to take
\* over by that leader; it votes once per term.
GrantVote(v, c) ==
    /\ v # c /\ votedFor[c] = c /\ ~leads[c]
    /\ boosted[c] \/ (~leads[v] /\ refuses[v] = 0)
    /\ term[v] < term[c] \/ (term[v] = term[c] /\ votedFor[v] = None)
    /\ term' = [term EXCEPT ![v] = term[c]]
    /\ votedFor' = [votedFor EXCEPT ![v] = c]
    /\ votes' = [votes EXCEPT ![c] = @ \cup {v}, ![v] = {}]
    /\ leads' = [leads EXCEPT ![v] = FALSE]
    /\ boosted' = [boosted EXCEPT ![v] = FALSE]
    /\ UNCHANGED <<fault, refuses, codeVars, stale, forgot>>

BecomeLeader(n) ==
    /\ votedFor[n] = n /\ ~leads[n]
    /\ \E Q \in Quorum : Q \subseteq votes[n]
    /\ leads' = [leads EXCEPT ![n] = TRUE]
    /\ votes' = [votes EXCEPT ![n] = {}]
    /\ boosted' = [boosted EXCEPT ![n] = FALSE]
    /\ stale' = [stale EXCEPT ![n] = 0]
    /\ UNCHANGED <<fault, term, votedFor, refuses, codeVars, forgot>>

\* AppendEntries of leader l reaches v, which acknowledges every round in flight.
Contact(l, v) ==
    /\ l # v /\ leads[l] /\ term[v] <= term[l]
    /\ term' = [term EXCEPT ![v] = term[l]]
    /\ leads' = [leads EXCEPT ![v] = FALSE]
    /\ votedFor' = [votedFor EXCEPT ![v] = IF term[v] < term[l] THEN None ELSE @]
    /\ votes' = [votes EXCEPT ![v] = {}]
    /\ boosted' = [boosted EXCEPT ![v] = FALSE]
    /\ refuses' = [refuses EXCEPT ![v] = Timeout]
    /\ proof' = [proof EXCEPT ![l] = [s \in Source |->
                    IF proof[l][s] # None /\ proof[l][s].term = term[l]
                    THEN [proof[l][s] EXCEPT !.acks = @ \cup {v}]
                    ELSE proof[l][s]]]
    /\ UNCHANGED <<fault, lease, failed, xfer, stale, forgot>>

\* A leader loses contact with its quorum, or hears of a newer term.
StepDown(n) ==
    /\ leads[n]
    /\ leads' = [leads EXCEPT ![n] = FALSE]
    /\ votes' = [votes EXCEPT ![n] = {}]
    /\ votedFor' = [votedFor EXCEPT ![n] = None]
    /\ \E t \in {term[m] : m \in Node} :
        /\ t > term[n]
        /\ term' = [term EXCEPT ![n] = t]
    /\ UNCHANGED <<fault, boosted, refuses, codeVars, stale, forgot>>

\* A restarted node knows no leader; term and vote are durable.
Restart(n) ==
    /\ Restarts
    /\ leads' = [leads EXCEPT ![n] = FALSE]
    /\ votes' = [votes EXCEPT ![n] = {}]
    /\ boosted' = [boosted EXCEPT ![n] = FALSE]
    /\ refuses' = [refuses EXCEPT ![n] = 0]
    /\ proof' = [proof EXCEPT ![n] = [s \in Source |-> None]]
    /\ lease' = [lease EXCEPT ![n] = None]
    /\ failed' = [failed EXCEPT ![n] = FALSE]
    /\ xfer' = [xfer EXCEPT ![n] = "none"]
    /\ forgot' = (forgot \/ leads[n] \/ refuses[n] > 0)
    /\ UNCHANGED <<fault, term, votedFor, stale>>

-----------------------------------------------------------------------------
(* heartbeat, ensure, fence *)

\* term and started are read before VerifyLeader is submitted.  The Barrier that
\* ensure runs first is refused while a leadership transfer is in progress.
StartProof(n, s) ==
    /\ leads[n] /\ proof[n][s] = None
    /\ s = "ensure" => xfer[n] # "sent"
    /\ proof' = [proof EXCEPT ![n][s] =
                    [mono |-> 0, wall |-> 0, term |-> term[n], acks |-> {n}]]
    /\ UNCHANGED <<fault, raftVars, lease, failed, xfer, stale, forgot>>

\* Mutant of LeaseAnchor: the window starts when the confirmation arrives.
AnchorAtAnswer(p) == [mono |-> 0, wall |-> 0, term |-> p.term]

\* The window a completed round grants is anchored where the round started.
LeaseAnchor(p) == [mono |-> p.mono, wall |-> p.wall, term |-> p.term]

\* VerifyLeader returned without error: the window opens if the round was short
\* enough and the node still leads the same term.  Only ensure clears failed.
FinishProof(n, s) ==
    LET p == proof[n][s]
    IN  /\ p # None
        /\ \E Q \in Quorum : Q \subseteq p.acks
        /\ p.mono < Window
        /\ leads[n] /\ term[n] = p.term
        /\ lease' = [lease EXCEPT ![n] = LeaseAnchor(p)]
        /\ failed' = [failed EXCEPT ![n] = IF s = "ensure" THEN FALSE ELSE @]
        /\ proof' = [proof EXCEPT ![n][s] = None]
        /\ UNCHANGED <<fault, raftVars, xfer, stale, forgot>>

\* VerifyLeader failed or took too long, or leadership moved meanwhile.
AbortProof(n, s) ==
    /\ proof[n][s] # None
    /\ proof' = [proof EXCEPT ![n][s] = None]
    /\ UNCHANGED <<fault, raftVars, lease, failed, xfer, stale, forgot>>

\* A proposal failed: the writer is fenced.
WriterFails(n) ==
    /\ Transfers /\ leads[n] /\ ~failed[n]
    /\ failed' = [failed EXCEPT ![n] = TRUE]
    /\ UNCHANGED <<fault, raftVars, proof, lease, xfer, stale, forgot>>

\* The heartbeat reads failed under mu, unlocks, and then transfers.
HeartbeatSeesFailed(n) ==
    /\ failed[n] /\ leads[n] /\ xfer[n] = "none"
    /\ xfer' = [xfer EXCEPT ![n] = "decided"]
    /\ UNCHANGED <<fault, raftVars, proof, lease, failed, stale, forgot>>

\* LeadershipTransfer: TimeoutNow makes another node campaign at once.
LeadershipTransfer(n, m) ==
    /\ xfer[n] = "decided" /\ n # m /\ leads[n] /\ ~leads[m] /\ term[m] = term[n]
    /\ Campaign(m, TRUE)
    /\ xfer' = [xfer EXCEPT ![n] = "sent"]
    /\ forgot' = TRUE
    /\ UNCHANGED <<fault, leads, refuses, proof, lease, failed, stale>>

\* The transfer ended, or never began; its result is ignored, and while the writer
\* stays failed the heartbeat tries again after a second.
TransferEnds(n) ==
    /\ xfer[n] # "none"
    /\ xfer' = [xfer EXCEPT ![n] = "none"]
    /\ UNCHANGED <<fault, raftVars, proof, lease, failed, stale, forgot>>

Next ==
    \/ Tick
    \/ \E n \in Node :
        \/ StartElection(n) \/ BecomeLeader(n) \/ StepDown(n) \/ Restart(n)
        \/ WriterFails(n) \/ HeartbeatSeesFailed(n) \/ TransferEnds(n)
        \/ \E m \in Node : GrantVote(n, m) \/ Contact(n, m) \/ LeadershipTransfer(n, m)
        \/ \E s \in Source : StartProof(n, s) \/ FinishProof(n, s) \/ AbortProof(n, s)

Spec == Init /\ [][Next]_vars

-----------------------------------------------------------------------------
(* Properties *)

\* asyncWriter.authoritative
Authoritative(n) ==
    /\ lease[n] # None /\ leads[n] /\ term[n] = lease[n].term
    /\ AuthorityTimeValid(lease[n])

\* The node answers reads: readSnapshot passes without a new confirmation.
Serving(n) == Authoritative(n) /\ ~failed[n]

\* The shape of the state.
TypeOK ==
    /\ fault \in [Node -> Faults]
    /\ term \in [Node -> Nat] /\ leads \in [Node -> BOOLEAN]
    /\ votedFor \in [Node -> Node \cup {None}]
    /\ votes \in [Node -> SUBSET Node] /\ boosted \in [Node -> BOOLEAN]
    /\ refuses \in [Node -> 0..Timeout]
    /\ proof \in [Node -> [Source -> Round \cup {None}]]
    /\ lease \in [Node -> Anchor \cup {None}]
    /\ failed \in [Node -> BOOLEAN] /\ xfer \in [Node -> {"none", "decided", "sent"}]
    /\ stale \in [Node -> 0..Window] /\ forgot \in BOOLEAN

\* While a node's authority window is open nobody leads a newer term: "Proofs
\* never outlive the same-term authority window, which is shorter than the
\* configured election timeout" (transaction_reads.go).  It lasts until a restart
\* or a leadership transfer makes a voter forget that it has a leader.
WindowExcludesElection ==
    ~forgot => \A n, m \in Node : Authoritative(n) /\ leads[m] => term[m] <= term[n]

\* No node serves reads while a newer leader can commit writes: "Thus a
\* successful read linearizes after request arrival" (transaction_reads.go).
ReadsLinearize ==
    \A n \in Node : Serving(n) => ~Superseded(n)

\* Whatever restarts and transfers do, a superseded leader stops serving within
\* one authority window of real time, even if one of its clocks misbehaves
\* (authorityTimeValid).
StaleReadsBounded ==
    \A n \in Node : Serving(n) => stale[n] < Window
=============================================================================
