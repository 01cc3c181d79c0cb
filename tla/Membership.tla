----------------------------- MODULE Membership -----------------------------
(***************************************************************************)
(* Who is a member: internal/cluster enrollment.go, membership.go,         *)
(* dynamic_target.go and rejoin.go.                                        *)
(*                                                                         *)
(* The leader's controller probes the members, follows how many voters     *)
(* there should be, promotes learners and retires members that stay away.  *)
(* At the same time it serves requests of nodes that want to enrol, come   *)
(* back or have a new address.  Both read the admission record and the     *)
(* Raft configuration and change them one after the other.                 *)
(***************************************************************************)
EXTENDS Integers, FiniteSets

CONSTANTS
    Node,
    Address,    \* addresses a host may have; every node has its own set of them
    Sizes,      \* numbers of voters that a deployment starts with
    Policy,     \* the policy's number of voters: 3 or 5
    MinVoters,  \* no voter is removed from this few: 3
    MaxVoters,  \* maxVoters
    MaxMembers, \* maxMembers
    MaxRequest, \* bound: requests served at a time
    MaxFault,   \* bound: hosts that stop, move or come back, and elections
    None

VARIABLES
    config,     \* config[n]: role and address in the committed configuration
    pending,    \* a configuration change in the leader's log, not committed yet
    records,    \* cluster_admissions/<n>
    floor,      \* cluster_policy/membership, an immutable minimum
    hosts,      \* hosts[n]: running, its address, and whether it has a log
    leader,
    control,    \* the controller of the leader
    requests,   \* requests[n]: an enrolment the leader is serving
    faults

vars == <<config, pending, records, floor, hosts, leader, control, requests, faults>>

Place == Address \cup {0, 1}

\* What there is to do, a change of the configuration, and an admission record.
Work   == [kind : {"promote", "retire", "remove"}, node : Node, address : Place]
Change == [node : Node, role : {"none", "learner", "voter"}, address : Place]
Entry  == [address : Place, retired : BOOLEAN, version : Nat]

MembershipAssumption ==
    /\ IsFiniteSet(Node) /\ {Policy, MinVoters, MaxVoters} \subseteq Nat
    /\ None \notin Work /\ None \notin Change /\ None \notin Entry

Out == [role |-> "none", address |-> 0]

\* missing: members that did not answer, TRUE once the grace period is over; active:
\* activeTarget, 0 when the term is new; op: what reconcile has decided to do.
Idle == [missing |-> [n \in {} |-> FALSE], active |-> 0, op |-> None]

Voters     == {n \in Node : config[n].role = "voter"}
Learners   == {n \in Node : config[n].role = "learner"}
Members    == Voters \cup Learners
Healthy(n) == hosts[n].up /\ hosts[n].address = config[n].address
Quorum(V)  == 2 * Cardinality({n \in V : hosts[n].up}) > Cardinality(V)

Init ==
    /\ \E V \in {W \in SUBSET Node : Cardinality(W) \in Sizes} :
        /\ config = [n \in Node |-> IF n \in V THEN [role |-> "voter", address |-> 1] ELSE Out]
        /\ hosts = [n \in Node |-> [up |-> TRUE, address |-> 1, log |-> n \in V]]
        /\ leader \in V
    /\ floor = Policy
    /\ pending = None
    /\ records = [n \in Node |-> None]
    /\ control = Idle
    /\ requests = [n \in Node |-> None]
    /\ faults = 0

\* fence: the leader has committed everything in its log.
Fenced == leader # None /\ pending = None /\ Quorum(Voters)

-----------------------------------------------------------------------------
(* Raft *)

Changed(p) == [config EXCEPT ![p.node] = [role |-> p.role, address |-> p.address]]

Propose(n, role, address) == pending' = [node |-> n, role |-> role, address |-> address]

CommitChange ==
    /\ leader # None /\ pending # None /\ Quorum(Voters)
    /\ config' = Changed(pending) /\ pending' = None
    /\ UNCHANGED <<records, floor, hosts, leader, control, requests, faults>>

\* Another leader may or may not have the change that was not committed.
Elect(n, kept) ==
    /\ n # leader /\ n \in Voters /\ hosts[n].up /\ Quorum(Voters)
    /\ leader # None => faults < MaxFault
    /\ faults' = IF leader = None THEN faults ELSE faults + 1
    /\ leader' = n /\ control' = Idle
    /\ requests' = [m \in Node |-> None]
    /\ config' = IF kept /\ pending # None THEN Changed(pending) ELSE config
    /\ pending' = None
    /\ UNCHANGED <<records, floor, hosts>>

Replicate(n) ==
    /\ leader # None /\ n \in Members /\ Healthy(n) /\ ~ hosts[n].log
    /\ hosts' = [hosts EXCEPT ![n].log = TRUE]
    /\ UNCHANGED <<config, pending, records, floor, leader, control, requests, faults>>

Stop(n) ==
    /\ hosts[n].up /\ faults < MaxFault
    /\ faults' = faults + 1
    /\ hosts' = [hosts EXCEPT ![n].up = FALSE]
    /\ IF n = leader
       THEN leader' = None /\ control' = Idle /\ requests' = [m \in Node |-> None]
       ELSE UNCHANGED <<leader, control, requests>>
    /\ UNCHANGED <<config, pending, records, floor>>

Return(n, address) ==
    /\ ~ hosts[n].up
    /\ hosts' = [hosts EXCEPT ![n].up = TRUE, ![n].address = address]
    /\ UNCHANGED <<config, pending, records, floor, leader, control, requests, faults>>

-----------------------------------------------------------------------------
(* enrollment.admit: the checks, the record, the configuration *)

Version(n) == IF records[n] = None THEN 0 ELSE records[n].version

\* Sent by a node that is not in the configuration, or has heard from no leader for two
\* minutes (shouldRequestRejoin).
Admit(n) ==
    /\ Fenced /\ requests[n] = None /\ n # leader /\ hosts[n].up
    /\ Cardinality({m \in Node : requests[m] # None}) < MaxRequest
    /\ n \in Members \/ Cardinality(Members) < MaxMembers
    /\ LET present   == n \in Members
           moved     == present /\ config[n].address # hosts[n].address
           r         == records[n]
           returning == r # None /\ r.retired IN
       /\ n \in Voters => moved
       /\ moved => hosts[n].log
       /\ ~ (returning /\ present)
       /\ r # None /\ ~ present /\ ~ returning => ~ hosts[n].log
       /\ r # None /\ ~ returning /\ ~ moved => r.address = hosts[n].address
       /\ requests' = [requests EXCEPT ![n] =
            [address |-> hosts[n].address, moved |-> moved, version |-> Version(n),
             write |-> moved \/ returning \/ r = None]]
    /\ UNCHANGED <<config, pending, records, floor, hosts, leader, control, faults>>

Record(n, address, retired) ==
    records' = [records EXCEPT ![n] = [address |-> address, retired |-> retired,
                                       version |-> Version(n) + 1]]

\* The transaction checks the version; on a conflict the request fails.
AdmitCommit(n) ==
    /\ Fenced /\ requests[n] # None /\ requests[n].write
    /\ IF requests[n].version = Version(n)
       THEN /\ Record(n, requests[n].address, FALSE)
            /\ requests' = [requests EXCEPT ![n].write = FALSE]
       ELSE requests' = [requests EXCEPT ![n] = None] /\ UNCHANGED records
    /\ UNCHANGED <<config, pending, floor, hosts, leader, control, faults>>

\* updateAddress keeps the role; AddLearner needs a node that is not there.
AdmitFinish(n) ==
    /\ Fenced /\ requests[n] # None /\ ~ requests[n].write
    /\ requests' = [requests EXCEPT ![n] = None]
    /\ LET present == n \in Members IN
       CASE requests[n].moved /\ present -> Propose(n, config[n].role, requests[n].address)
         [] ~ requests[n].moved /\ ~ present /\ Cardinality(Members) < MaxMembers ->
                Propose(n, "learner", requests[n].address)
         [] OTHER -> UNCHANGED pending
    /\ UNCHANGED <<config, records, floor, hosts, leader, control, faults>>

-----------------------------------------------------------------------------
(* adjustTarget *)

Larger(a, b)  == IF a > b THEN a ELSE b
Smaller(a, b) == IF a < b THEN a ELSE b
Odd(k)        == IF k % 2 = 0 THEN k - 1 ELSE k

\* Mutant: the policy is not a minimum.
OddTargetFree(eligible) == Smaller(MaxVoters, Odd(eligible))

OddTarget(eligible) == Larger(floor, Smaller(MaxVoters, Odd(eligible)))

\* due: the desired target has been the same for the whole window.
AdjustTarget(eligible, due) ==
    LET active == IF control.active = 0 THEN OddTarget(Cardinality(Voters))
                  ELSE Larger(control.active, floor) IN
    IF due THEN OddTarget(eligible) ELSE active

-----------------------------------------------------------------------------
(* reconcile *)

\* probeMembers: answers are remembered, the first failure starts the grace period.
\* Nodes that have left the configuration keep their entry.
Probed ==
    LET away == {n \in Members : n # leader /\ ~ Healthy(n)} IN
    [n \in away \cup (DOMAIN control.missing \ Members) |-> n \in DOMAIN control.missing /\ control.missing[n]]

\* rememberMemberKeys: voters that were there from the start get a record.
Remembered ==
    [n \in Node |-> IF n \in Voters /\ records[n] = None /\ (n = leader \/ Healthy(n))
                    THEN [address |-> config[n].address, retired |-> FALSE, version |-> 1]
                    ELSE records[n]]

\* Mutant: a retired record is good enough.
MayVoteRecorded(n) ==
    /\ n \in Learners /\ Healthy(n) /\ hosts[n].log
    /\ records[n] # None /\ records[n].address = config[n].address

MayVote(n) ==
    /\ n \in Learners /\ Healthy(n) /\ hosts[n].log
    /\ records[n] # None /\ ~ records[n].retired /\ records[n].address = config[n].address

Operation(kind, n) == [kind |-> kind, node |-> n, address |-> config[n].address]

\* A step to the next odd number, or out of a group that is too small.
MayGrow(ready, target) ==
    LET voters == Cardinality(Voters)
        next   == IF (voters + 1) % 2 = 0 THEN voters + 2 ELSE voters + 1 IN
    /\ voters < target /\ ready # {}
    /\ voters < MinVoters \/ (target >= next /\ Cardinality(ready) >= next - voters)

\* failed and gone: voters and learners whose grace period is over.  The order is the
\* code's; of several members it takes one.
Operations(ready, failed, gone, target) ==
    LET voters == Cardinality(Voters) IN
    IF failed # {} /\ voters > target /\ voters % 2 = 0 THEN {Operation("retire", n) : n \in failed}
    ELSE IF gone # {}                      THEN {Operation("retire", n) : n \in gone}
    ELSE IF (failed # {} /\ ready # {} /\ voters <= MaxVoters) \/ MayGrow(ready, target)
                                           THEN {Operation("promote", n) : n \in ready}
    ELSE IF failed # {} /\ voters > target THEN {Operation("retire", n) : n \in failed}
    ELSE {None}

\* Which learners have caught up with the latest write is the network's choice.
Reconcile(ready, due) ==
    /\ Fenced /\ control.op = None
    /\ ready \subseteq {n \in Node : MayVote(n)}
    /\ LET missing  == Probed
           past     == {n \in DOMAIN missing : missing[n]}
           eligible == Cardinality(Members) - Cardinality(DOMAIN missing \cap Members)
           target   == AdjustTarget(eligible, due) IN
       \E op \in Operations(ready, past \cap Voters, past \cap Learners, target) :
            control' = [missing |-> missing, active |-> target, op |-> op]
    /\ records' = Remembered
    /\ UNCHANGED <<config, pending, floor, hosts, leader, requests, faults>>

\* The list of addresses is out of date: every grace period starts again.
Stale ==
    /\ Fenced /\ control.op = None /\ control.missing # Idle.missing
    /\ control' = [control EXCEPT !.missing = Idle.missing]
    /\ UNCHANGED <<config, pending, records, floor, hosts, leader, requests, faults>>

\* Time: a member has been missing for the grace period.
Grace(n) ==
    /\ n \in DOMAIN control.missing /\ ~ control.missing[n]
    /\ control' = [control EXCEPT !.missing[n] = TRUE]
    /\ UNCHANGED <<config, pending, records, floor, hosts, leader, requests, faults>>

\* Promote: everything is looked up once more under changeMu.
Promote ==
    /\ Fenced /\ control.op # None /\ control.op.kind = "promote"
    /\ LET n == control.op.node IN
       IF /\ n \in Learners /\ Cardinality(Voters) < MaxVoters + 1
          /\ config[n].address = control.op.address /\ Healthy(n) /\ hosts[n].log
       THEN Propose(n, "voter", config[n].address) ELSE UNCHANGED pending
    /\ control' = [control EXCEPT !.op = None]
    /\ UNCHANGED <<config, records, floor, hosts, leader, requests, faults>>

\* retire: first the record ...
Retire ==
    /\ Fenced /\ control.op # None /\ control.op.kind = "retire"
    /\ LET n == control.op.node IN
       Record(n, IF records[n] = None THEN config[n].address ELSE records[n].address, TRUE)
    /\ control' = [control EXCEPT !.op.kind = "remove"]
    /\ UNCHANGED <<config, pending, floor, hosts, leader, requests, faults>>

\* ... then RemoveMember: never the leader itself, never below the minimum.
RemoveMember ==
    /\ Fenced /\ control.op # None /\ control.op.kind = "remove"
    /\ LET n == control.op.node IN
       IF n \in Members /\ n # leader /\ (n \in Voters => Cardinality(Voters) > MinVoters)
       THEN Propose(n, "none", 0) ELSE UNCHANGED pending
    /\ control' = [control EXCEPT !.op = None]
    /\ UNCHANGED <<config, records, floor, hosts, leader, requests, faults>>

-----------------------------------------------------------------------------
Next ==
    \/ CommitChange \/ Stale \/ Promote \/ Retire \/ RemoveMember
    \/ \E ready \in SUBSET Node, due \in BOOLEAN : Reconcile(ready, due)
    \/ \E n \in Node :
        \/ Replicate(n) \/ Stop(n) \/ Grace(n)
        \/ Admit(n) \/ AdmitCommit(n) \/ AdmitFinish(n)
        \/ \E kept \in BOOLEAN : Elect(n, kept)
        \/ \E address \in Address : Return(n, address)

Spec == Init /\ [][Next]_vars

-----------------------------------------------------------------------------
\* "Absence alone never shrinks the voter target": a voter is removed only while the
\* policy's number of voters remains, whoever leads and whatever is in flight.
FloorKept ==
    [][Cardinality(Voters') < Cardinality(Voters) => Cardinality(Voters') >= floor]_vars

\* A retired identity gets no vote back before it is admitted again, although it may
\* still be, or again become, a learner of the configuration.
VoteAdmitted ==
    [][\A n \in Voters' \ Voters : ~ records[n].retired]_vars
=============================================================================
