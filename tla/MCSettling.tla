----------------------------- MODULE MCSettling -----------------------------
(***************************************************************************)
(* Small instances of what must come to an end on the way of a             *)
(* publication: the uploads, links and deadlines of an anonymous browser's *)
(* projects, and the proposals of the leader that writes the records.  The *)
(* writer knows a record only by its key, so the two are explored side by  *)
(* side: part says which of them a behaviour is about, and the other stays *)
(* as it started.                                                          *)
(***************************************************************************)
EXTENDS MCProjects

CONSTANTS n1, n2, content, policy, member

VARIABLES
    part,
    elections, log, hist, applied, believes, voters, view, wterm, seq, leaseTerm,
    failed, journal, queue, worker, caller, ackedSec

writerVars == <<elections, log, hist, applied, believes, voters, view, wterm, seq, leaseTerm,
                failed, journal, queue, worker, caller, ackedSec>>

Tx(reads, writes, dels, hint) == [reads |-> reads, writes |-> writes, dels |-> dels, hint |-> hint]

(* One term of two nodes: an upload, a policy change, a deletion that asks   *)
(* for local acknowledgement, and a cluster record.                          *)
Writer == INSTANCE AsyncWriter WITH
    Node <- {n1, n2}, Key <- {content, policy, member}, Projects <- {content}, Digests <- {},
    Secure <- {policy, member}, Internal <- {member},
    Shapes <- {Tx({content, policy}, {content}, {}, TRUE),
               Tx({content, policy}, {policy}, {}, FALSE),
               Tx({content, policy}, {content, policy}, {content, policy}, TRUE),
               Tx({member}, {member}, {}, FALSE)},
    MaxRecords <- 2, MaxPending <- 2, MaxTerm <- 1, MaxSeq <- 2

MCInit == part \in {"projects", "writer"} /\ Init /\ Writer!Init

MCNext ==
    \/ part = "projects" /\ Next /\ UNCHANGED <<part, writerVars>>
    \/ part = "writer" /\ Writer!Next /\ UNCHANGED <<part, vars>>

(* The fairness of Projects and of AsyncWriter, for the part that is explored. *)
MCFairness ==
    /\ \A o \in OpId :
        /\ WF_vars(part = "projects" /\ AbortExpired(o))
        /\ WF_vars(part = "projects" /\ OperationDeadline(o))
    /\ \A p \in Pid : WF_vars(part = "projects" /\ ExpireProject(p))
    /\ WF_writerVars(part = "writer" /\ Writer!RaftCommit)
    /\ \A n \in {n1, n2} :
        /\ WF_writerVars(part = "writer" /\ Writer!Worker(n))
        /\ WF_writerVars(part = "writer" /\ Writer!FsmApply(n))
        /\ WF_writerVars(part = "writer" /\ believes[n] < Writer!Term /\ Writer!StepDown(n))
        /\ WF_writerVars(part = "writer" /\ Writer!Ensure(n))

MCSpec == MCInit /\ [][MCNext]_<<part, vars, writerVars>> /\ MCFairness

-----------------------------------------------------------------------------
(* Every future of the replicate goroutine settles, so that a rebuild can    *)
(* run.                                                                      *)
ProposalsSettle == Writer!ProposalsSettle

(* A leader whose writer failed rebuilds its view or gives up leadership. *)
FencedLeaderRecovers == Writer!FencedLeaderRecovers
=============================================================================
