------------------------------ MODULE MCServing ------------------------------
(***************************************************************************)
(* Small instances of what must come to an end on a replica that serves:   *)
(* lookups of records, and screenshot jobs.  The two share no state, so    *)
(* they are explored side by side: part says which of them a behaviour is  *)
(* about, and the other stays as it started.                               *)
(***************************************************************************)
EXTENDS Serving

CONSTANTS r1, r2

VARIABLES part, proj, state, recent, saved, queue, job, changes, faults

previewVars == <<proj, state, recent, saved, queue, job, changes, faults>>

(* Two replicas at work on one project. *)
Shots == INSTANCE Preview WITH
    Replica <- {1, 2}, Project <- {1}, MaxRecent <- 1, Capacity <- 1,
    MaxChange <- 2, MaxFault <- 1

MCInit ==
    /\ part \in {"lookups", "previews"}
    /\ Init /\ (part = "previews" => \A k \in Key : leader[k])
    /\ Shots!Init

MCNext ==
    \/ part = "lookups" /\ Next /\ UNCHANGED <<part, previewVars>>
    \/ part = "previews" /\ Shots!Next /\ UNCHANGED <<part, vars>>

(* The fairness of Serving and of Preview, for the part that is explored. *)
MCFairness ==
    /\ \A k \in Key :
        /\ WF_vars(part = "lookups" /\ Confirm(k))
        /\ WF_vars(part = "lookups" /\ (Finish(k) \/ ConfirmFails(k)))
    /\ \A r \in Request :
        /\ WF_vars(part = "lookups" /\ Answer(r))
        /\ WF_vars(part = "lookups" /\ Replay(r))
    /\ \A r \in {1, 2} :
        /\ WF_previewVars(part = "previews" /\ Shots!Step(r))
        /\ SF_previewVars(part = "previews" /\ Shots!Render(r, TRUE))
        /\ SF_previewVars(part = "previews" /\ Shots!Scan(r, 1))
    /\ WF_previewVars(part = "previews" /\ Shots!LeaseExpires(1))
    /\ WF_previewVars(part = "previews" /\ Shots!RetryPasses(1))

MCSpec == MCInit /\ [][MCNext]_<<part, vars, previewVars>> /\ MCFairness

-----------------------------------------------------------------------------
(* Whatever notifications are lost, workers cut short and changes made in    *)
(* the middle of a rendering, a live project ends up with the image of its   *)
(* current content.                                                          *)
PreviewsSettle == <>[](part = "previews" => Shots!Settled(1))
=============================================================================
