---------------------------- MODULE Reclamation ----------------------------
(***************************************************************************)
(* Versions of one project in one storage app: how they are installed on   *)
(* the app's storage instances (storagepool: Pool.Install and the handlers *)
(* of Secondary), replicated by Syncthing, and reclaimed                   *)
(* (ReclaimObsolete, Secondary.reclaim, RetireStorageVersion,              *)
(* AcknowledgeStorageReclamation).                                         *)
(*                                                                         *)
(* A version is one storage generation: one upload operation, one          *)
(* directory.  Each primary replica runs the reclaimer, so its steps are   *)
(* independent actions on the replicated records and requests may reach a  *)
(* storage instance late and more than once.  A device is a member of the  *)
(* Syncthing folder together with the storage instance that owns the       *)
(* volume.  Syncthing is external: an unpaused folder may copy any version *)
(* that neither side ignores.                                              *)
(***************************************************************************)
EXTENDS Naturals, FiniteSets

CONSTANTS
    Gens,      \* bound: generations 1..Gens, reserved in this order
    Devices,   \* storage instances 1..Devices, in the order of their Syncthing ids
    Founders,  \* instances that share the folder before the others join
    Offers,    \* bound: instances the publisher may be offered
    Skewed,    \* instances whose clock is so far behind that no deadline stops them
    MaxFaults, \* bound: crashes, failing Syncthing calls, stale copies of requests
    None

ASSUME ReclamationAssumption ==
    /\ Gens \in Nat \ {0} /\ Devices \in Nat /\ MaxFaults \in Nat
    /\ {Founders, Offers, Skewed} \subseteq SUBSET (1..Devices) /\ Founders # {}

Gen    == 1..Gens
Device == 1..Devices
Uploads == Gen \ {1}   \* bound: 1 is the version published before, or unused
Fence == [was : BOOLEAN, done : BOOLEAN]
Retained == [state |-> "retained", members |-> {}, acked |-> {}, deleted |-> FALSE]
Step  == {"pause", "ignore", "check", "remove", "resume", "complete"}
Version == [state : {"retained", "retiring", "reclaimed"}, members : SUBSET Device,
            acked : SUBSET Device, deleted : BOOLEAN]
Handling == [gen : Gen, step : Step, whole : BOOLEAN]

ASSUME NoneAssumption == None \notin Version /\ None \notin Fence /\ None \notin Handling

VARIABLES
    project,   \* [status, active, pending]
    ops,       \* operations/<generation>: state
    overdue,   \* operations past their deadline, by the primaries' clock
    versions,  \* storage_versions: [state, members, acked, deleted] or None
    removals,  \* revision_removals
    queue,     \* the app's reclamation queue
    allocated, \* StorageAllocation.Versions
    confirmed, \* generations whose Install returned without error
    cohort,    \* the folder membership the reclaimer's pass has read
    receipts,  \* receipts[d][g]: the instance's operation record
    busy,      \* busy[d]: uploads in progress
    holds,     \* holds[d]: generations with bytes on d's volume
    fences,    \* fences[d][g]: reclamationReceipt
    sealed,    \* sealed[d]: the project fence
    config,    \* config[d]: members of the folder as d's Syncthing has them
    missed,    \* missed[d]: generations whose Install is never offered d
    paused,    \* paused[d]: the folder is paused
    ignored,   \* ignored[d]: generations .stignore excludes
    handler,   \* handler[d]: the reclaim request that holds reclamationMu
    faults     \* ghost: faults so far

authority == <<project, ops, overdue, versions, removals, queue, allocated, confirmed, cohort>>
volume    == <<receipts, busy, holds, fences, sealed>>
sync      == <<config, missed, paused, ignored>>
vars == <<project, ops, overdue, versions, removals, queue, allocated, confirmed, cohort,
          receipts, busy, holds, fences, sealed, config, missed, paused, ignored, handler, faults>>

\* The project is new, or version 1 was published long ago and its operation is
\* forgotten; the founders share the folder.
Init ==
    /\ cohort = Founders
    /\ config = [d \in Device |-> IF d \in cohort THEN cohort ELSE {}]
    /\ \E old \in {{}, {1}} :
        /\ project = [status |-> IF old = {} THEN "none" ELSE "active",
                      active |-> IF old = {} THEN 0 ELSE 1, pending |-> 0]
        /\ ops = [g \in Gen |-> IF g \in old THEN "complete" ELSE "none"]
        /\ versions = [g \in Gen |-> IF g \in old THEN Retained ELSE None]
        /\ holds = [d \in Device |-> IF d \in cohort THEN old ELSE {}]
        /\ overdue = old /\ confirmed = old /\ allocated = Cardinality(old)
    /\ removals = {} /\ queue = {}
    /\ receipts = [d \in Device |-> [g \in Gen |-> "none"]]
    /\ busy = [d \in Device |-> {}]
    /\ fences = [d \in Device |-> [g \in Gen |-> None]]
    /\ sealed = [d \in Device |-> FALSE]
    /\ missed = [d \in Device |-> IF d \in Offers THEN {} ELSE Gen]
    /\ paused = [d \in Device |-> FALSE] /\ ignored = [d \in Device |-> {}]
    /\ handler = [d \in Device |-> None]
    /\ faults = 0

-----------------------------------------------------------------------------
(* The authority: reservation, activation, abort, revisions, deletion *)

State(g) == IF versions[g] = None THEN "none" ELSE versions[g].state

\* Mutant of Requeued: a superseded version is not queued.
RequeuedNot(new) == queue \ {new.active}

\* updateStorageQueue: the version that stops being active is queued, the one
\* that is active with no upload in progress leaves the queue.
Requeued(new) ==
    LET old  == project
        left == old.active # 0 /\ (new.status = "deleted" \/ old.active # new.active)
        in   == IF left /\ State(old.active) # "reclaimed" THEN {old.active} ELSE {}
        out  == IF new.status = "active" /\ new.pending = 0 THEN {new.active} ELSE {}
    IN  (queue \cup in) \ out

\* raftTx.Set of the project record.
SetProject(new) == project' = new /\ queue' = Requeued(new)

\* Reserve and allocateMeasuredStorage: the version is charged and queued.
Reserve(g) ==
    /\ g \in Uploads /\ ops[g] = "none"
    /\ project.status \in {"none", "active"} /\ project.pending = 0
    /\ project' = [project EXCEPT !.status = IF @ = "none" THEN "reserved" ELSE @, !.pending = g]
    /\ ops' = [ops EXCEPT ![g] = "pending"]
    /\ versions' = [versions EXCEPT ![g] = Retained]
    /\ allocated' = allocated + 1
    /\ queue' = queue \cup {g}
    /\ UNCHANGED <<overdue, removals, confirmed, cohort, volume, sync, handler, faults>>

\* activate: the publisher calls it after Install; checkStorageOperation.
Activate(g) ==
    /\ ops[g] = "pending" /\ g \notin overdue /\ g \in confirmed
    /\ project.pending = g
    /\ g \notin removals /\ State(g) = "retained"
    /\ SetProject([project EXCEPT !.status = "active", !.active = g, !.pending = 0])
    /\ ops' = [ops EXCEPT ![g] = "complete"]
    /\ UNCHANGED <<overdue, versions, removals, allocated, confirmed, cohort,
                   volume, sync, handler, faults>>

\* abort, by the owner or by maintenance once the deadline has passed.
Abort(g) ==
    /\ ops[g] = "pending" /\ project.pending = g
    /\ SetProject([project EXCEPT
            !.status = IF @ = "reserved" THEN "deleted" ELSE @, !.pending = 0])
    /\ ops' = [ops EXCEPT ![g] = "aborted"]
    /\ UNCHANGED <<overdue, versions, removals, allocated, confirmed, cohort,
                   volume, sync, handler, faults>>

\* availableRevision
Available(g) == ops[g] = "complete" /\ g \notin removals /\ State(g) = "retained"

SelectRevision(g) ==
    /\ project.status = "active" /\ project.pending = 0 /\ Available(g) /\ g # project.active
    /\ SetProject([project EXCEPT !.active = g])
    /\ UNCHANGED <<ops, overdue, versions, removals, allocated, confirmed, cohort,
                   volume, sync, handler, faults>>

RemoveRevision(g) ==
    /\ project.status = "active" /\ project.pending = 0 /\ Available(g) /\ g # project.active
    /\ removals' = removals \cup {g}
    /\ queue' = queue \cup {g}
    /\ UNCHANGED <<project, ops, overdue, versions, allocated, confirmed, cohort,
                   volume, sync, handler, faults>>

\* Tombstone by the owner, expireProject after the deadline.
Delete ==
    /\ project.status = "active" /\ project.pending = 0
    /\ SetProject([project EXCEPT !.status = "deleted"])
    /\ UNCHANGED <<ops, overdue, versions, removals, allocated, confirmed, cohort,
                   volume, sync, handler, faults>>

\* An upload's 15 minutes are over (the clock, external).
Deadline(g) ==
    /\ ops[g] # "none" /\ g \notin overdue
    /\ overdue' = overdue \cup {g}
    /\ UNCHANGED <<project, ops, versions, removals, queue, allocated, confirmed, cohort,
                   volume, sync, handler, faults>>

-----------------------------------------------------------------------------
(* Storage instances: reserve, upload, commit, cancel.  Requests of    *)
(* the publisher may arrive late, after it gave up or the upload was aborted. *)

\* The instance's own clock has passed the operation's deadline.
Late(d, g) == g \in overdue /\ d \notin Skewed

\* Mutant of NotRetired: the fence of the generation itself is not consulted.
NotSealed(d, g) == ~sealed[d]

\* notRetired
NotRetired(d, g) == ~sealed[d] /\ fences[d][g] = None

\* Install reads the list of instances once, while its upload is not overdue: an
\* instance that joins later is never asked.
\* (A receipt past its deadline is also dropped to free the space it claims,
\* which no later request for that generation can tell.)
ReserveSpace(d, g) ==
    /\ g \in Uploads /\ ops[g] # "none" /\ d \in config[d] /\ g \notin missed[d]
    /\ ~Late(d, g) /\ NotRetired(d, g)
    /\ receipts[d][g] = "none"
    /\ receipts' = [receipts EXCEPT ![d][g] = "reserved"]
    /\ UNCHANGED <<authority, busy, holds, fences, sealed, sync, handler, faults>>

UploadBegin(d, g) ==
    /\ receipts[d][g] \in {"reserved", "stored"} /\ g \notin busy[d]
    /\ ~Late(d, g) /\ NotRetired(d, g)
    /\ busy' = [busy EXCEPT ![d] = @ \cup {g}]
    /\ UNCHANGED <<authority, receipts, holds, fences, sealed, sync, handler, faults>>

\* The staged tree is installed under mu, after a second look at the fences.
UploadEnd(d, g) ==
    /\ g \in busy[d]
    /\ busy' = [busy EXCEPT ![d] = @ \ {g}]
    /\ \/ /\ ~Late(d, g) /\ NotRetired(d, g)
          /\ holds' = [holds EXCEPT ![d] = @ \cup {g}]
          /\ \/ receipts' = [receipts EXCEPT ![d][g] = "stored"]
             \/ UNCHANGED receipts          \* the receipt could not be saved
       \/ UNCHANGED <<holds, receipts>>      \* refused, or the transfer broke off
    /\ UNCHANGED <<authority, fences, sealed, sync, handler, faults>>

\* commit confirms that the tree is on this volume's disk.
Committed(d, g) ==
    receipts[d][g] = "stored" /\ ~Late(d, g) /\ NotRetired(d, g) /\ g \in holds[d]

\* Install returns: one instance is enough.
Commit(d, g) ==
    /\ Committed(d, g)
    /\ confirmed' = confirmed \cup {g}
    /\ UNCHANGED <<project, ops, overdue, versions, removals, queue, allocated, cohort,
                   volume, sync, handler, faults>>

Cancel(d, g) ==
    /\ receipts[d][g] = "reserved" /\ g \notin busy[d]
    /\ receipts' = [receipts EXCEPT ![d][g] = "canceled"]
    /\ UNCHANGED <<authority, busy, holds, fences, sealed, sync, handler, faults>>

-----------------------------------------------------------------------------
(* Syncthing (external) *)

Linked(d, e) == e \in config[d] /\ d \in config[e] /\ ~paused[d] /\ ~paused[e]

Replicate(d, e, g) ==
    /\ d # e /\ Linked(d, e)
    /\ g \in holds[d] /\ g \notin holds[e] /\ g \notin ignored[d] \cup ignored[e]
    /\ holds' = [holds EXCEPT ![e] = @ \cup {g}]
    /\ UNCHANGED <<authority, receipts, busy, fences, sealed, sync, handler, faults>>

\* The operator shares the folder of member d with e.
Join(d, e) ==
    /\ d \in config[d] /\ config[e] = {}
    /\ config' = [x \in Device |-> IF x \in config[d] \cup {e} THEN config[d] \cup {e} ELSE config[x]]
    /\ missed' = [missed EXCEPT ![e] = @ \cup overdue]
    /\ UNCHANGED <<authority, volume, paused, ignored, handler, faults>>

-----------------------------------------------------------------------------
(* The reclaimer: ReclaimObsolete on a primary replica *)

\* The pass starts by asking every instance: they must agree on the members and
\* all of them must answer.
ReadCohort ==
    /\ \E C \in SUBSET Device :
        /\ C # cohort /\ C # {} /\ \A d \in C : config[d] = C
        /\ cohort' = C
    /\ UNCHANGED <<project, ops, overdue, versions, removals, queue, allocated, confirmed,
                   volume, sync, handler, faults>>

\* Mutant of Unneeded: any version that is not active.
UnneededInactive(g) == TRUE

\* A retained version of a live project goes only if its owner removed it or its
\* upload was aborted.
Unneeded(g) == g \in removals \/ ops[g] = "aborted"

\* RetireStorageVersion: the first call fixes the members, a later one only
\* notes that the project has been deleted since.
Retire(g) ==
    /\ g \in queue
    /\ State(g) \in {"retained", "retiring"}
    /\ State(g) = "retained" => g \in overdue   \* an hour old, deadlines are shorter
    /\ project.status \in {"active", "deleted"} /\ project.pending = 0
    /\ project.status = "active" =>
        /\ g # project.active
        /\ State(g) = "retained" => Unneeded(g)
    /\ versions[g].members \in {{}, cohort}
    /\ versions' = [versions EXCEPT
            ![g].state = "retiring", ![g].members = cohort,
            ![g].deleted = (project.status = "deleted")]
    /\ versions' # versions
    /\ UNCHANGED <<project, ops, overdue, removals, queue, allocated, confirmed, cohort,
                   volume, sync, handler, faults>>

Due(v, d) == v.state = "retiring" /\ d \in v.members \ v.acked

\* AcknowledgeStorageReclamation: the last member's acknowledgement refunds.
Acknowledge(d, g) ==
    LET v == versions[g]
        acked == v.acked \cup {d}
    IN  /\ v # None /\ fences[d][g] # None /\ fences[d][g].done
        /\ Due(v, d)
        /\ IF acked # v.members
           THEN /\ versions' = [versions EXCEPT ![g].acked = acked]
                /\ UNCHANGED <<queue, allocated>>
           ELSE /\ v.deleted => project.status = "deleted"
                /\ project.status = "active" => project.active # g
                /\ versions' = [versions EXCEPT ![g].acked = acked, ![g].state = "reclaimed"]
                /\ queue' = queue \ {g}
                /\ allocated' = allocated - 1
        /\ UNCHANGED <<project, ops, overdue, removals, confirmed, cohort,
                       volume, sync, handler, faults>>

-----------------------------------------------------------------------------
(* Secondary.reclaim, one request at a time (reclamationMu) *)

Moved(d, step) == handler' = [handler EXCEPT ![d].step = step]

\* A pass asks the members in order and goes on once a member's answer is recorded.
Asked(d, g) ==
    /\ State(g) \in {"retiring", "reclaimed"} /\ d \in versions[g].members
    /\ \A e \in versions[g].members : e < d => e \in versions[g].acked

\* The request is of the present record; or, counted as a fault, a copy of an
\* older one that another replica sent before the member's answer was recorded
\* or before the project was deleted.
Fresh(d, g, whole) ==
    State(g) = "retiring" /\ d \notin versions[g].acked /\ whole = versions[g].deleted

Stale(d, g, whole) == faults < MaxFaults /\ ~Fresh(d, g, whole) /\ (whole => versions[g].deleted)

\* The membership is checked and the fences are made durable.
ReclaimBegin(d, g, whole) ==
    /\ handler[d] = None /\ Asked(d, g)
    /\ \/ Fresh(d, g, whole) /\ UNCHANGED faults
       \/ Stale(d, g, whole) /\ faults' = faults + 1
    /\ config[d] = versions[g].members
    /\ sealed' = [sealed EXCEPT ![d] = @ \/ whole]
    /\ fences' = [fences EXCEPT ![d][g] =
            IF @ = None THEN [was |-> paused[d], done |-> FALSE] ELSE @]
    /\ handler' = [handler EXCEPT ![d] = [gen |-> g, step |-> "pause", whole |-> whole]]
    /\ UNCHANGED <<authority, receipts, busy, holds, sync>>

At(d, step) == handler[d] # None /\ handler[d].step = step

\* syncPaused returns once Syncthing has stopped its pullers.
Pause(d) ==
    /\ At(d, "pause")
    /\ paused' = [paused EXCEPT ![d] = TRUE]
    /\ Moved(d, "ignore")
    /\ UNCHANGED <<authority, volume, config, missed, ignored, faults>>

\* What a request removes.
Gone(h) == IF h.whole THEN Gen ELSE {h.gen}

\* ignoreVersion: the generation, or the project's whole directory.
IgnoreVersion(d) ==
    /\ At(d, "ignore")
    /\ ignored' = [ignored EXCEPT ![d] = @ \cup Gone(handler[d])]
    /\ Moved(d, "check")
    /\ UNCHANGED <<authority, volume, config, missed, paused, faults>>

\* The second look, with the pullers stopped.
SameMembers(d) == paused[d] /\ config[d] = versions[handler[d].gen].members

\* A changed membership ends the request with a conflict; the folder stays paused.
Recheck(d) ==
    /\ At(d, "check")
    /\ IF SameMembers(d) THEN Moved(d, "remove") ELSE handler' = [handler EXCEPT ![d] = None]
    /\ UNCHANGED <<authority, volume, sync, faults>>

\* It waits for the readers of what it removes, who always finish
\* (lockVersionRemoval); reads change nothing and are left out.
RemoveVersion(d) ==
    /\ At(d, "remove")
    /\ holds' = [holds EXCEPT ![d] = @ \ Gone(handler[d])]
    /\ Moved(d, "resume")
    /\ UNCHANGED <<authority, receipts, busy, fences, sealed, sync, faults>>

\* Drop resumes the folder unless it found it paused when it first came.
Resume(d) ==
    /\ At(d, "resume")
    /\ paused' = [paused EXCEPT ![d] = @ /\ fences[d][handler[d].gen].was]
    /\ Moved(d, "complete")
    /\ UNCHANGED <<authority, volume, config, missed, ignored, faults>>

Complete(d) ==
    /\ At(d, "complete")
    /\ fences' = [fences EXCEPT ![d][handler[d].gen].done = TRUE]
    /\ handler' = [handler EXCEPT ![d] = None]
    /\ UNCHANGED <<authority, receipts, busy, holds, sealed, sync, faults>>

\* A Syncthing call or the database fails: the request ends where it is.
ReclaimFails(d) ==
    /\ handler[d] # None /\ faults < MaxFaults
    /\ faults' = faults + 1
    /\ handler' = [handler EXCEPT ![d] = None]
    /\ UNCHANGED <<authority, volume, sync>>

\* The instance restarts: receipts, fences, bytes and Syncthing's state remain.
Crash(d) ==
    /\ faults < MaxFaults
    /\ faults' = faults + 1
    /\ handler' = [handler EXCEPT ![d] = None]
    /\ busy' = [busy EXCEPT ![d] = {}]
    /\ UNCHANGED <<authority, receipts, holds, fences, sealed, sync>>

Serve(d) ==
    \/ Pause(d) \/ IgnoreVersion(d) \/ Recheck(d) \/ RemoveVersion(d) \/ Resume(d) \/ Complete(d)

Next ==
    \/ Delete \/ ReadCohort
    \/ \E g \in Gen : \/ Reserve(g) \/ Activate(g) \/ Abort(g)
                      \/ SelectRevision(g) \/ RemoveRevision(g) \/ Retire(g) \/ Deadline(g)
    \/ \E d \in Device :
        \/ Serve(d) \/ ReclaimFails(d) \/ Crash(d)
        \/ \E e \in Device : Join(d, e) \/ \E g \in Gen : Replicate(d, e, g)
        \/ \E g \in Gen :
            \/ ReserveSpace(d, g) \/ UploadBegin(d, g) \/ UploadEnd(d, g) \/ Commit(d, g)
            \/ Cancel(d, g) \/ Acknowledge(d, g)
            \/ \E whole \in BOOLEAN : ReclaimBegin(d, g, whole)

Spec == Init /\ [][Next]_vars

-----------------------------------------------------------------------------
(* Properties *)

\* The shape of the records, and that acknowledgements come from members.
TypeOK ==
    /\ project \in [status : {"none", "reserved", "active", "deleted"}, active : 0..Gens,
                    pending : 0..Gens]
    /\ ops \in [Gen -> {"none", "pending", "complete", "aborted"}]
    /\ versions \in [Gen -> Version \cup {None}]
    /\ \A g \in Gen : versions[g] # None => versions[g].acked \subseteq versions[g].members
    /\ {overdue, removals, queue, confirmed} \subseteq SUBSET Gen
    /\ allocated \in 0..Gens /\ cohort \in SUBSET Device /\ faults \in 0..MaxFaults
    /\ receipts \in [Device -> [Gen -> {"none", "reserved", "stored", "canceled"}]]
    /\ {busy, holds, ignored, missed} \subseteq [Device -> SUBSET Gen]
    /\ fences \in [Device -> [Gen -> Fence \cup {None}]]
    /\ {sealed, paused} \subseteq [Device -> BOOLEAN] /\ config \in [Device -> SUBSET Device]
    /\ handler \in [Device -> Handling \cup {None}]

\* A refunded version is gone for good: no instance holds its bytes, whichever
\* installer was still running, whatever Syncthing copies and whoever joined the
\* folder meanwhile ("only after every authoritative replication member has
\* durably fenced writers/replication and removed bytes").
ReclaimedGone ==
    \A g \in Gen, d \in Device : State(g) = "reclaimed" => g \notin holds[d]

\* While the project is live, some instance holds every version that was ever
\* published and that the owner has not removed ("Successful historical
\* publications are kept for rollback until the owner explicitly removes them").
BytesHeld ==
    project.status = "active" =>
        \A g \in Gen \ removals : ops[g] = "complete" => \E d \in Device : g \in holds[d]

\* Every version is charged until it is refunded, once; and the queue misses no
\* version that cleanup has still to look at.
LedgerExact ==
    /\ allocated = Cardinality({g \in Gen : State(g) \in {"retained", "retiring"}})
    /\ \A g \in Gen : State(g) \in {"retained", "retiring"} =>
           g \in queue \/ (project.status = "active" /\ project.active = g)
=============================================================================
