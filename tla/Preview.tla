------------------------------ MODULE Preview ------------------------------
(***************************************************************************)
(* Screenshot jobs of the primary replicas and the index of the public     *)
(* gallery (internal/preview/service.go).                                  *)
(*                                                                         *)
(* A project changes under the hands of the workers: it is published anew, *)
(* made private or public, claimed, deleted.  A replica has one worker;    *)
(* its job is four steps, each transaction one step, at most 45 seconds    *)
(* long in all, under a replicated lease of one minute.  Clocks agree, so  *)
(* a lease outlives the job that took it.                                  *)
(***************************************************************************)
EXTENDS Naturals, Sequences, FiniteSets

CONSTANTS
    Replica,
    Project,
    MaxRecent,   \* projects the index keeps (100 in the code)
    Capacity,    \* jobs the queue of a replica keeps (128)
    MaxChange,   \* bound: changes of projects
    MaxFault,    \* bound: jobs cut short and lost notifications
    None

VARIABLES
    proj,        \* projects/: content, policy and time of the last change
    state,       \* previews/: the job record of a project, or None
    recent,      \* preview_recent/public
    saved,       \* images on the volume, by project and content
    queue,       \* queue[r]: the ids waiting at a replica
    job,         \* job[r]: the job in progress, or None
    changes, faults

vars == <<proj, state, recent, saved, queue, job, changes, faults>>

Live(p) == p.policy # "deleted"
Private(p) == p.policy = "private"
Discoverable(p) == p.policy = "claimed"

Init ==
    /\ proj = [i \in Project |-> [digest |-> 1, policy |-> "unclaimed", when |-> 0]]
    /\ state = [i \in Project |-> None]
    /\ recent = {} /\ saved = {}
    /\ queue = [r \in Replica |-> <<>>]
    /\ job = [r \in Replica |-> None]
    /\ changes = 0 /\ faults = 0

-----------------------------------------------------------------------------
(* Notifications *)

Waiting(r, i) == (\E k \in DOMAIN queue[r] : queue[r][k] = i) \/ (job[r] # None /\ job[r].id = i)

(* Notify never blocks: an id that is pending, or for which the queue has no *)
(* room, is dropped.                                                         *)
Notified(r, i) ==
    IF Waiting(r, i) \/ Len(queue[r]) >= Capacity THEN queue[r] ELSE Append(queue[r], i)

(* A request changes the project and then notifies its own replica, unless   *)
(* the replica fails in between (a deletion notifies nobody).                *)
Policies(p) ==
    CASE p.policy = "unclaimed" -> {"claimed", "deleted"}
      [] p.policy = "claimed" -> {"private", "deleted"}
      [] p.policy = "private" -> {"claimed", "deleted"}
      [] OTHER -> {}

Change(r, i) ==
    /\ Live(proj[i]) /\ changes < MaxChange
    /\ changes' = changes + 1
    /\ \E new \in {[proj[i] EXCEPT !.digest = @ + 1, !.when = changes']} \cup
                  {[proj[i] EXCEPT !.policy = policy] : policy \in Policies(proj[i])} :
          /\ proj' = [proj EXCEPT ![i] = new]
          /\ \/ /\ Live(new) /\ queue' = [queue EXCEPT ![r] = Notified(r, i)] /\ UNCHANGED faults
             \/ /\ ~Live(new) /\ UNCHANGED <<queue, faults>>
             \/ /\ Live(new) /\ faults < MaxFault /\ faults' = faults + 1 /\ UNCHANGED queue
    /\ UNCHANGED <<state, recent, saved, job>>

(* scan: every project that is live is offered again. *)
Scan(r, i) ==
    /\ Live(proj[i])
    /\ queue' = [queue EXCEPT ![r] = Notified(r, i)]
    /\ UNCHANGED <<proj, state, recent, saved, job, changes, faults>>

-----------------------------------------------------------------------------
(* process *)

Same(s, p) == s # None /\ s.digest = p.digest
Reindex(s, p) == s.private # Private(p) \/ s.listed # Discoverable(p)

UnheldFinished(s) == IF s = None THEN TRUE ELSE s.token = None

(* The lease of the record is over. *)
Unheld(s) == s = None \/ ~s.held

(* The first transaction: nothing to do, only the index, or a lease on the   *)
(* rendering.                                                                *)
Begin(r, i) ==
    LET p == proj[i]
        s == state[i]
        rest == [queue EXCEPT ![r] = Tail(@)]
        Take(pc) == job' = [job EXCEPT ![r] = [id |-> i, pc |-> pc, seen |-> p, ok |-> FALSE]]
    IN  /\ queue[r] # <<>> /\ Head(queue[r]) = i /\ job[r] = None
        /\ queue' = rest
        /\ CASE ~Live(p) -> UNCHANGED <<state, job>>
             [] Live(p) /\ Same(s, p) /\ Reindex(s, p) -> Take("reindex") /\ UNCHANGED state
             [] Live(p) /\ Same(s, p) /\ ~Reindex(s, p) /\ (s.ready \/ s.retry) -> UNCHANGED <<state, job>>
             [] OTHER ->
                  IF Unheld(s)
                  THEN /\ Take("remember")
                       /\ state' = [state EXCEPT ![i] =
                            [digest |-> p.digest, private |-> Private(p), listed |-> Discoverable(p),
                             token |-> r, held |-> TRUE, ready |-> FALSE, retry |-> FALSE]]
                  ELSE UNCHANGED <<state, job>>
        /\ UNCHANGED <<proj, recent, saved, changes, faults>>

(* remember: the candidate is put in or taken out by its current policy, and *)
(* so is everything else; the newest MaxRecent stay.                         *)
Remembered(i) ==
    LET live == {j \in recent \cup {i} : Discoverable(proj[j])}
        Newer(j) == {k \in live : \/ proj[k].when > proj[j].when
                                  \/ proj[k].when = proj[j].when /\ k < j}
    IN  {j \in live : Cardinality(Newer(j)) < MaxRecent}

Remember(r) ==
    /\ job[r] # None /\ job[r].pc \in {"reindex", "remember"}
    /\ recent' = Remembered(job[r].id)
    /\ job' = [job EXCEPT ![r].pc = IF @ = "reindex" THEN "settle" ELSE "render"]
    /\ UNCHANGED <<proj, state, saved, queue, changes, faults>>

(* The index is done: noted in the record if the project is what it was.     *)
Settle(r) ==
    LET i == job[r].id
        p == proj[i]
        seen == job[r].seen
        s == state[i]
    IN  /\ job[r] # None /\ job[r].pc = "settle"
        /\ state' = IF \/ p.digest # seen.digest \/ Private(p) # Private(seen)
                       \/ Discoverable(p) # Discoverable(seen) \/ ~Same(s, p)
                    THEN state
                    ELSE [state EXCEPT ![i].listed = Discoverable(p), ![i].private = Private(p)]
        /\ job' = [job EXCEPT ![r] = None]
        /\ UNCHANGED <<proj, recent, saved, queue, changes, faults>>

(* save: renamed into place.  The volume has room for every image: past      *)
(* 512 MiB the code discards the oldest, whose page then shows a placeholder. *)
SavedImage(i, p) == saved \cup {<<i, p.digest>>}

(* Render and save. *)
Render(r, ok) ==
    /\ job[r] # None /\ job[r].pc = "render"
    /\ saved' = IF ok THEN SavedImage(job[r].id, job[r].seen) ELSE saved
    /\ job' = [job EXCEPT ![r].pc = "finish", ![r].ok = ok]
    /\ UNCHANGED <<proj, state, recent, queue, changes, faults>>

(* What was rendered is no longer what the project is. *)
Outdated(p, seen) ==
    p.digest # seen.digest \/ ~Live(p) \/ Private(p) # Private(seen)

(* The last transaction: only under the token of the lease; an outdated      *)
(* rendering drops the record, so that the next job starts over.             *)
Finish(r) ==
    LET i == job[r].id
        s == state[i]
    IN  /\ job[r] # None /\ job[r].pc = "finish"
        /\ state' = IF s = None THEN state
                    ELSE IF s.token # r THEN state
                    ELSE IF Outdated(proj[i], job[r].seen) THEN [state EXCEPT ![i] = None]
                    ELSE [state EXCEPT ![i] = [s EXCEPT !.token = None, !.held = FALSE,
                                               !.ready = job[r].ok, !.retry = ~job[r].ok]]
        /\ job' = [job EXCEPT ![r] = None]
        /\ UNCHANGED <<proj, recent, saved, queue, changes, faults>>

-----------------------------------------------------------------------------
(* A transaction fails, the 45 seconds pass, or the process ends (which also *)
(* loses the queue).                                                         *)
CutShort(r) ==
    /\ faults < MaxFault /\ job[r] # None
    /\ faults' = faults + 1
    /\ job' = [job EXCEPT ![r] = None]
    /\ queue' \in {queue, [queue EXCEPT ![r] = <<>>]}
    /\ UNCHANGED <<proj, state, recent, saved, changes>>

Rendering(i) == {r \in Replica : /\ job[r] # None
                                 /\ job[r].id = i /\ job[r].pc \in {"remember", "render", "finish"}}

(* The minute of a lease passes, and later the five minutes of a retry.      *)
LeaseExpires(i) ==
    /\ state[i] # None /\ state[i].held /\ Rendering(i) = {}
    /\ state' = [state EXCEPT ![i].held = FALSE]
    /\ UNCHANGED <<proj, recent, saved, queue, job, changes, faults>>

RetryPasses(i) ==
    /\ state[i] # None /\ state[i].retry
    /\ state' = [state EXCEPT ![i].retry = FALSE]
    /\ UNCHANGED <<proj, recent, saved, queue, job, changes, faults>>

Step(r) ==
    \/ \E i \in Project : Begin(r, i)
    \/ Remember(r) \/ Settle(r) \/ Finish(r)
    \/ \E ok \in BOOLEAN : Render(r, ok)

Next ==
    \/ \E r \in Replica : Step(r) \/ CutShort(r)
    \/ \E r \in Replica, i \in Project : Change(r, i) \/ Scan(r, i)
    \/ \E i \in Project : LeaseExpires(i) \/ RetryPasses(i)

(* The worker of a replica runs, its ticker fires, time passes, and a page   *)
(* is not beyond rendering for ever.                                         *)
Fairness ==
    /\ \A r \in Replica : WF_vars(Step(r)) /\ SF_vars(Render(r, TRUE))
    /\ \A r \in Replica, i \in Project : SF_vars(Scan(r, i))
    /\ \A i \in Project : WF_vars(LeaseExpires(i)) /\ WF_vars(RetryPasses(i))

Spec == Init /\ [][Next]_vars /\ Fairness

-----------------------------------------------------------------------------
(* Whatever notifications are lost, workers cut short and changes made in    *)
(* the middle of a rendering: a project that stays live ends up, for good,   *)
(* with the image of its current content, and the record says so.            *)
Settled(i) ==
    Live(proj[i]) => /\ state[i] # None /\ state[i].digest = proj[i].digest
                     /\ state[i].ready /\ <<i, proj[i].digest>> \in saved

PreviewsSettle == \A i \in Project : <>[]Settled(i)
=============================================================================
