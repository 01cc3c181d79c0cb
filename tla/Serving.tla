------------------------------- MODULE Serving -------------------------------
(***************************************************************************)
(* Metadata for serving pages: Store.RunServing of internal/metadata, in   *)
(* one process whose node applies the replicated log with a delay.         *)
(*                                                                         *)
(* A lookup is answered from the local records.  Only a record that is     *)
(* absent locally is confirmed with the leader, by one confirmation per    *)
(* key at a time that all callers share; a confirmed absence of a public   *)
(* name is remembered for a moment.  Callers share records and absences,   *)
(* never a decision: each evaluates its own lookup on what was read.       *)
(***************************************************************************)
EXTENDS Naturals, Sequences, FiniteSets, SequencesExt

CONSTANTS
    Request,
    Key,          \* lookups, each of one record here
    Public,       \* lookups whose absence may be remembered (public slugs)
    Entitled,     \* requests whose own lookup succeeds on a present record
    Slots,        \* confirmations at a time (64)
    Callers,      \* callers waiting for one (256)
    MaxNegative,  \* remembered absences (1024)
    TTL,          \* ticks an absence is remembered (1 s)
    Deadline,     \* ticks a confirmation may take (10 s)
    MaxLag,       \* bound: changes the node may be behind
    MaxClock,     \* bound: clock
    None

ASSUME ServingAssumption ==
    /\ Public \subseteq Key /\ Entitled \subseteq Request
    /\ {Slots, Callers, MaxNegative, TTL, Deadline, MaxLag, MaxClock} \subseteq Nat

Flight == [leader : Request, since : Nat, read : {None, "present", "absent"}]
Entry  == [key : Public, until : Nat]

ASSUME NoneAssumption ==
    None \notin Nat \cup Flight \cup {"present", "absent", "records", "notfound", "error"}

VARIABLES
    clock,
    leader,    \* leader[k]: is the record present in the leader's store?
    behind,    \* keys changed at the leader and not yet applied here, in order
    local,     \* local[k]: is it present in this node's records?
    flights,   \* servingState.flights: the confirmation in progress for a key
    negative,  \* servingState.negative and lru: remembered absences, newest first
    requests,
    absentAt   \* ghost: when a key was last absent at the leader (None: never)

vars == <<clock, leader, behind, local, flights, negative, requests, absentAt>>

Idle == [step |-> "idle", key |-> None, found |-> FALSE, result |-> None]

Init ==
    /\ clock = 0
    /\ leader \in [Key -> BOOLEAN] /\ local = leader /\ behind = <<>>
    /\ flights = [k \in Key |-> None]
    /\ negative = <<>>
    /\ requests = [r \in Request |-> Idle]
    /\ absentAt = [k \in Key |-> IF leader[k] THEN None ELSE 0]

-----------------------------------------------------------------------------
(* The replicated store *)

\* A record is created or deleted by a committed transaction.
Write(k) ==
    /\ Len(behind) < MaxLag
    /\ leader' = [leader EXCEPT ![k] = ~@]
    /\ behind' = Append(behind, k)
    /\ absentAt' = [absentAt EXCEPT ![k] = clock]
    /\ UNCHANGED <<clock, local, flights, negative, requests>>

\* The node applies the next change.
ApplyNext ==
    /\ behind # <<>>
    /\ local' = [local EXCEPT ![Head(behind)] = ~@]
    /\ behind' = Tail(behind)
    /\ UNCHANGED <<clock, leader, flights, negative, requests, absentAt>>

-----------------------------------------------------------------------------
(* RunServing *)

\* A request's own callback on a present record.
Decide(r) == IF r \in Entitled THEN "ok" ELSE "denied"

Return(r, result) == requests' = [requests EXCEPT ![r].step = "done", ![r].result = result]

\* The lookup in a local snapshot: a present record ends it, whatever the
\* callback decides.
Lookup(r, k) ==
    /\ requests[r].step = "idle"
    /\ requests' = [requests EXCEPT ![r] =
         IF local[k] THEN [step |-> "done", key |-> k, found |-> TRUE, result |-> Decide(r)]
         ELSE [step |-> "absent", key |-> k, found |-> FALSE, result |-> None]]
    /\ UNCHANGED <<clock, leader, behind, local, flights, negative, absentAt>>

\* The local coordinator fails: never turned into a confirmation.
LookupFails(r) ==
    /\ requests[r].step \in {"idle", "absent"}
    /\ Return(r, "error")
    /\ UNCHANGED <<clock, leader, behind, local, flights, negative, absentAt>>

Absent(r) == requests[r].step = "absent"
KeyOf(r)  == requests[r].key
Waiters   == {r \in Request : requests[r].step \in {"lead", "wait", "replay"}}

\* Remembered absences of k that still hold.
Remembered(k) == \E i \in 1..Len(negative) : negative[i].key = k /\ clock < negative[i].until

\* The entry of k in the list, and the list without it.
Listed(k)   == \E i \in 1..Len(negative) : negative[i].key = k
Position(k) == CHOOSE i \in 1..Len(negative) : negative[i].key = k
Without(k)  == IF Listed(k) THEN RemoveAt(negative, Position(k)) ELSE negative

\* A hit moves the entry to the front of the LRU list, no more.
Touched(k) == <<negative[Position(k)]>> \o Without(k)

\* An entry that is over is dropped by the next caller that meets it.
Dropped(k) == IF k \in Public THEN Without(k) ELSE negative

\* More callers or confirmations than the process admits are told that nothing
\* is there.
Denied(r) ==
    LET k == KeyOf(r) IN
    /\ Absent(r)
    /\ \/ Cardinality(Waiters) >= Callers /\ UNCHANGED negative
       \/ /\ Cardinality(Waiters) < Callers
          /\ ~(k \in Public /\ Remembered(k)) /\ negative' = Dropped(k)
          /\ flights[k] = None /\ Cardinality({j \in Key : flights[j] # None}) >= Slots
    /\ Return(r, "busy")
    /\ UNCHANGED <<clock, leader, behind, local, flights, absentAt>>

NegativeHit(r) ==
    LET k == KeyOf(r) IN
    /\ Absent(r) /\ Cardinality(Waiters) < Callers
    /\ k \in Public /\ Remembered(k)
    /\ negative' = Touched(k)
    /\ Return(r, "notfound")
    /\ UNCHANGED <<clock, leader, behind, local, flights, absentAt>>

\* The first caller of a key leads the confirmation.
Lead(r) ==
    LET k == KeyOf(r) IN
    /\ Absent(r) /\ Cardinality(Waiters) < Callers
    /\ ~(k \in Public /\ Remembered(k))
    /\ flights[k] = None /\ Cardinality({j \in Key : flights[j] # None}) < Slots
    /\ flights' = [flights EXCEPT ![k] = [leader |-> r, since |-> clock, read |-> None]]
    /\ negative' = Dropped(k)
    /\ requests' = [requests EXCEPT ![r].step = "lead"]
    /\ UNCHANGED <<clock, leader, behind, local, absentAt>>

\* The others wait for it.
Join(r) ==
    LET k == KeyOf(r) IN
    /\ Absent(r) /\ Cardinality(Waiters) < Callers
    /\ ~(k \in Public /\ Remembered(k))
    /\ flights[k] # None
    /\ negative' = Dropped(k)
    /\ requests' = [requests EXCEPT ![r].step = "wait"]
    /\ UNCHANGED <<clock, leader, behind, local, flights, absentAt>>

\* Mutant of ConfirmedBy: absence is confirmed by the lagging local records.
ConfirmedByLocal(k) == local[k]

\* The records a confirmation reads: the leader's.
ConfirmedBy(k) == leader[k]

\* RunSnapshot on the leader; the first caller's callback runs on it.
Confirm(k) ==
    /\ flights[k] # None /\ flights[k].read = None
    /\ flights' = [flights EXCEPT ![k].read = IF ConfirmedBy(k) THEN "present" ELSE "absent"]
    /\ UNCHANGED <<clock, leader, behind, local, negative, requests, absentAt>>

\* Mutant of Shared: the leading caller's own result is handed to everyone.
SharedDecision(k) == IF flights[k].read = "absent" THEN "notfound" ELSE Decide(flights[k].leader)

\* What the callers of a finished confirmation share.  A denial is the leading
\* caller's own: the others evaluate the records themselves.
Shared(k) == IF flights[k].read = "absent" THEN "notfound" ELSE "records"

\* The absence of k is remembered; the least recently used entries are dropped.
Remember(k) ==
    LET list == <<[key |-> k, until |-> clock + TTL]>> \o Without(k)
    IN  SubSeq(list, 1, IF Len(list) > MaxNegative THEN MaxNegative ELSE Len(list))

\* Mutant of Told: only the caller that led the confirmation learns its end.
ToldLeader(r, k) == KeyOf(r) = k /\ requests[r].step = "lead"

\* Those that wait for the confirmation of k.
Told(r, k) == KeyOf(r) = k /\ requests[r].step \in {"lead", "wait"}

\* The answer of the confirmation reaches all its callers at once.
Tell(k, answer) ==
    requests' = [r \in Request |->
        IF Told(r, k)
        THEN [requests[r] EXCEPT !.step = "replay", !.result = answer, !.found = answer # "notfound"]
        ELSE requests[r]]

\* The confirmation ends: flights[key] is removed and its channel closed.
Finish(k) ==
    /\ flights[k] # None /\ flights[k].read # None
    /\ Tell(k, Shared(k))
    /\ negative' = IF k \in Public /\ Shared(k) = "notfound" THEN Remember(k) ELSE negative
    /\ flights' = [flights EXCEPT ![k] = None]
    /\ UNCHANGED <<clock, leader, behind, local, absentAt>>

\* "Never negative-cache transport failures."
FailNegative(k) == negative

\* No leader, no answer in time.
ConfirmFails(k) ==
    /\ flights[k] # None
    /\ Tell(k, "error")
    /\ negative' = FailNegative(k)
    /\ flights' = [flights EXCEPT ![k] = None]
    /\ UNCHANGED <<clock, leader, behind, local, absentAt>>

\* Each caller returns the shared error or runs its own callback on the records.
Replay(r) ==
    /\ requests[r].step = "replay"
    /\ Return(r, IF requests[r].result = "records" THEN Decide(r) ELSE requests[r].result)
    /\ UNCHANGED <<clock, leader, behind, local, flights, negative, absentAt>>

\* A caller waiting for the end may go away; a leading one, whose confirmation
\* does not inherit its cancellation, finishes that first.
Cancellable(r) == requests[r].step \in {"wait", "replay"}

Cancel(r) ==
    /\ Cancellable(r)
    /\ Return(r, "error")
    /\ UNCHANGED <<clock, leader, behind, local, flights, negative, absentAt>>

\* The caller's next request.
Reuse(r) ==
    /\ requests[r].step = "done"
    /\ requests' = [requests EXCEPT ![r] = Idle]
    /\ UNCHANGED <<clock, leader, behind, local, flights, negative, absentAt>>

\* Time passes; confirmations do not outlive their deadline.
Tick ==
    /\ clock < MaxClock
    /\ \A k \in Key : flights[k] # None => clock < flights[k].since + Deadline
    /\ \A r \in Request : requests[r].step # "replay"
    /\ clock' = clock + 1
    /\ absentAt' = [k \in Key |-> IF leader[k] THEN absentAt[k] ELSE clock + 1]
    /\ UNCHANGED <<leader, behind, local, flights, negative, requests>>

\* What a caller does after its own lookup found nothing.
Answer(r) == LookupFails(r) \/ Denied(r) \/ NegativeHit(r) \/ Lead(r) \/ Join(r)

Next ==
    \/ \E k \in Key : Write(k) \/ Confirm(k) \/ Finish(k) \/ ConfirmFails(k)
    \/ ApplyNext \/ Tick
    \/ \E r \in Request, k \in Key : Lookup(r, k)
    \/ \E r \in Request :
        \/ Answer(r) \/ Replay(r) \/ Cancel(r) \/ Reuse(r)

Fairness ==
    /\ \A k \in Key : WF_vars(Confirm(k)) /\ WF_vars(Finish(k) \/ ConfirmFails(k))
    /\ \A r \in Request :
        /\ WF_vars(Answer(r))
        /\ WF_vars(Replay(r))

Spec     == Init /\ [][Next]_vars
FairSpec == Spec /\ Fairness

-----------------------------------------------------------------------------
TypeOK ==
    /\ clock \in 0..MaxClock
    /\ leader \in [Key -> BOOLEAN] /\ local \in [Key -> BOOLEAN]
    /\ behind \in Seq(Key) /\ Len(behind) <= MaxLag
    /\ Len(negative) <= MaxNegative /\ IsInjective([i \in 1..Len(negative) |-> negative[i].key])
    /\ \A k \in Key : flights[k] # None =>
        /\ requests[flights[k].leader].step = "lead" /\ requests[flights[k].leader].key = k
    /\ \A r \in Request :
        requests[r].step \in {"idle", "absent", "lead", "wait", "replay", "done"}

\* A page that exists is not reported missing: a lookup answered with "not found"
\* (and not refused for capacity) was absent at the leader no longer ago than the
\* memory of an absence and one confirmation, however far the local node lags,
\* whoever shared the confirmation and however often the memory is hit.
AbsenceFresh ==
    \A r \in Request :
        requests[r].step = "replay" /\ requests[r].result = "notfound"
        => absentAt[KeyOf(r)] # None /\ clock <= absentAt[KeyOf(r)] + Deadline

\* The same for answers from memory.
MemoryFresh ==
    \A i \in 1..Len(negative) :
        /\ negative[i].key \in Public
        /\ clock < negative[i].until =>
            /\ absentAt[negative[i].key] # None
            /\ clock < absentAt[negative[i].key] + Deadline + TTL

\* No "not found", confirmed or remembered, is older than its time limit.
DenialsFresh == AbsenceFresh /\ MemoryFresh

\* "A domain denial belongs to this caller; peers ... never inherit that decision"
\* and "never a successful authorization result": what a caller is told about a
\* record that was found is its own decision.
OwnDecision ==
    \A r \in Request :
        requests[r].step = "done" /\ requests[r].found /\ requests[r].result # "error"
        => requests[r].result = Decide(r)

\* A caller that found nothing locally gets an answer: the shared confirmation
\* always ends and frees its slot, also when its leading caller went away or the
\* leader is unreachable.
LookupsAnswered == \A r \in Request : Absent(r) ~> requests[r].step = "done"
=============================================================================
