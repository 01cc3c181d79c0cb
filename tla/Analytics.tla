------------------------------ MODULE Analytics ------------------------------
(***************************************************************************)
(* Page-view analytics: internal/analytics, for one project of one shard.  *)
(*                                                                         *)
(* A process counts views in memory without a lock (Collector.Record),     *)
(* captures cumulative snapshots in an outbox on its disk and sends them   *)
(* to a primary (Flush).  A primary stores immutable files on a volume     *)
(* that is replicated behind its back (Archive).  A producer is one boot   *)
(* of the process; of a producer's snapshots of a day the one with the     *)
(* highest sequence counts, and producers add up.                          *)
(***************************************************************************)
EXTENDS Integers, FiniteSets, FiniteSetsExt

CONSTANTS
    Viewer,     \* concurrent calls of Record
    Primary,    \* replicas that keep an archive
    Retention,  \* days kept (180)
    MaxDay,     \* bound: days
    MaxBoot,    \* bound: boots of the process
    MaxTicks,   \* bound: views, flushes, midnights and restarts together
    None

ViewsAssumption == {Retention, MaxDay, MaxTicks} \subseteq Nat /\ MaxBoot \in Nat \ {0}

VARIABLES
    today,
    boot,      \* the current producer
    days,      \* counterShard.days: the days in memory
    viewers,   \* calls of Record in progress
    flush,     \* the flush in progress, one at a time (flushMu)
    flushes,   \* flushes so far: the time stamp of a snapshot
    outbox,    \* snapshots on the process's disk, one per producer and day
    wire,      \* submissions that a primary may still execute
    files,     \* files[p]: snapshots in the archive of p
    removed,   \* removed[p]: names of files p's volume knows to be deleted
    served,    \* ghost: views counted, per producer and day
    kept       \* ghost: views the collector takes to be captured

vars == <<today, boot, days, viewers, flush, flushes, outbox, wire, files, removed, served, kept>>

Idle == [step |-> "idle"]
Sum(f, S) == MapThenSumSet(LAMBDA x : f[x], S)

Init ==
    /\ today = 0 /\ boot = 1 /\ flushes = 0
    /\ days = [d \in {} |-> None]
    /\ viewers = [v \in Viewer |-> Idle]
    /\ flush = Idle
    /\ outbox = {} /\ wire = {}
    /\ files = [p \in Primary |-> {}] /\ removed = [p \in Primary |-> {}]
    /\ served = [x \in (1..MaxBoot) \X (0..MaxDay) |-> 0] /\ kept = served

Ticks == Sum(served, DOMAIN served) + flushes + today + boot - 1
Cutoff == today + 1 - Retention
NewDay == [views |-> 0, revision |-> 0, persisted |-> 0]
Clean(d) == days[d].persisted = days[d].revision
Only(D)  == [d \in D |-> days[d]]

-----------------------------------------------------------------------------
(* Collector.Record: no lock is held while the counters are raised *)

\* Captured days before the eve of d make room for d.
Evicted(d) == {e \in DOMAIN days : e < d - 1 /\ Clean(e)}

\* The counter is found, or made if there is room; else the view is dropped and
\* nothing changes (an eviction always makes room).  A view may belong to a request from before midnight.
Find(v, d) ==
    /\ viewers[v] = Idle /\ d \in {today - 1, today} /\ d >= 0
    /\ LET left == DOMAIN days \ Evicted(d) IN
       \/ /\ d \in DOMAIN days
          /\ days' = days
       \/ /\ d \notin DOMAIN days /\ Cardinality(left) < 2
          /\ days' = [e \in left \cup {d} |-> IF e = d THEN NewDay ELSE days[e]]
    /\ viewers' = [viewers EXCEPT ![v] = [step |-> "found", day |-> d]]
    /\ UNCHANGED <<today, boot, flush, flushes, outbox, wire, files, removed, served, kept>>

\* First the hour's counter, then the day's revision, both atomically.  The day
\* may have been dropped meanwhile.
Count(v) ==
    /\ viewers[v].step = "found" /\ Ticks < MaxTicks
    /\ LET d == viewers[v].day IN
        /\ days' = IF d \in DOMAIN days THEN [days EXCEPT ![d].views = @ + 1] ELSE days
        /\ viewers' = [viewers EXCEPT ![v].step = "counted"]
        /\ served' = [served EXCEPT ![<<boot, d>>] = @ + 1]
    /\ UNCHANGED <<today, boot, flush, flushes, outbox, wire, files, removed, kept>>

Revise(v) ==
    /\ viewers[v].step = "counted"
    /\ LET d == viewers[v].day IN
       days' = IF d \in DOMAIN days THEN [days EXCEPT ![d].revision = @ + 1] ELSE days
    /\ viewers' = [viewers EXCEPT ![v] = Idle]
    /\ UNCHANGED <<today, boot, flush, flushes, outbox, wire, files, removed, served, kept>>

-----------------------------------------------------------------------------
(* Collector.Flush *)

\* First the days are captured one by one, then what the outbox holds is sent, also
\* what earlier boots left there.
Then(todo, box) ==
    IF todo # {} THEN [step |-> "days", todo |-> todo]
    ELSE IF box # {} THEN [step |-> "send", todo |-> box] ELSE Idle

\* Days before yesterday leave the memory, captured or not.
FlushStart ==
    /\ flush = Idle /\ Ticks < MaxTicks
    /\ flushes' = flushes + 1
    /\ days' = Only({d \in DOMAIN days : d >= today - 1})
    /\ flush' = Then(DOMAIN days', outbox)
    /\ UNCHANGED <<today, boot, viewers, outbox, wire, files, removed, served, kept>>

\* "Capture revision BEFORE counters."
Capture(d) ==
    /\ flush.step = "days" /\ d \in flush.todo
    /\ flush' = IF d \notin DOMAIN days \/ Clean(d) THEN Then(flush.todo \ {d}, outbox)
                ELSE [step |-> "copy", todo |-> flush.todo \ {d},
                      snapshot |-> [boot |-> boot, day |-> d, sequence |-> days[d].revision,
                                    stamp |-> flushes, total |-> 0]]
    /\ UNCHANGED <<today, boot, days, viewers, flushes, outbox, wire, files, removed, served, kept>>

Copied(s) == [s EXCEPT !.total = days[s.day].views]

Copy ==
    /\ flush.step = "copy"
    /\ flush' = [flush EXCEPT !.step = "persist", !.snapshot = Copied(@)]
    /\ UNCHANGED <<today, boot, days, viewers, flushes, outbox, wire, files, removed, served, kept>>

\* Mutant: everything recorded so far is taken to be captured.
MarkedNow(s) == [days EXCEPT ![s.day].persisted = days[s.day].revision]

Marked(s) == [days EXCEPT ![s.day].persisted = s.sequence]

Replaced(s) == {o \in outbox : <<o.boot, o.day>> # <<s.boot, s.day>>} \cup {s}

\* The outbox file of the day is replaced atomically; an error (a full outbox, the
\* disk) may be reported before or after the replacement.
Persist(written, ok) ==
    /\ flush.step = "persist" /\ (ok => written)
    /\ LET s == flush.snapshot IN
        /\ outbox' = IF written THEN Replaced(s) ELSE outbox
        /\ days'   = IF ok THEN Marked(s) ELSE days
        /\ kept'   = IF ok THEN [kept EXCEPT ![<<s.boot, s.day>>] = s.sequence] ELSE kept
    /\ flush' = Then(flush.todo, outbox')
    /\ UNCHANGED <<today, boot, viewers, flushes, wire, files, removed, served>>

Expire(s) ==
    /\ flush.step = "send" /\ s \in flush.todo /\ s.day < Cutoff
    /\ outbox' = outbox \ {s}
    /\ flush' = Then({}, flush.todo \ {s})
    /\ UNCHANGED <<today, boot, days, viewers, flushes, wire, files, removed, served, kept>>

Send(s) ==
    /\ flush.step = "send" /\ s \in flush.todo /\ s.day >= Cutoff
    /\ flush' = [step |-> "wait", todo |-> flush.todo \ {s}, snapshot |-> s]
    /\ wire' = wire \cup {s}
    /\ UNCHANGED <<today, boot, days, viewers, flushes, outbox, files, removed, served, kept>>

\* A refusal, a busy archive or a lost answer ends the flush; the file stays in the
\* outbox.  A primary may still execute the submission.
GiveUp ==
    /\ flush.step = "wait"
    /\ flush' = Idle
    /\ UNCHANGED <<today, boot, days, viewers, flushes, outbox, wire, files, removed, served, kept>>

-----------------------------------------------------------------------------
(* Archive *)

\* filename: the time stamp is not part of it.
Name(s) == <<s.boot, s.day, s.sequence>>

OfProducer(p, s) == {f \in files[p] : f.boot = s.boot /\ f.day = s.day}
Higher(p, s)     == {f \in OfProducer(p, s) : f.sequence > s.sequence}
Older(p, s)      == {f \in OfProducer(p, s) : f.sequence < s.sequence}

\* Of the older files all but the newest are deleted.
Superseded(p, s) == {f \in Older(p, s) : \E g \in Older(p, s) : g.sequence > f.sequence}

Stores(p, s) ==
    /\ s.day >= Cutoff
    /\ \A f \in OfProducer(p, s) : f.sequence < s.sequence

\* Accept acknowledges what is expired, older or already there; a different file
\* of the same sequence is an error.
Acknowledges(p, s) ==
    s.day < Cutoff \/ Stores(p, s) \/ Higher(p, s) # {} \/ s \in files[p]

\* A primary executes a submission, perhaps after its caller has given up; the file
\* of an acknowledged one leaves the outbox.
Accept(p, s) ==
    /\ s \in wire
    /\ wire' = wire \ {s}
    /\ files' = IF Stores(p, s) THEN [files EXCEPT ![p] = (@ \cup {s}) \ Superseded(p, s)] ELSE files
    /\ removed' = IF Stores(p, s)
                  THEN [removed EXCEPT ![p] = (@ \ {Name(s)}) \cup {Name(f) : f \in Superseded(p, s)}]
                  ELSE removed
    /\ IF flush.step = "wait" /\ flush.snapshot = s /\ Acknowledges(p, s)
       THEN outbox' = outbox \ {s} /\ flush' = Then({}, flush.todo)
       ELSE UNCHANGED <<outbox, flush>>
    /\ UNCHANGED <<today, boot, days, viewers, flushes, served, kept>>

\* Sweep removes expired days.
Sweep(p) ==
    /\ LET old == {f \in files[p] : f.day < Cutoff} IN
        /\ old # {}
        /\ files'   = [files EXCEPT ![p] = @ \ old]
        /\ removed' = [removed EXCEPT ![p] = @ \cup {Name(f) : f \in old}]
    /\ UNCHANGED <<today, boot, days, viewers, flush, flushes, outbox, wire, served, kept>>

\* External: the volume copies files and deletions from one primary to another,
\* in any order; of two files of one name either may win.
Replicate(p, q, f) ==
    /\ p # q /\ f \in files[p] \ files[q] /\ Name(f) \notin removed[q]
    /\ files' = [files EXCEPT ![q] = {g \in @ : Name(g) # Name(f)} \cup {f}]
    /\ UNCHANGED <<today, boot, days, viewers, flush, flushes, outbox, wire, removed, served, kept>>

ReplicateRemoval(p, q) ==
    /\ p # q
    /\ \E f \in files[q] :
        /\ Name(f) \in removed[p]
        /\ files' = [files EXCEPT ![q] = @ \ {f}]
        /\ removed' = [removed EXCEPT ![q] = @ \cup {Name(f)}]
    /\ UNCHANGED <<today, boot, days, viewers, flush, flushes, outbox, wire, served, kept>>

\* query: of every producer the file with the highest sequence; their totals are added
\* up, here as a number of units.
Latest(p, d) == {f \in files[p] : f.day = d /\ ~ \E g \in OfProducer(p, f) : g.sequence > f.sequence}
PageViews(p, d) == Cardinality(UNION {{f} \X (1..f.total) : f \in Latest(p, d)})

-----------------------------------------------------------------------------
NextDay ==
    /\ today < MaxDay /\ Ticks < MaxTicks
    /\ today' = today + 1
    /\ UNCHANGED <<boot, days, viewers, flush, flushes, outbox, wire, files, removed, served, kept>>

\* NewCollector: a new boot is a new producer; the outbox stays.
Restart ==
    /\ boot < MaxBoot /\ Ticks < MaxTicks
    /\ boot' = boot + 1
    /\ days' = [d \in {} |-> None]
    /\ viewers' = [v \in Viewer |-> Idle]
    /\ flush' = Idle
    /\ UNCHANGED <<today, flushes, outbox, wire, files, removed, served, kept>>

Next ==
    \/ \E v \in Viewer : Count(v) \/ Revise(v) \/ \E d \in 0..MaxDay : Find(v, d)
    \/ \E d \in 0..MaxDay : Capture(d)
    \/ FlushStart \/ Copy \/ GiveUp \/ NextDay \/ Restart
    \/ \E written, ok \in BOOLEAN : Persist(written, ok)
    \/ \E s \in outbox : Send(s) \/ Expire(s)
    \/ \E p \in Primary : Sweep(p) \/ \E s \in wire : Accept(p, s)
    \/ \E p, q \in Primary : ReplicateRemoval(p, q) \/ \E f \in files[p] : Replicate(p, q, f)

Spec == Init /\ [][Next]_vars

-----------------------------------------------------------------------------
\* The snapshots on some disk, and whether n views of a producer's day are among them.
OnDisk == outbox \cup UNION {files[p] : p \in Primary}
Safe(b, d, n) == n > 0 => \E f \in OnDisk : f.boot = b /\ f.day = d /\ f.total >= n

\* The views of a day, as units.
ServedUnits(d) == UNION {{b} \X (1..served[<<b, d>>]) : b \in 1..MaxBoot}

\* "Retries, lost ACKs and competing leaders cannot double count."
NotInflated ==
    \A p \in Primary, d \in 0..MaxDay :
        PageViews(p, d) <= Cardinality(ServedUnits(d))

\* A day that Record may evict has all its views in the outbox or an archive.
CleanCaptured ==
    \A d \in DOMAIN days :
        d >= Cutoff /\ Clean(d) /\ (\A v \in Viewer : viewers[v] # [step |-> "counted", day |-> d])
        => Safe(boot, d, days[d].views)

\* What a capture relied on stays on a disk until its day expires.
CapturedKept == \A b \in 1..MaxBoot, d \in 0..MaxDay : d >= Cutoff => Safe(b, d, kept[<<b, d>>])

\* Every view is counted at most once, and none that was captured is lost, whatever
\* the order in which counters, captures, submissions and replication happen.
ViewsCountedOnce == NotInflated /\ CleanCaptured /\ CapturedKept
=============================================================================
