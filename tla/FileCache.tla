----------------------------- MODULE FileCache -----------------------------
(***************************************************************************)
(* The primary's local copies of remote files: shared downloads            *)
(* (internal/storagepool/fetch.go), the cache they are put into            *)
(* (file_cache.go) and the readers that serve from both (cache.go).        *)
(*                                                                         *)
(* Every section under a mutex is one step.  A file is one unit long; what *)
(* a download answers (manifest, status, hash) is a choice.  Unlinking a   *)
(* file may fail for a while, and a cached file may be damaged behind the  *)
(* cache's back.                                                           *)
(***************************************************************************)
EXTENDS Naturals, Sequences, FiniteSets, SequencesExt

CONSTANTS
    Reader,       \* requests
    Asset,        \* files of versions: cacheKey
    Limit,        \* units the cache may hold
    MaxEntries,   \* entries the cache may hold
    SpoolLimit,   \* units downloads may hold outside the cache (FetchBytes)
    Downloads,    \* concurrent downloads
    Admissions,   \* requests admitted to fetchFile
    MaxFile,      \* bound: files created
    MaxFault,     \* bound: unlink failures and damages
    None

File == 1..MaxFile

(* fileFlight, and what it holds until it is released: a pin or a spool. *)
Flight == [refs : Nat, pc : {"admit", "fetch", "verify", "close", "done"},
           file : {0} \cup File, owner : {None, "cache", "spool"}, err : BOOLEAN]

CopiesAssumption ==
    /\ IsFiniteSet(Reader) /\ IsFiniteSet(Asset)
    /\ {Limit, MaxEntries, SpoolLimit, Downloads, Admissions, MaxFile, MaxFault} \subseteq Nat
    /\ None \notin Flight \cup {"cache", "spool"}

VARIABLES
    entries,      \* the cache: entries[k], the file of a key, or 0
    retired,      \* files that left the entries and are still charged
    idle,         \* unpinned entries, newest first
    allocated,    \* units charged
    disk,         \* names on disk
    pins,         \* pins of a file's cache entry
    handed,       \* files whose name Nginx may still open (handoffUntil)
    flight,       \* flight[k]: the shared download of a key, or None
    releasing,    \* pins of a file that finished flights have still to release
    cleaning,     \* spools that finished flights have still to unlink
    spool,        \* spoolBytes
    orphans,      \* spools whose unlink failed
    reader,       \* the requests
    shut,         \* "open", "fetch" (no new flights) or "cache" (closed)
    stuck, bad,   \* files that cannot be unlinked; files that were damaged
    created, faults

cacheVars == <<entries, retired, idle, allocated>>
fetchVars == <<flight, releasing, cleaning, spool, orphans>>
envVars == <<stuck, bad, created, faults>>
vars == <<cacheVars, disk, pins, handed, fetchVars, reader, shut, envVars>>

Away == [pc |-> "away", key |-> None, file |-> 0, via |-> None]

Init ==
    /\ entries = [k \in Asset |-> 0] /\ retired = {} /\ idle = <<>> /\ allocated = 0
    /\ disk = {} /\ pins = [f \in File |-> 0] /\ handed = {}
    /\ flight = [k \in Asset |-> None] /\ releasing = [f \in File |-> 0] /\ cleaning = {}
    /\ spool = 0 /\ orphans = {}
    /\ reader = [r \in Reader |-> Away]
    /\ shut = "open" /\ stuck = {} /\ bad = {} /\ created = 0 /\ faults = 0

-----------------------------------------------------------------------------
(* file_cache.go *)

RemovableName(f) == pins[f] = 0 /\ f \notin stuck

(* remove: neither pinned nor handed to Nginx, and unlinked. *)
Removable(f) == pins[f] = 0 /\ f \notin handed /\ f \notin stuck

Entries == {entries[k] : k \in Asset} \ {0}
Charged == Entries \cup retired

Unlinked(S) == {f \in S : Removable(f)}

Without(S) == [k \in Asset |-> IF entries[k] \in S THEN 0 ELSE entries[k]]

(* remove on a file that can be unlinked. *)
Removed(f) ==
    /\ entries' = Without({f})
    /\ retired' = retired \ {f}
    /\ idle' = RemoveFirst(idle, f)
    /\ allocated' = allocated - 1
    /\ disk' = disk \ {f}

(* put sweeps the retired files and takes idle entries, oldest first.  The   *)
(* n oldest, and what is unlinked by then: the rest is retired and stays     *)
(* charged.                                                                  *)
Taken(n) == {idle[i] : i \in (Len(idle) - n + 1)..Len(idle)}
Freed(n) == Unlinked(retired \cup Taken(n))

(* After n turns of the loop, is there still no room? *)
Full(n) ==
    \/ allocated - Cardinality(Freed(n)) + 1 > Limit
    \/ Cardinality(Charged \ Freed(n)) >= MaxEntries

(* The loop ends: room, or nothing idle is left. *)
Turns(n) ==
    /\ \A m \in 0..(n - 1) : Full(m)
    /\ n = Len(idle) \/ ~Full(n)

(* get finds the file unchanged. *)
Intact(k) == entries[k] # 0 /\ shut # "cache" /\ entries[k] \in disk \ bad

Pinned(k) ==
    /\ idle' = RemoveFirst(idle, entries[k])
    /\ pins' = [pins EXCEPT ![entries[k]] = @ + 1]
    /\ UNCHANGED <<entries, retired, allocated, disk>>

(* get on an entry that cannot be used: it is removed if it can be. *)
Missed(k) ==
    /\ IF entries[k] # 0 /\ shut # "cache" /\ Removable(entries[k])
       THEN Removed(entries[k])
       ELSE UNCHANGED <<cacheVars, disk>>
    /\ UNCHANGED pins

(* release: the last pin puts the entry back in the idle list, or takes it   *)
(* away when the cache is closed.                                            *)
Unpinned(f) ==
    /\ pins' = [pins EXCEPT ![f] = @ - 1]
    /\ IF pins[f] = 1 /\ shut = "cache" /\ f \notin handed \cup stuck
       THEN Removed(f)
       ELSE /\ idle' = IF pins[f] = 1 /\ shut # "cache" /\ f \in Entries
                       THEN <<f>> \o idle ELSE idle
            /\ UNCHANGED <<entries, retired, allocated, disk>>

-----------------------------------------------------------------------------
(* Requests: serve, fetchFile and deliverFile *)

Serve(r, k) ==
    /\ reader[r] = Away
    /\ IF Intact(k)
       THEN /\ Pinned(k)
            /\ reader' = [reader EXCEPT ![r] =
                  [pc |-> "reading", key |-> k, file |-> entries[k], via |-> "hit"]]
       ELSE /\ Missed(k)
            /\ reader' = [reader EXCEPT ![r] =
                  [pc |-> "missed", key |-> k, file |-> 0, via |-> "flight"]]
    /\ UNCHANGED <<handed, shut, fetchVars, envVars>>

Admitted == {r \in Reader : reader[r].pc = "waiting" \/ (reader[r].pc = "reading" /\ reader[r].via = "flight")}

Start == [refs |-> 1, pc |-> "admit", file |-> 0, owner |-> None, err |-> FALSE]
Joined(fl) == IF fl = None THEN Start ELSE [fl EXCEPT !.refs = @ + 1]

Join(r) ==
    LET k == reader[r].key IN
    /\ reader[r].pc = "missed"
    /\ IF shut # "open" \/ Cardinality(Admitted) >= Admissions
       THEN /\ reader' = [reader EXCEPT ![r] = Away]
            /\ UNCHANGED flight
       ELSE /\ reader' = [reader EXCEPT ![r].pc = "waiting"]
            /\ flight' = [flight EXCEPT ![k] = Joined(@)]
    /\ UNCHANGED <<cacheVars, disk, pins, handed, releasing, cleaning, spool, orphans, shut, envVars>>

(* What a flight that is taken down leaves to be cleaned up. *)
Left(fl) ==
    /\ releasing' = IF fl.owner = "cache" THEN [releasing EXCEPT ![fl.file] = @ + 1] ELSE releasing
    /\ cleaning' = IF fl.owner = "spool" THEN cleaning \cup {fl.file} ELSE cleaning

(* The last reference to a finished flight takes it down. *)
Dropped(k) ==
    IF flight[k].refs = 1 /\ flight[k].pc = "done"
    THEN flight' = [flight EXCEPT ![k] = None] /\ Left(flight[k])
    ELSE flight' = [flight EXCEPT ![k].refs = @ - 1] /\ UNCHANGED <<releasing, cleaning>>

(* The client leaves, or the pool shuts down, while the request waits. *)
Cancel(r) ==
    /\ reader[r].pc = "waiting"
    /\ Dropped(reader[r].key)
    /\ reader' = [reader EXCEPT ![r] = Away]
    /\ UNCHANGED <<cacheVars, disk, pins, handed, spool, orphans, shut, envVars>>

(* The flight is done: its file is opened by name. *)
Open(r) ==
    LET k == reader[r].key IN
    /\ reader[r].pc = "waiting" /\ flight[k].pc = "done"
    /\ IF flight[k].err \/ flight[k].file \notin disk
       THEN /\ Dropped(k)
            /\ reader' = [reader EXCEPT ![r] = Away]
       ELSE /\ reader' = [reader EXCEPT ![r].pc = "reading", ![r].file = flight[k].file]
            /\ UNCHANGED <<flight, releasing, cleaning>>
    /\ UNCHANGED <<cacheVars, disk, pins, handed, spool, orphans, shut, envVars>>

(* handoff: Nginx gets the name if the entry is still this file. *)
Handoff(r) ==
    LET f == reader[r].file IN
    /\ reader[r].pc = "reading" /\ shut # "cache"
    /\ entries[reader[r].key] = f
    /\ handed' = handed \cup {f}
    /\ UNCHANGED <<cacheVars, disk, pins, reader, shut, fetchVars, envVars>>

FinishRead(r) ==
    /\ reader[r].pc = "reading"
    /\ IF reader[r].via = "hit"
       THEN Unpinned(reader[r].file) /\ UNCHANGED <<flight, releasing, cleaning>>
       ELSE Dropped(reader[r].key) /\ UNCHANGED <<cacheVars, disk, pins>>
    /\ reader' = [reader EXCEPT ![r] = Away]
    /\ UNCHANGED <<handed, spool, orphans, shut, envVars>>

-----------------------------------------------------------------------------
(* The worker of a flight *)

Working == {k \in Asset : flight[k] # None /\ flight[k].pc \in {"fetch", "verify"}}

(* acquireFetch, then a second look into the cache. *)
Admit(k) ==
    /\ flight[k] # None /\ flight[k].pc = "admit"
    /\ Cardinality(Working) < Downloads
    /\ IF Intact(k)
       THEN /\ Pinned(k)
            /\ flight' = [flight EXCEPT ![k].pc = "close", ![k].file = entries[k], ![k].owner = "cache"]
       ELSE /\ Missed(k)
            /\ flight' = [flight EXCEPT ![k].pc = "fetch"]
    /\ UNCHANGED <<handed, releasing, cleaning, spool, orphans, reader, shut, envVars>>

(* No slot in time, no manifest, the name is not in it, no storage instance  *)
(* left to ask, or shutdown.                                                 *)
GiveUp(k) ==
    /\ flight[k] # None /\ flight[k].pc \in {"admit", "fetch"}
    /\ flight' = [flight EXCEPT ![k].pc = "close", ![k].err = TRUE]
    /\ UNCHANGED <<cacheVars, disk, pins, handed, releasing, cleaning, spool, orphans, reader, shut, envVars>>

(* sweepSpools frees the reservations of the orphans it can unlink now;      *)
(* download reserves, creates the file and fills it.                         *)
Download(k) ==
    LET swept == orphans \ stuck
        f == created + 1
    IN  /\ flight[k] # None /\ flight[k].pc = "fetch"
        /\ f <= MaxFile
        /\ orphans' = orphans \ swept
        /\ spool - Cardinality(swept) < SpoolLimit
        /\ spool' = spool - Cardinality(swept) + 1
        /\ disk' = (disk \ swept) \cup {f}
        /\ created' = f
        /\ flight' = [flight EXCEPT ![k].pc = "verify", ![k].file = f]
        /\ UNCHANGED <<cacheVars, pins, handed, releasing, cleaning, reader, shut, stuck, bad, faults>>

(* The bytes do not arrive or do not match: the spool is unlinked and its    *)
(* reservation freed, or it becomes an orphan.                               *)
Reject(k) ==
    LET f == flight[k].file IN
    /\ flight[k] # None /\ flight[k].pc = "verify"
    /\ IF f \in stuck
       THEN orphans' = orphans \cup {f} /\ UNCHANGED <<disk, spool>>
       ELSE disk' = disk \ {f} /\ spool' = spool - 1 /\ UNCHANGED orphans
    /\ flight' = [flight EXCEPT ![k].pc = "fetch", ![k].file = 0]
    /\ UNCHANGED <<cacheVars, pins, handed, releasing, cleaning, reader, shut, envVars>>

(* put: into the cache, or the flight keeps the spool with its reservation.  *)
Put(k) ==
    LET f == flight[k].file
        Closing(owner) == flight' = [flight EXCEPT ![k].pc = "close", ![k].owner = owner]
    IN  /\ flight[k] # None /\ flight[k].pc = "verify"
        /\ IF shut = "cache" \/ entries[k] # 0 \/ Limit = 0
           THEN Closing("spool") /\ UNCHANGED <<cacheVars, disk, pins, spool>>
           ELSE \E n \in 0..Len(idle) :
                /\ Turns(n)
                /\ disk' = disk \ Freed(n)
                /\ retired' = (retired \cup Taken(n)) \ Freed(n)
                /\ idle' = SubSeq(idle, 1, Len(idle) - n)
                /\ IF Full(n)
                   THEN /\ Closing("spool")
                        /\ entries' = Without(Taken(n))
                        /\ allocated' = allocated - Cardinality(Freed(n))
                        /\ UNCHANGED <<pins, spool>>
                   ELSE /\ Closing("cache")
                        /\ entries' = [Without(Taken(n)) EXCEPT ![k] = f]
                        /\ allocated' = allocated - Cardinality(Freed(n)) + 1
                        /\ pins' = [pins EXCEPT ![f] = 1]
                        /\ spool' = spool - 1
        /\ UNCHANGED <<handed, releasing, cleaning, orphans, reader, shut, envVars>>

(* done is closed; nobody may be waiting any more. *)
CloseFlight(k) ==
    /\ flight[k] # None /\ flight[k].pc = "close"
    /\ IF flight[k].refs = 0
       THEN flight' = [flight EXCEPT ![k] = None] /\ Left(flight[k])
       ELSE flight' = [flight EXCEPT ![k].pc = "done"] /\ UNCHANGED <<releasing, cleaning>>
    /\ UNCHANGED <<cacheVars, disk, pins, handed, spool, orphans, reader, shut, envVars>>

(* The cleanup of a flight, outside the lock: of a cached file and of a spool. *)
Release(f) ==
    /\ releasing[f] > 0
    /\ releasing' = [releasing EXCEPT ![f] = @ - 1]
    /\ Unpinned(f)
    /\ UNCHANGED <<handed, flight, cleaning, spool, orphans, reader, shut, envVars>>

Cleanup(f) ==
    /\ f \in cleaning
    /\ cleaning' = cleaning \ {f}
    /\ IF f \in stuck
       THEN orphans' = orphans \cup {f} /\ UNCHANGED <<disk, spool>>
       ELSE disk' = disk \ {f} /\ spool' = spool - 1 /\ UNCHANGED orphans
    /\ UNCHANGED <<cacheVars, pins, handed, flight, releasing, reader, shut, envVars>>

-----------------------------------------------------------------------------
(* Shutdown: Close *)

CloseFetch ==
    /\ shut = "open"
    /\ shut' = "fetch"
    /\ UNCHANGED <<cacheVars, disk, pins, handed, reader, fetchVars, envVars>>

CloseCache ==
    LET swept == orphans \ stuck IN
    /\ shut = "fetch"
    /\ \A k \in Asset : flight[k] # None => flight[k].pc = "done"
    /\ shut' = "cache"
    /\ orphans' = orphans \ swept
    /\ spool' = spool - Cardinality(swept)
    /\ entries' = Without(Unlinked(Charged))
    /\ retired' = retired \ Unlinked(retired)
    /\ idle' = SelectSeq(idle, LAMBDA f : ~Removable(f))
    /\ allocated' = allocated - Cardinality(Unlinked(Charged))
    /\ disk' = disk \ (swept \cup Unlinked(Charged))
    /\ UNCHANGED <<pins, handed, flight, releasing, cleaning, reader, envVars>>

(* Surroundings *)

(* Sixty seconds after the last response header. *)
GraceEnds(f) ==
    /\ f \in handed
    /\ handed' = handed \ {f}
    /\ UNCHANGED <<cacheVars, disk, pins, reader, shut, fetchVars, envVars>>

Trouble(f) ==
    /\ faults < MaxFault /\ faults' = faults + 1
    /\ f \in disk
    /\ \/ f \notin stuck /\ stuck' = stuck \cup {f} /\ UNCHANGED bad
       \/ f \in Entries \ bad /\ bad' = bad \cup {f} /\ UNCHANGED stuck
    /\ UNCHANGED <<cacheVars, disk, pins, handed, reader, shut, created, fetchVars>>

Repaired(f) ==
    /\ f \in stuck
    /\ stuck' = stuck \ {f}
    /\ UNCHANGED <<cacheVars, disk, pins, handed, reader, shut, fetchVars, bad, created, faults>>

Next ==
    \/ \E r \in Reader : \/ \E k \in Asset : Serve(r, k)
                         \/ Join(r) \/ Cancel(r) \/ Open(r) \/ Handoff(r) \/ FinishRead(r)
    \/ \E k \in Asset : \/ Admit(k) \/ GiveUp(k) \/ Download(k) \/ Reject(k) \/ Put(k)
                      \/ CloseFlight(k)
    \/ CloseFetch \/ CloseCache
    \/ \E f \in File : Release(f) \/ Cleanup(f) \/ GraceEnds(f) \/ Trouble(f) \/ Repaired(f)

Spec == Init /\ [][Next]_vars

-----------------------------------------------------------------------------
(* The downloads that hold a reservation. *)
Spooling(k) == flight[k] # None /\ (flight[k].pc = "verify" \/ flight[k].owner = "spool")
Reserved == {flight[k].file : k \in {l \in Asset : Spooling(l)}} \cup cleaning \cup orphans

(* Names that somebody will still open exist: the file of a finished flight  *)
(* as long as a request holds on to it, and a file handed to Nginx until its *)
(* grace is over, through evictions, failed unlinks, shutdown and damage.    *)
NamesOpenable ==
    /\ \A k \in Asset : flight[k] # None /\ flight[k].pc = "done" /\ ~flight[k].err => flight[k].file \in disk
    /\ handed \subseteq disk

(* Every file on disk is charged to exactly one budget, the counters say     *)
(* what the files are, and neither budget is ever exceeded; an entry is idle *)
(* exactly when it can be looked at for eviction.                            *)
DiskCharged ==
    /\ disk = Charged \cup Reserved /\ Charged \cap Reserved = {}
    /\ allocated = Cardinality(Charged) /\ allocated <= Limit
    /\ Cardinality(Charged) <= MaxEntries
    /\ spool = Cardinality(Reserved) /\ spool <= SpoolLimit
    /\ shut # "cache" => Range(idle) = {f \in Entries : pins[f] = 0}

CacheExact == NamesOpenable /\ DiskCharged
=============================================================================
