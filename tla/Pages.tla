-------------------------------- MODULE Pages --------------------------------
(***************************************************************************)
(* The lookups of a page beside the local copies of its files and the      *)
(* count of its views.  They share no state: a lookup ends before a file   *)
(* is fetched, and a view is counted for a page that was served, whenever  *)
(* that was.                                                               *)
(***************************************************************************)
EXTENDS Serving

CONSTANTS
    Viewer, Primary, Retention, MaxDay, MaxBoot, MaxTicks,            \* as in Analytics
    Reader, Asset, Limit, MaxEntries, SpoolLimit, Downloads,
    Admissions, MaxFile, MaxFault                                     \* as in FileCache

VARIABLES
    today, boot, days, viewers, flush, flushes, outbox, wire, files, removed,
    served, kept,
    entries, retired, idle, allocated, disk, pins, handed, flight, releasing,
    cleaning, spool, orphans, reader, shut, stuck, bad, created, faults

viewVars == <<today, boot, days, viewers, flush, flushes, outbox, wire, files, removed,
              served, kept>>
copyVars == <<entries, retired, idle, allocated, disk, pins, handed, flight, releasing,
              cleaning, spool, orphans, reader, shut, stuck, bad, created, faults>>

Views == INSTANCE Analytics
Copies == INSTANCE FileCache

ASSUME ViewsAssumed == Views!ViewsAssumption
ASSUME CopiesAssumed == Copies!CopiesAssumption

-----------------------------------------------------------------------------
(* A view is in the archive at most once, and those a process took to be     *)
(* captured are not lost.                                                    *)
ViewsCountedOnce == Views!ViewsCountedOnce

(* The names that a request or Nginx will still open exist, every file on    *)
(* disk is charged to one budget, and no budget is exceeded.                 *)
CacheExact == Copies!CacheExact
=============================================================================
