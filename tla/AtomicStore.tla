---------------------------- MODULE AtomicStore ----------------------------
(***************************************************************************)
(* What internal/metadata promises its callers: a transaction that returns *)
(* success read and wrote at one instant between its call and its return,  *)
(* a refused one did nothing, and one whose outcome is not known happened  *)
(* at most once, possibly after the caller gave up.                        *)
(*                                                                         *)
(* The promise has two limits.  The latest writes may be lost as long as   *)
(* they are only local and nothing replicated came after them.  And a      *)
(* write that the leader applied and answered with not_leader stands,      *)
(* while the transaction it belongs to may be carried out again.           *)
(***************************************************************************)
EXTENDS Naturals, Sequences

CONSTANTS
    Key, Client, None

VARIABLES
    stores, \* the store (versions by key, 0 when absent) as it is, preceded by what
            \* it was before each write that may still be lost
    call,   \* call[c]: idle, open, or how it returned: ok, refused, unknown
    local,  \* local[c]: may c's write be acknowledged before it is replicated?
    done,   \* done[c]: has the transaction taken effect?
    got,    \* got[c]: the records a successful transaction saw
    late    \* late[c]: was an applied write of c answered with not_leader?

vars == <<stores, call, local, done, got, late>>

store == stores[Len(stores)]

Init ==
    /\ \E s \in [Key -> {0}] : stores = <<s>>
    /\ call = [c \in Client |-> "idle"]
    /\ local = [c \in Client |-> FALSE]
    /\ done = [c \in Client |-> FALSE]
    /\ got = [c \in Client |-> None]
    /\ late = [c \in Client |-> FALSE]

Start(c) ==
    /\ call[c] = "idle"
    /\ call' = [call EXCEPT ![c] = "open"]
    /\ \E l \in BOOLEAN : local' = [local EXCEPT ![c] = l]
    /\ UNCHANGED <<stores, done, got, late>>

\* A reader sees the whole store at one instant, and returns.
Look(c) ==
    /\ call[c] = "open" /\ ~done[c]
    /\ done' = [done EXCEPT ![c] = TRUE]
    /\ got' = [got EXCEPT ![c] = store]
    /\ call' = [call EXCEPT ![c] = "ok"]
    /\ UNCHANGED <<stores, local, late>>

\* A writer sees the store and replaces one record; all that was written before
\* a replicated write is as safe as it is.
Change(c) ==
    /\ call[c] \in {"open", "unknown"} /\ ~done[c]
    /\ done' = [done EXCEPT ![c] = TRUE]
    /\ got' = [got EXCEPT ![c] = store]
    /\ store' \in [Key -> Nat]
    /\ \E k \in Key : store' = [store EXCEPT ![k] = store'[k]]
    /\ stores' = <<store'>> \/ (local[c] /\ stores' = Append(stores, store'))
    /\ \E l \in BOOLEAN : late' = [late EXCEPT ![c] = late[c] \/ l]
    /\ UNCHANGED <<call, local>>

\* The write stands, but its caller goes on as if it did not.
Forget(c) ==
    /\ call[c] = "open" /\ done[c] /\ late[c]
    /\ done' = [done EXCEPT ![c] = FALSE]
    /\ got' = [got EXCEPT ![c] = None]
    /\ UNCHANGED <<stores, call, local, late>>

Return(c) ==
    /\ call[c] = "open"
    /\ \/ done[c] /\ call' = [call EXCEPT ![c] = "ok"]
       \/ ~done[c] /\ call' = [call EXCEPT ![c] = "refused"]
       \/ call' = [call EXCEPT ![c] = "unknown"]
    /\ UNCHANGED <<stores, local, done, got, late>>

\* The oldest local write is replicated.
Confirm ==
    /\ Len(stores) > 1
    /\ stores' = Tail(stores)
    /\ UNCHANGED <<call, local, done, got, late>>

\* Local writes are lost, the latest first.
Lose ==
    /\ \E i \in DOMAIN stores : stores' = <<stores[i]>>
    /\ UNCHANGED <<call, local, done, got, late>>

Next ==
    \/ \E c \in Client : Start(c) \/ Look(c) \/ Change(c) \/ Forget(c) \/ Return(c)
    \/ Confirm \/ Lose

Spec == Init /\ [][Next]_vars
=============================================================================
