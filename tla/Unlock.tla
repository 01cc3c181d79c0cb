------------------------------- MODULE Unlock -------------------------------
(***************************************************************************)
(* Private projects: PrivacyService.Change and UnlockService.Unlock with   *)
(* the RaftRepository transactions they rest on, the password store and    *)
(* the hasher (internal/project, internal/password), for one project.      *)
(*                                                                         *)
(* Both services read the project in one transaction, hash a password      *)
(* (slow, outside any transaction, with a bounded number of workers) and   *)
(* commit in another transaction, so the owner's tabs and the visitors     *)
(* interleave between the two.  A request is a record of the step it is    *)
(* at and what it read of the project.                                     *)
(*                                                                         *)
(* A request is handled by one primary, which stores and loads password    *)
(* records under its own data root.  Syncthing copies them to the others   *)
(* some time later, and a primary may lose its disk before that.           *)
(***************************************************************************)
EXTENDS Naturals, FiniteSets, FiniteSetsExt

CONSTANTS
    Tab,          \* requests of the owner
    Visitor,      \* visitors' browser sessions
    Secret,       \* passwords
    Limits,       \* Limits.global, .session, .project: attempts a minute
    Replica,      \* primaries
    Workers,      \* Hasher slots of a primary
    Minute,       \* clock ticks of a minute
    Hour,         \* lifetime of a grant in ticks
    Ends,         \* when the project expires (None: an account's project)
    MaxPolicy,    \* bound: policy revisions
    MaxClock,     \* bound: clock
    None

UnlockAssumption ==
    /\ Limits \in [global : Nat, session : Nat, project : Nat]
    /\ Workers \in Nat \ {0} /\ Minute \in Nat \ {0} /\ Hour \in Nat \ {0}
    /\ MaxPolicy \in Nat /\ MaxClock \in Nat /\ Ends \in Nat \cup {None}
    /\ Tab \cap Visitor = {}

\* A password record is content addressed: its digest is the record.  The primary
\* that made it stands for the salt: records of two primaries differ.
Password == [rev : Nat, secret : Secret, at : Replica]
Budget   == {"global", "project"} \cup Visitor

VARIABLES
    clock,
    project,   \* [live, rev, policy, password]
    files,     \* files[p]: password records stored under the data root of p
    lost,      \* primaries whose disk is gone, which serve no more
    changes,   \* the owner's privacy changes in progress
    unlocks,   \* the visitors' attempts in progress
    active,    \* visitors' sessions that are not revoked
    budgets,   \* unlock_budgets/<key>: [count, expires]
    grants,    \* grants/<digest>; field secret is a ghost
    attempts   \* ghost: attempts[b][m] charged to budget b in minute m

vars == <<clock, project, files, lost, changes, unlocks, active, budgets, grants, attempts>>

NoBudget == [count |-> 0, expires |-> 0]

Init ==
    /\ clock = 0
    /\ \E pw \in {None} \cup [rev : {1}, secret : Secret, at : Replica] :   \* published public or private
        /\ project = [live |-> TRUE, rev |-> 1, policy |-> 1, password |-> pw]
        /\ files = [p \in Replica |-> IF pw # None /\ pw.at = p THEN {pw} ELSE {}]
    /\ lost = {}
    /\ changes = [t \in Tab |-> None]
    /\ unlocks = [v \in Visitor |-> None]
    /\ active = Visitor
    /\ budgets = [b \in Budget |-> NoBudget]
    /\ grants = {}
    /\ attempts = [b \in Budget |-> [m \in 0..(MaxClock \div Minute) |-> 0]]

\* Project.Live
Live == project.live /\ (Ends # None => clock < Ends)

\* Hasher.acquire: a slot of the primary is held while a request hashes.
Hashing(p) ==
    {t \in Tab : changes[t] # None /\ changes[t].step = "hash" /\ changes[t].at = p}
    \cup {v \in Visitor : unlocks[v] # None /\ unlocks[v].step = "hash" /\ unlocks[v].at = p}

WorkerFree(p) == Cardinality(Hashing(p)) < Workers

-----------------------------------------------------------------------------
(* PrivacyService.Change *)

\* Change reads the project with GetOwned; secret None makes it public and
\* needs no hashing.
ChangeBegin(t, secret, p) ==
    /\ changes[t] = None /\ p \notin lost
    /\ Live
    /\ changes' = [changes EXCEPT ![t] =
            [step |-> IF secret = None THEN "commit" ELSE "read", at |-> p,
             secret |-> secret, rev |-> project.rev, policy |-> project.policy, password |-> None]]
    /\ UNCHANGED <<clock, project, files, lost, unlocks, active, budgets, grants, attempts>>

ChangeHash(t) ==
    /\ changes[t] # None /\ changes[t].step = "read"
    /\ WorkerFree(changes[t].at)
    /\ changes' = [changes EXCEPT ![t].step = "hash"]
    /\ UNCHANGED <<clock, project, files, lost, unlocks, active, budgets, grants, attempts>>

\* Mutant of Stored: the file is not written.
NotStored(p, pw) == files

\* password.Store: linked under its digest and synced before it returns.
Stored(p, pw) == [files EXCEPT ![p] = @ \cup {pw}]

\* The hash for the policy revision after the one that was read.
Prepared(t) == [rev |-> changes[t].policy + 1, secret |-> changes[t].secret, at |-> changes[t].at]

ChangeStore(t) ==
    /\ changes[t] # None /\ changes[t].step = "hash" /\ changes[t].at \notin lost
    /\ files' = Stored(changes[t].at, Prepared(t))
    /\ changes' = [changes EXCEPT ![t].step = "commit", ![t].password = Prepared(t)]
    /\ UNCHANGED <<clock, project, lost, unlocks, active, budgets, grants, attempts>>

\* SetPrivacy: the leader may commit it although the primary that sent it is lost.
SetPrivacy(t) ==
    LET c == changes[t] IN
    /\ c # None /\ c.step = "commit"
    /\ Live /\ project.rev = c.rev
    /\ project.policy < MaxPolicy
    /\ c.password # None => c.password.rev = project.policy + 1
    /\ project' = [project EXCEPT !.password = c.password, !.rev = @ + 1, !.policy = @ + 1]
    /\ changes' = [changes EXCEPT ![t] = None]
    /\ UNCHANGED <<clock, files, lost, unlocks, active, budgets, grants, attempts>>

\* Refused at any step: a busy hasher, a conflict, a timeout.
ChangeFail(t) ==
    /\ changes[t] # None
    /\ changes' = [changes EXCEPT ![t] = None]
    /\ UNCHANGED <<clock, project, files, lost, unlocks, active, budgets, grants, attempts>>

\* The owner's other operations on a live project: renaming and the like change
\* the policy, a watermark or a finished upload only the revision.  An upload in
\* progress refuses a change of privacy, which is a ChangeFail here.
OtherChange(policy) ==
    /\ Live /\ project.policy < MaxPolicy /\ project.rev <= MaxPolicy
    /\ project' = [project EXCEPT !.rev = @ + 1, !.policy = IF policy THEN @ + 1 ELSE @]
    /\ UNCHANGED <<clock, files, lost, changes, unlocks, active, budgets, grants, attempts>>

\* Delete, or expireProject once the project is over.
End ==
    /\ project.live
    /\ project' = [project EXCEPT !.live = FALSE, !.rev = @ + 1, !.policy = @ + 1]
    /\ UNCHANGED <<clock, files, lost, changes, unlocks, active, budgets, grants, attempts>>

-----------------------------------------------------------------------------
(* UnlockService.Unlock *)

Limit(b) == IF b \in Visitor THEN Limits.session ELSE IF b = "global" THEN Limits.global ELSE Limits.project

\* The project can be unlocked: otherwise the attempt costs but is denied.
Eligible == Live /\ project.password # None

\* Budgets an attempt by v charges.
Charges(v) == {"global", v} \cup (IF Eligible THEN {"project"} ELSE {})

\* What b has used of its current window.
Count(b) == IF clock >= budgets[b].expires THEN 0 ELSE budgets[b].count

\* Windows are whole minutes; a window in the record never ends earlier.
WindowEnd(b) == Max({(clock \div Minute + 1) * Minute, budgets[b].expires})

\* BeginUnlock: one transaction charges every budget or none.
BeginUnlock(v, secret, p) ==
    /\ unlocks[v] = None /\ v \in active /\ p \notin lost
    /\ \A b \in Charges(v) : Count(b) < Limit(b)
    /\ budgets' = [b \in Budget |->
            IF b \in Charges(v) THEN [count |-> Count(b) + 1, expires |-> WindowEnd(b)] ELSE budgets[b]]
    /\ attempts' = [b \in Budget |->
            IF b \in Charges(v) THEN [attempts[b] EXCEPT ![clock \div Minute] = @ + 1] ELSE attempts[b]]
    /\ unlocks' = [unlocks EXCEPT ![v] =
            IF Eligible
            THEN [step |-> "read", at |-> p, secret |-> secret,
                  policy |-> project.policy, password |-> project.password]
            ELSE None]
    /\ UNCHANGED <<clock, project, files, lost, changes, active, grants>>

\* password.Load of the record the project named, then Hasher.Verify.  A record
\* that did not reach this primary denies access (UnlockFail).
VerifyHash(v) ==
    /\ unlocks[v] # None /\ unlocks[v].step = "read"
    /\ unlocks[v].at \notin lost /\ unlocks[v].password \in files[unlocks[v].at]
    /\ WorkerFree(unlocks[v].at)
    /\ unlocks' = [unlocks EXCEPT ![v].step = "hash"]
    /\ UNCHANGED <<clock, project, files, lost, changes, active, budgets, grants, attempts>>

Verified(v) ==
    /\ unlocks[v] # None /\ unlocks[v].step = "hash"
    /\ unlocks' = [unlocks EXCEPT ![v] =
            IF unlocks[v].secret = unlocks[v].password.secret
            THEN [unlocks[v] EXCEPT !.step = "commit"] ELSE None]
    /\ UNCHANGED <<clock, project, files, lost, changes, active, budgets, grants, attempts>>

\* Mutant of StillCurrent: the project may have changed meanwhile.
StillPrivate(u) == Live /\ project.password # None

\* The recheck of CompleteUnlock: a change during hashing wins.
StillCurrent(u) ==
    /\ Live /\ project.password # None
    /\ project.policy = u.policy /\ project.password = u.password

CompleteUnlock(v) ==
    LET u == unlocks[v] IN
    /\ u # None /\ u.step = "commit"
    /\ v \in active /\ StillCurrent(u)
    /\ grants' = grants \cup
         {[session |-> v, policy |-> project.policy, secret |-> u.secret,
           expires |-> IF Ends # None /\ Ends < clock + Hour THEN Ends ELSE clock + Hour]}
    /\ unlocks' = [unlocks EXCEPT ![v] = None]
    /\ UNCHANGED <<clock, project, files, lost, changes, active, budgets, attempts>>

UnlockFail(v) ==
    /\ unlocks[v] # None
    /\ unlocks' = [unlocks EXCEPT ![v] = None]
    /\ UNCHANGED <<clock, project, files, lost, changes, active, budgets, grants, attempts>>

\* ValidateGrant: the grant opens the project to its session.
Usable(g) ==
    /\ g.session \in active /\ clock < g.expires
    /\ Live /\ project.password # None /\ project.policy = g.policy

-----------------------------------------------------------------------------
(* The disks of the primaries *)

\* Syncthing copies a record from p to q.
Sync(p, q, pw) ==
    /\ pw \in files[p] \ files[q] /\ q \notin lost
    /\ files' = [files EXCEPT ![q] = @ \cup {pw}]
    /\ UNCHANGED <<clock, project, lost, changes, unlocks, active, budgets, grants, attempts>>

\* p is gone with its disk.
LoseDisk(p) ==
    /\ p \notin lost
    /\ files' = [files EXCEPT ![p] = {}]
    /\ lost' = lost \cup {p}
    /\ UNCHANGED <<clock, project, changes, unlocks, active, budgets, grants, attempts>>

-----------------------------------------------------------------------------
\* The visitor's session is rotated or revoked.
Revoke(v) ==
    /\ v \in active
    /\ active' = active \ {v}
    /\ UNCHANGED <<clock, project, files, lost, changes, unlocks, budgets, grants, attempts>>

\* Mutant of BudgetOver: budgets are deleted a minute early.
BudgetOverEarly(b) == budgets[b] # NoBudget

BudgetOver(b) == budgets[b] # NoBudget /\ clock >= budgets[b].expires

\* Maintain deletes grants and budgets that are over.
ReapGrant(g) ==
    /\ clock >= g.expires
    /\ grants' = grants \ {g}
    /\ UNCHANGED <<clock, project, files, lost, changes, unlocks, active, budgets, attempts>>

ReapBudget(b) ==
    /\ BudgetOver(b)
    /\ budgets' = [budgets EXCEPT ![b] = NoBudget]
    /\ UNCHANGED <<clock, project, files, lost, changes, unlocks, active, grants, attempts>>

Tick ==
    /\ clock < MaxClock
    /\ clock' = clock + 1
    /\ UNCHANGED <<project, files, lost, changes, unlocks, active, budgets, grants, attempts>>

Next ==
    \/ \E t \in Tab, s \in Secret \cup {None}, p \in Replica : ChangeBegin(t, s, p)
    \/ \E t \in Tab : ChangeHash(t) \/ ChangeStore(t) \/ SetPrivacy(t) \/ ChangeFail(t)
    \/ \E policy \in BOOLEAN : OtherChange(policy)
    \/ End
    \/ \E v \in Visitor, s \in Secret, p \in Replica : BeginUnlock(v, s, p)
    \/ \E v \in Visitor :
        VerifyHash(v) \/ Verified(v) \/ CompleteUnlock(v) \/ UnlockFail(v) \/ Revoke(v)
    \/ \E p, q \in Replica : \E pw \in files[p] : Sync(p, q, pw)
    \/ \E p \in Replica : LoseDisk(p)
    \/ \E g \in grants : ReapGrant(g)
    \/ \E b \in Budget : ReapBudget(b)
    \/ Tick

Spec == Init /\ [][Next]_vars

-----------------------------------------------------------------------------
TypeOK ==
    /\ clock \in 0..MaxClock
    /\ project.live \in BOOLEAN
    /\ project.rev \in Nat /\ project.policy \in Nat
    /\ project.password \in Password \cup {None}
    /\ files \in [Replica -> SUBSET Password] /\ lost \subseteq Replica /\ active \subseteq Visitor
    /\ \A p \in Replica : Cardinality(Hashing(p)) <= Workers
    /\ \A b \in Budget : budgets[b].count \in 0..Limit(b) /\ budgets[b].expires \in Nat
    /\ \A g \in grants : g.session \in Visitor /\ g.policy \in 1..project.policy

\* A grant that opens the project was given for the password the project has
\* now: changing the password, going public and back, renaming or deleting shuts
\* out everyone who unlocked before, also those whose hash was being checked
\* while the change committed (CompleteUnlock: "a policy change ... wins").
GrantBacked == \A g \in grants : Usable(g) => g.secret = project.password.secret

\* The password record a project names is on a disk, whichever of the owner's
\* concurrent changes won and whatever Syncthing has copied since, unless the
\* primary that made it lost its own: SetPrivacy selects a record only after Store
\* returned there, so a change that fails or loses never locks everybody out.
PasswordDurable ==
    project.password # None =>
        project.password.at \in lost \/ \E p \in Replica : project.password \in files[p]

\* "Budgets are fixed one-minute windows; TTL is cleanup only, never part of
\* enforcement" (BeginUnlock): no minute admits more attempts than the limits,
\* in all, per session and per project, whenever maintenance runs.
BudgetKept == \A b \in Budget : \A m \in DOMAIN attempts[b] : attempts[b][m] <= Limit(b)

\* A window that is over costs nothing: whoever has made no attempt in this
\* minute is never refused by its own session's budget.
FreshMinute ==
    \A v \in Visitor : attempts[v][clock \div Minute] = 0 => Count(v) < Limit(v) \/ Limit(v) = 0

\* The budgets stop what they should (BudgetKept) and nothing else (FreshMinute).
BudgetsExact == BudgetKept /\ FreshMinute
=============================================================================
