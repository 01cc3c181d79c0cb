------------------------------ MODULE Sessions ------------------------------
(***************************************************************************)
(* Browser sessions: internal/session (Service over RaftStore), the session *)
(* endpoints of internal/httpserver and the session part of maintenance.   *)
(*                                                                         *)
(* A token is drawn at random, so a fresh one is the next position of the  *)
(* sequence sessions; the digest, the CSRF token and a fresh anonymous     *)
(* owner are as fresh as the token and are named by the same position.     *)
(* Login and Logout load the session, talk to the identity provider, read  *)
(* the clock and only then run the transaction that rotates the token, so  *)
(* each is a request with three steps.                                     *)
(***************************************************************************)
EXTENDS Naturals, Sequences, FiniteSets

CONSTANTS
    Request,      \* requests in flight at one time
    Uid,          \* Google accounts
    Minute,       \* clock ticks of a minute
    Lifetime,     \* AnonymousLifetime, in ticks
    AuthLifetime, \* AccountLifetime, in ticks
    Creations,    \* CreationsPerMinute
    Rotations,    \* rotations a session may make in a minute (20)
    Late,         \* ticks a request may take (the handlers' timeout)
    MaxSessions,  \* bound: tokens ever issued
    MaxClock,     \* bound: clock
    None

ASSUME SessionsAssumption ==
    /\ Minute \in Nat \ {0} /\ Lifetime \in Nat \ {0} /\ AuthLifetime \in Nat
    /\ Creations \in Nat \ {0} /\ Rotations \in Nat \ {0} /\ Late \in 0..Minute
    /\ MaxSessions \in Nat /\ MaxClock \in Nat
    /\ None \notin Uid

Token == 1..MaxSessions

Record ==
    [anon : Token, uid : Uid \cup {None}, authUntil : Nat, expires : Nat,
     revoked : BOOLEAN, rotWindow : Nat, rotCount : Nat,
     root : Token, born : Nat]   \* ghost: first token of the lineage, commit time

VARIABLES
    clock,     \* the replicas' synchronised clock
    sessions,  \* sessions/<digest>: a record, or None once reaped
    bucket,    \* session_budgets/global: [window, count]
    requests,  \* logins and logouts in progress, or None
    rotations  \* ghost: [root, minute] of every rotation, in order

vars == <<clock, sessions, bucket, requests, rotations>>

Init ==
    /\ clock = 0
    /\ sessions = <<>>
    /\ bucket = [window |-> 0, count |-> 0]
    /\ requests = [r \in Request |-> None]
    /\ rotations = <<>>

Window(t) == t \div Minute

\* Mutant of Active: a revoked session still counts.
ActiveUntilExpiry(s, now) == s # None /\ now < s.expires

\* Record.Active
Active(s, now) == s # None /\ ~s.revoked /\ now < s.expires

Issued == Len(sessions)

Fresh(now) ==
    [anon |-> Issued + 1, uid |-> None, authUntil |-> 0, expires |-> now + Lifetime,
     revoked |-> FALSE, rotWindow |-> 0, rotCount |-> 0, root |-> Issued + 1, born |-> clock]

-----------------------------------------------------------------------------
(* Create *)

\* The creation bucket as a request that read the clock at now sees it: only a
\* later minute resets the count.
Advanced(now) ==
    IF Window(now) > bucket.window THEN [window |-> Window(now), count |-> 0] ELSE bucket

CreationAllowed(now) == Advanced(now).count < Creations

\* POST /api/session without a usable cookie: Service.Create reads the clock,
\* RaftStore.Create charges the global budget and stores the session up to Late
\* ticks after that.
Create(now) ==
    /\ Issued < MaxSessions
    /\ now <= clock /\ clock <= now + Late
    /\ CreationAllowed(now)
    /\ bucket' = [Advanced(now) EXCEPT !.count = @ + 1]
    /\ sessions' = Append(sessions, Fresh(now))
    /\ UNCHANGED <<clock, requests, rotations>>

-----------------------------------------------------------------------------
(* Login, Logout *)

\* Service.load and CheckCSRF: an active session, and what was read of it.
Load(r, t, kind) ==
    /\ requests[r] = None
    /\ Active(sessions[t], clock)
    /\ requests' = [requests EXCEPT ![r] =
            [kind |-> kind, token |-> t, old |-> sessions[t], uid |-> None, until |-> 0, now |-> None]]
    /\ UNCHANGED <<clock, sessions, bucket, rotations>>

\* Mutant of SameAccount: a signed-in browser may sign in as someone else.
AnyAccount(old, uid) == TRUE

\* Login refuses a different account until logout.
SameAccount(old, uid) == old.uid \in {None, uid}

\* VerifyGoogle returned identity uid, whose token expires at until; the clock
\* is read here and used by the transaction that follows.
Verified(r, uid, until) ==
    /\ requests[r] # None /\ requests[r].kind = "login" /\ requests[r].now = None
    /\ clock < until
    /\ SameAccount(requests[r].old, uid)
    /\ requests' = [requests EXCEPT ![r].uid = uid, ![r].until = until, ![r].now = clock]
    /\ UNCHANGED <<clock, sessions, bucket, rotations>>

\* Logout reads the clock right after load.
LogoutClock(r) ==
    /\ requests[r] # None /\ requests[r].kind = "logout" /\ requests[r].now = None
    /\ requests' = [requests EXCEPT ![r].now = clock]
    /\ UNCHANGED <<clock, sessions, bucket, rotations>>

\* The record that replaces the old session: a login keeps its anonymous owner
\* and signs it in until the account lifetime or the identity token ends, a
\* logout starts over.
Heir(q) ==
    IF q.kind = "logout" THEN [Fresh(q.now) EXCEPT !.root = q.old.root]
    ELSE [Fresh(q.now) EXCEPT
            !.anon = q.old.anon, !.uid = q.uid, !.root = q.old.root,
            !.authUntil = IF q.until < q.now + AuthLifetime THEN q.until ELSE q.now + AuthLifetime]

\* Mutant of Metered: the count starts again at every rotation.
MeteredAfresh(next, old, now) == [next EXCEPT !.rotWindow = Window(now), !.rotCount = 1]

\* The rotation budget travels with the lineage; its window never goes back.
Metered(next, old, now) ==
    IF Window(now) > old.rotWindow
    THEN [next EXCEPT !.rotWindow = Window(now), !.rotCount = 1]
    ELSE [next EXCEPT !.rotWindow = old.rotWindow, !.rotCount = 1 + old.rotCount]

\* RaftStore.Rotate: in one transaction the stored session is compared with the
\* one that was loaded, its heir is created and it is revoked.
Rotate(r) ==
    LET q    == requests[r]
        old  == sessions[q.token]
        next == Metered(Heir(q), old, q.now)
    IN  /\ q # None /\ q.now # None /\ Issued < MaxSessions
        /\ Active(old, q.now) /\ next.rotCount <= Rotations
        /\ sessions' = Append([sessions EXCEPT ![q.token].revoked = TRUE], next)
        /\ rotations' = Append(rotations, <<next.root, Window(q.now)>>)
        /\ requests' = [requests EXCEPT ![r] = None]
        /\ UNCHANGED <<clock, bucket>>

\* The request fails at any point before its transaction commits: refused by the
\* provider, by the transaction, or out of time.
Fail(r) ==
    /\ requests[r] # None
    /\ requests' = [requests EXCEPT ![r] = None]
    /\ UNCHANGED <<clock, sessions, bucket, rotations>>

-----------------------------------------------------------------------------

\* Maintain deletes sessions that are revoked or over.
Reap(t) ==
    /\ sessions[t] # None
    /\ ~Active(sessions[t], clock)
    /\ sessions' = [sessions EXCEPT ![t] = None]
    /\ UNCHANGED <<clock, bucket, requests, rotations>>

\* Time passes; a request that would be out of time has failed by then.
Tick ==
    /\ clock < MaxClock
    /\ \A r \in Request : requests[r] # None /\ requests[r].now # None => clock < requests[r].now + Late
    /\ clock' = clock + 1
    /\ UNCHANGED <<sessions, bucket, requests, rotations>>

Next ==
    \/ \E now \in 0..MaxClock : Create(now)
    \/ \E r \in Request, t \in 1..Issued, kind \in {"login", "logout"} : Load(r, t, kind)
    \/ \E r \in Request, uid \in Uid, until \in 1..MaxClock : Verified(r, uid, until)
    \/ \E r \in Request : LogoutClock(r) \/ Rotate(r) \/ Fail(r)
    \/ \E t \in 1..Issued : Reap(t)
    \/ Tick

Spec == Init /\ [][Next]_vars

-----------------------------------------------------------------------------
TypeOK ==
    /\ clock \in 0..MaxClock
    /\ sessions \in Seq(Record \cup {None}) /\ Issued <= MaxSessions
    /\ bucket \in [window : Nat, count : 0..Creations]
    /\ \A r \in Request :
        requests[r] = None \/
            /\ requests[r].token \in 1..Issued /\ requests[r].old \in Record
            /\ requests[r].now \in Nat \cup {None}

\* Concurrent rotations cannot both win (session.go, Store.Rotate): an anonymous
\* owner, which decides who manages unclaimed projects, is held by at most one
\* session that is not revoked at any time.
OwnerHeldOnce ==
    \A t, u \in 1..Issued :
        /\ sessions[t] # None /\ sessions[u] # None
        /\ ~sessions[t].revoked /\ ~sessions[u].revoked
        /\ sessions[t].anon = sessions[u].anon
        => t = u

\* "New anonymous ownership prevents the next account on a shared browser from
\* inheriting the previous account's unclaimed projects" (Logout): two accounts
\* never appear under one anonymous owner, whatever order requests finish in.
NoInheritance ==
    \A t, u \in 1..Issued :
        /\ sessions[t] # None /\ sessions[u] # None
        /\ sessions[t].anon = sessions[u].anon
        => \/ None \in {sessions[t].uid, sessions[u].uid}
           \/ sessions[t].uid = sessions[u].uid

\* A lineage of tokens rotates at most Rotations times in a minute, although
\* the record that counts is replaced at every rotation and a request commits
\* after it read the clock.
RotationBudget ==
    \A i \in 1..Len(rotations) :
        Cardinality({j \in 1..Len(rotations) : rotations[j] = rotations[i]}) <= Rotations

Born(w) == {t \in 1..Issued : sessions[t] # None /\ sessions[t].root = t /\ Window(sessions[t].born) = w}

\* "A clock moving backward never resets it" (RaftStore.Create): requests that
\* read the clock in the minute before and commit late add at most one more
\* budget to a minute.
CreationBudget == \A w \in 0..Window(MaxClock) : Cardinality(Born(w)) <= 2 * Creations

\* Neither making sessions nor rotating one escapes its budget.
BudgetsHold == RotationBudget /\ CreationBudget
=============================================================================
