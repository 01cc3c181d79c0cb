--------------------------- MODULE AccountsProofs ---------------------------
(***************************************************************************)
(* Proofs about Sessions, Unlock and AgentAuth, for any number of          *)
(* requests, accounts, tokens, tabs, visitors, passwords, replicas and     *)
(* connections, and any limits, workers, minutes and lifetimes.            *)
(*                                                                         *)
(* Sessions: a request acts on a record it has read earlier.  That is safe *)
(* because a record changes only by being revoked or deleted, and because  *)
(* a session that is not revoked is the last of its anonymous owner: if it *)
(* has no account, no session of that owner ever had one.                  *)
(*                                                                         *)
(* Grants: every change of the password raises the policy revision, so a   *)
(* grant of the present revision was given for the present password.       *)
(* Passwords: a change in progress refers to no record before the primary  *)
(* that made it has stored it on its own disk.                             *)
(* Budgets: what a record counts is exactly what was tried in the present  *)
(* minute, because a window ends with its minute and the record is deleted *)
(* only after that.                                                        *)
(*                                                                         *)
(* Connections: only the holder of the lease stores a provider token, and  *)
(* under its lease nothing newer was stored since it asked the provider;   *)
(* the request that spends a credential is the only one to replace it.     *)
(* Only an open consent becomes a connection, and it is used by that.      *)
(*                                                                         *)
(* Session budgets: the record that counts is replaced at every rotation,  *)
(* but a lineage has only one that is not revoked, and a request reads the *)
(* clock after that one was made.                                          *)
(***************************************************************************)
EXTENDS Accounts, SequenceTheorems, FiniteSetTheorems, TLAPS

-----------------------------------------------------------------------------
(* Sessions *)

Req ==
    [kind : {"login", "logout"}, token : Nat, old : Record, uid : Uid \cup {None},
     until : Nat, now : Nat \cup {None}]

\* What a request has read still stands, unless the session is gone.
RequestOK(q) ==
    /\ q.token \in 1..Issued
    /\ sessions[q.token] # None =>
        sessions[q.token].anon = q.old.anon /\ sessions[q.token].uid = q.old.uid
    /\ q.kind = "login" /\ q.now # None => q.uid \in Uid /\ q.old.uid \in {None, q.uid}

RequestsTrue ==
    /\ requests \in [Request -> Req \cup {None}]
    /\ \A r \in Request : requests[r] # None => RequestOK(requests[r])

\* Anonymous owners are named by tokens that have been issued.
OwnersIssued == \A t \in 1..Issued : sessions[t] # None => sessions[t].anon \in 1..Issued

\* A session that is not revoked and has no account: no session of its owner has one.
HolderLast ==
    \A t, u \in 1..Issued :
        /\ sessions[t] # None /\ sessions[u] # None
        /\ ~sessions[t].revoked /\ sessions[t].uid = None
        /\ sessions[t].anon = sessions[u].anon
        => sessions[u].uid = None

Inv == TypeOK /\ RequestsTrue /\ OwnersIssued /\ OwnerHeldOnce /\ HolderLast /\ NoInheritance

-----------------------------------------------------------------------------
\* The minute of an instant.
LEMMA WindowType == ASSUME NEW t \in Nat PROVE Window(t) \in Nat
  BY SessionsAssumption DEF Window

\* A new record is one, and has no owner but itself.
LEMMA FreshType ==
  ASSUME TypeOK, Issued < MaxSessions, NEW now \in Nat
  PROVE  /\ Fresh(now) \in Record /\ Fresh(now).anon = Issued + 1 /\ Fresh(now).uid = None
         /\ ~Fresh(now).revoked
<1>1. Issued \in Nat /\ clock \in Nat BY SessionsAssumption DEF TypeOK, Issued
<1>2. Issued + 1 \in Token /\ now + Lifetime \in Nat BY <1>1, SessionsAssumption DEF Token
<1> QED BY <1>1, <1>2 DEF Fresh, Record

\* A step that leaves the sessions alone keeps what is said about them alone.
LEMMA SameSessions ==
  ASSUME Inv, sessions' = sessions
  PROVE  OwnersIssued' /\ OwnerHeldOnce' /\ HolderLast' /\ NoInheritance'
  BY DEF Inv, OwnersIssued, OwnerHeldOnce, HolderLast, NoInheritance, Issued

\* Without sessions there is nothing to violate.
LEMMA InitInv == ASSUME Init PROVE Inv
<1>1. sessions = <<>> /\ Issued = 0 BY DEF Init, Issued
<1>2. 1..Issued = {} BY <1>1
<1>3. TypeOK BY <1>1, SessionsAssumption DEF Init, TypeOK
<1>4. RequestsTrue BY DEF Init, RequestsTrue
<1> QED BY <1>2, <1>3, <1>4 DEF Inv, OwnersIssued, OwnerHeldOnce, HolderLast, NoInheritance

\* The creation bucket stays within its limit.
LEMMA BucketType ==
  ASSUME TypeOK, NEW now \in Nat, CreationAllowed(now)
  PROVE  [Advanced(now) EXCEPT !.count = @ + 1] \in [window : Nat, count : 0..Creations]
<1>1. bucket.window \in Nat /\ bucket.count \in Nat /\ bucket \in [window : Nat, count : Nat]
  BY SessionsAssumption DEF TypeOK
<1>2. Advanced(now) \in [window : Nat, count : Nat] BY <1>1, WindowType DEF Advanced
<1> QED BY <1>2, SessionsAssumption DEF CreationAllowed

\* Adding a session that nobody else's owner names.
LEMMA CreateInv == ASSUME Inv, NEW now \in 0..MaxClock, Create(now) PROVE Inv'
<1> USE DEF Inv
<1>1. now \in Nat /\ Issued \in Nat /\ Issued < MaxSessions BY SessionsAssumption DEF Create, Issued, TypeOK
<1> DEFINE f == Fresh(now)
<1>2. f \in Record /\ f.anon = Issued + 1 /\ f.uid = None /\ ~f.revoked BY <1>1, FreshType
<1> HIDE DEF f
<1>3. /\ sessions' = Append(sessions, f) /\ requests' = requests /\ clock' = clock
      /\ sessions \in Seq(Record \cup {None})
  BY DEF Create, TypeOK, f
<1>4. /\ Issued' = Issued + 1 /\ \A t \in 1..Issued : sessions'[t] = sessions[t]
      /\ sessions'[Issued + 1] = f /\ sessions' \in Seq(Record \cup {None})
  BY <1>2, <1>3 DEF Issued
<1>5. TypeOK'
  <2>1. bucket' \in [window : Nat, count : 0..Creations] BY <1>1, BucketType DEF Create
  <2>2. Issued' <= MaxSessions BY <1>1, <1>4, SessionsAssumption
  <2>3. \A r \in Request : requests[r] # None => requests[r].token \in 1..Issued' BY <1>1, <1>4 DEF TypeOK
  <2> QED BY <1>3, <1>4, <2>1, <2>2, <2>3 DEF TypeOK
<1>6. RequestsTrue'
  <2>1. 1..Issued \subseteq 1..Issued' BY <1>1, <1>4
  <2> QED BY <1>3, <1>4, <2>1 DEF RequestsTrue, RequestOK
<1>7. OwnersIssued' BY <1>1, <1>2, <1>4 DEF OwnersIssued
<1>8. \A t \in 1..Issued : sessions'[t] # None => sessions'[t].anon # Issued + 1
  BY <1>1, <1>4 DEF OwnersIssued
<1>9. 1..Issued' = 1..Issued \cup {Issued + 1} BY <1>1, <1>4
<1>10. OwnerHeldOnce' BY <1>2, <1>4, <1>8, <1>9 DEF OwnerHeldOnce
<1>11. HolderLast' BY <1>2, <1>4, <1>8, <1>9 DEF HolderLast
<1>12. NoInheritance' BY <1>2, <1>4, <1>8, <1>9 DEF NoInheritance
<1> QED BY <1>5, <1>6, <1>7, <1>10, <1>11, <1>12

\* A request begins, or goes on to its next step: the sessions are as they were.
LEMMA RequestInv ==
  ASSUME Inv, NEW r \in Request, NEW q \in Req \cup {None}, q # None => RequestOK(q),
         requests' = [requests EXCEPT ![r] = q], UNCHANGED <<clock, sessions, bucket>>
  PROVE  Inv'
<1> USE DEF Inv
<1>1. requests' \in [Request -> Req \cup {None}] /\ requests'[r] = q
      /\ \A x \in Request : x # r => requests'[x] = requests[x]
  BY DEF RequestsTrue, RequestOK
<1>2. \A x \in Request : requests'[x] # None => RequestOK(requests'[x])
  BY <1>1 DEF RequestsTrue, RequestOK
<1>3. RequestsTrue' BY <1>1, <1>2 DEF RequestsTrue, RequestOK, Issued
<1>4. \A x \in Request : requests'[x] # None =>
        requests'[x].token \in 1..Issued /\ requests'[x].old \in Record /\ requests'[x].now \in Nat \cup {None}
  BY <1>1, <1>2 DEF RequestOK, Req
<1>5. TypeOK' BY <1>4 DEF TypeOK, Issued
<1> QED BY <1>3, <1>5, SameSessions

\* Load reads the session as it is.
LEMMA LoadInv ==
  ASSUME Inv, NEW r \in Request, NEW t \in 1..Issued, NEW kind \in {"login", "logout"}, Load(r, t, kind)
  PROVE  Inv'
<1> DEFINE q == [kind |-> kind, token |-> t, old |-> sessions[t], uid |-> None, until |-> 0, now |-> None]
<1>1. sessions[t] \in Record BY DEF Load, Active, Inv, TypeOK, Issued
<1>2. q \in Req BY <1>1 DEF Req
<1>3. RequestOK(q) BY DEF RequestOK
<1>4. requests' = [requests EXCEPT ![r] = q] /\ UNCHANGED <<clock, sessions, bucket>> BY DEF Load
<1> HIDE DEF q
<1> QED BY <1>2, <1>3, <1>4, RequestInv

\* Login accepts an identity that does not contradict what it has read.
LEMMA VerifiedInv ==
  ASSUME Inv, NEW r \in Request, NEW uid \in Uid, NEW until \in 1..MaxClock, Verified(r, uid, until)
  PROVE  Inv'
<1> DEFINE q == [requests[r] EXCEPT !.uid = uid, !.until = until, !.now = clock]
<1>1. requests[r] \in Req /\ RequestOK(requests[r]) BY DEF Verified, Inv, RequestsTrue, RequestOK
<1>2. clock \in Nat /\ until \in Nat BY SessionsAssumption DEF Inv, TypeOK
<1>3. /\ q \in Req /\ q.token = requests[r].token /\ q.old = requests[r].old /\ q.kind = requests[r].kind
      /\ q.uid = uid
  BY <1>1, <1>2 DEF Req
<1>4. requests' = [requests EXCEPT ![r] = q] /\ UNCHANGED <<clock, sessions, bucket>>
  BY DEF Verified, Inv, RequestsTrue, RequestOK
<1>5. requests[r].old.uid \in {None, uid} BY DEF Verified, SameAccount
<1> HIDE DEF q
<1>6. RequestOK(q) BY <1>1, <1>3, <1>5 DEF RequestOK
<1> QED BY <1>3, <1>4, <1>6, RequestInv

\* Logout reads the clock.
LEMMA LogoutClockInv == ASSUME Inv, NEW r \in Request, LogoutClock(r) PROVE Inv'
<1> DEFINE q == [requests[r] EXCEPT !.now = clock]
<1>1. requests[r] \in Req /\ RequestOK(requests[r]) /\ requests[r].kind = "logout"
  BY DEF LogoutClock, Inv, RequestsTrue, RequestOK
<1>2. clock \in Nat BY SessionsAssumption DEF Inv, TypeOK
<1>3. q \in Req /\ q.token = requests[r].token /\ q.old = requests[r].old /\ q.kind = "logout"
  BY <1>1, <1>2 DEF Req
<1>4. requests' = [requests EXCEPT ![r] = q] /\ UNCHANGED <<clock, sessions, bucket>>
  BY DEF LogoutClock, Inv, RequestsTrue, RequestOK
<1> HIDE DEF q
<1>5. RequestOK(q) BY <1>1, <1>3 DEF RequestOK
<1> QED BY <1>3, <1>4, <1>5, RequestInv

\* Maintenance forgets a session: nothing is left to say about it.
LEMMA ReapInv == ASSUME Inv, NEW t \in 1..Issued, Reap(t) PROVE Inv'
<1> USE DEF Inv
<1>1. /\ sessions' = [sessions EXCEPT ![t] = None] /\ sessions \in Seq(Record \cup {None})
      /\ UNCHANGED <<clock, bucket, requests>>
  BY DEF Reap, TypeOK
<1>2. /\ Issued' = Issued /\ sessions'[t] = None /\ sessions' \in Seq(Record \cup {None})
      /\ \A u \in 1..Issued : u # t => sessions'[u] = sessions[u]
  BY <1>1 DEF Issued
<1>3. TypeOK' BY <1>1, <1>2 DEF TypeOK
<1>4. RequestsTrue' BY <1>1, <1>2 DEF RequestsTrue, RequestOK
<1>5. OwnersIssued' BY <1>2 DEF OwnersIssued
<1>6. OwnerHeldOnce' BY <1>2 DEF OwnerHeldOnce
<1>7. HolderLast' BY <1>2 DEF HolderLast
<1>8. NoInheritance' BY <1>2 DEF NoInheritance
<1> QED BY <1>3, <1>4, <1>5, <1>6, <1>7, <1>8

\* The heir of a session: what a login keeps and a logout starts over.
LEMMA HeirType ==
  ASSUME Inv, NEW r \in Request, requests[r] # None, requests[r].now # None, Issued < MaxSessions
  PROVE  LET q == requests[r]
             h == Metered(Heir(q), sessions[q.token], q.now) IN
         sessions[q.token] # None =>
            /\ h \in Record /\ ~h.revoked
            /\ \/ q.kind = "login" /\ h.anon = q.old.anon /\ h.uid = q.uid
               \/ q.kind = "logout" /\ h.anon = Issued + 1 /\ h.uid = None
<1> SUFFICES ASSUME sessions[requests[r].token] # None
             PROVE  LET q == requests[r]
                        h == Metered(Heir(q), sessions[q.token], q.now) IN
                    /\ h \in Record /\ ~h.revoked
                    /\ \/ q.kind = "login" /\ h.anon = q.old.anon /\ h.uid = q.uid
                       \/ q.kind = "logout" /\ h.anon = Issued + 1 /\ h.uid = None
  OBVIOUS
<1>1. PICK q \in Req : q = requests[r] BY DEF Inv, RequestsTrue, RequestOK
<1>2. /\ q.now \in Nat /\ q.old \in Record /\ q.until \in Nat /\ q.kind \in {"login", "logout"}
      /\ q.uid \in Uid \cup {None}
  BY <1>1 DEF Req
<1>3. PICK old \in Record : old = sessions[q.token]
  BY <1>1 DEF Inv, RequestsTrue, RequestOK, TypeOK, Issued
<1>4. PICK f \in Record : f = Fresh(q.now) /\ f.anon = Issued + 1 /\ f.uid = None /\ ~f.revoked
  BY <1>2, FreshType DEF Inv
<1>5. /\ Heir(q) \in Record /\ ~Heir(q).revoked
      /\ \/ q.kind = "login" /\ Heir(q).anon = q.old.anon /\ Heir(q).uid = q.uid
         \/ q.kind = "logout" /\ Heir(q).anon = Issued + 1 /\ Heir(q).uid = None
  <2> DEFINE a == IF q.until < q.now + AuthLifetime THEN q.until ELSE q.now + AuthLifetime
  <2>1. a \in Nat BY <1>2, SessionsAssumption
  <2>0. q.old.anon \in Token /\ q.old.root \in Token BY <1>2 DEF Record
  <2>2. CASE q.kind = "logout"
    <3>1. Heir(q) = [f EXCEPT !.root = q.old.root] BY <1>4, <2>2 DEF Heir
    <3>2. \A x \in Token : LET g == [f EXCEPT !.root = x] IN
            g \in Record /\ g.anon = f.anon /\ g.uid = f.uid /\ g.revoked = f.revoked
      BY DEF Record
    <3> QED BY <1>4, <2>0, <2>2, <3>1, <3>2
  <2>3. CASE q.kind = "login"
    <3>1. Heir(q) = [f EXCEPT !.anon = q.old.anon, !.uid = q.uid, !.root = q.old.root, !.authUntil = a]
      BY <1>4, <2>3 DEF Heir
    <3> HIDE DEF a
    <3>2. PICK x \in Token, y \in Token, u \in Uid \cup {None}, b \in Nat :
            x = q.old.anon /\ y = q.old.root /\ u = q.uid /\ b = a
      BY <1>2, <2>0, <2>1
    <3>3. Heir(q) = [f EXCEPT !.anon = x, !.uid = u, !.root = y, !.authUntil = b] BY <3>1, <3>2
    <3>4. Heir(q) \in Record /\ Heir(q).anon = x /\ Heir(q).uid = u /\ Heir(q).revoked = f.revoked
      BY <3>3 DEF Record
    <3> QED BY <1>4, <2>3, <3>2, <3>4
  <2> QED BY <1>2, <2>2, <2>3
<1>6. Window(q.now) \in Nat /\ old.rotWindow \in Nat /\ old.rotCount \in Nat BY <1>2, WindowType DEF Record
<1>7. PICK a \in Nat, b \in Nat :
        \A h : Metered(h, old, q.now) = [h EXCEPT !.rotWindow = a, !.rotCount = b]
  <2>1. CASE Window(q.now) > old.rotWindow BY <1>6, <2>1 DEF Metered
  <2>2. CASE ~(Window(q.now) > old.rotWindow)
    <3>1. 1 + old.rotCount \in Nat BY <1>6
    <3> QED BY <1>6, <2>2, <3>1 DEF Metered
  <2> QED BY <2>1, <2>2
<1>8. ASSUME NEW h \in Record
      PROVE  LET g == Metered(h, old, q.now) IN
             g \in Record /\ g.anon = h.anon /\ g.uid = h.uid /\ g.revoked = h.revoked
  <2> DEFINE g == [h EXCEPT !.rotWindow = a, !.rotCount = b]
  <2>1. Metered(h, old, q.now) = g BY <1>7
  <2>2. g \in Record /\ g.anon = h.anon /\ g.uid = h.uid /\ g.revoked = h.revoked BY DEF Record
  <2> QED BY <2>1, <2>2
<1> QED BY <1>1, <1>3, <1>5, <1>8

\* A rotation revokes the last session of its owner, and makes the heir the last.
LEMMA RotateInv == ASSUME Inv, NEW r \in Request, Rotate(r) PROVE Inv'
<1> USE DEF Inv
<1> DEFINE q == requests[r]
           k == q.token
           n == Issued + 1
           h == Metered(Heir(q), sessions[k], q.now)
<1>1. /\ q # None /\ q.now # None /\ Issued < MaxSessions /\ Active(sessions[k], q.now)
      /\ sessions' = Append([sessions EXCEPT ![k].revoked = TRUE], h)
      /\ requests' = [requests EXCEPT ![r] = None] /\ UNCHANGED <<clock, bucket>>
  BY DEF Rotate
<1>2. /\ k \in 1..Issued /\ sessions[k].anon = q.old.anon /\ sessions[k].uid = q.old.uid
      /\ (q.kind = "login" => q.uid \in Uid /\ q.old.uid \in {None, q.uid})
      /\ sessions[k] # None /\ ~sessions[k].revoked
  BY <1>1 DEF RequestsTrue, RequestOK, Active
<1>3. /\ h \in Record /\ ~h.revoked
      /\ \/ q.kind = "login" /\ h.anon = sessions[k].anon /\ h.uid = q.uid
         \/ h.anon = n /\ h.uid = None
  BY <1>1, <1>2, HeirType
<1>4. sessions \in Seq(Record \cup {None}) /\ Issued \in Nat /\ sessions[k] \in Record
  BY <1>2 DEF TypeOK, Issued
<1> HIDE DEF h, k
<1>5. PICK e \in Record : /\ e = [sessions[k] EXCEPT !.revoked = TRUE] /\ e.revoked
                          /\ e.anon = sessions[k].anon /\ e.uid = sessions[k].uid
  <2>1. \A s \in Record : LET g == [s EXCEPT !.revoked = TRUE] IN
            g \in Record /\ g.anon = s.anon /\ g.uid = s.uid /\ g.revoked
    BY DEF Record
  <2> QED BY <1>4, <2>1
<1>6. /\ Issued' = n /\ sessions'[n] = h /\ sessions'[k] = e /\ sessions' \in Seq(Record \cup {None})
      /\ \A t \in 1..Issued : t # k => sessions'[t] = sessions[t]
  <2> DEFINE S == [sessions EXCEPT ![k] = e]
  <2>1. sessions' = Append(S, h) BY <1>1, <1>5
  <2>2. /\ S \in Seq(Record \cup {None}) /\ Len(S) = Issued /\ S[k] = e
        /\ \A t \in 1..Issued : t # k => S[t] = sessions[t]
    <3> DEFINE T == Record \cup {None}
    <3>1. sessions \in Seq(T) /\ e \in T /\ k \in 1..Len(sessions) BY <1>2, <1>4, <1>5 DEF Issued
    <3> HIDE DEF T
    <3>2. /\ S \in Seq(T) /\ Len(S) = Len(sessions)
          /\ \A j \in 1..Len(sessions) : S[j] = IF j = k THEN e ELSE sessions[j]
      BY <3>1, ExceptSeq
    <3> QED BY <3>1, <3>2 DEF T, Issued
  <2> HIDE DEF S
  <2> QED BY <1>2, <1>3, <1>4, <2>1, <2>2 DEF Issued
<1>7. 1..Issued' = 1..Issued \cup {n} /\ n \notin 1..Issued BY <1>4, <1>6
<1> HIDE DEF q, n
<1>8. \A x \in Request : requests'[x] # None => x # r /\ requests'[x] = requests[x]
  BY <1>1 DEF RequestsTrue, RequestOK
<1>9. RequestsTrue'
  <2>1. requests' \in [Request -> Req \cup {None}] BY <1>1 DEF RequestsTrue, RequestOK
  <2>2. \A x \in Request : requests'[x] # None => RequestOK(requests[x]) BY <1>8 DEF RequestsTrue, RequestOK
  <2>3. ASSUME NEW x \in Request, requests'[x] # None PROVE RequestOK(requests[x])'
    <3>1. requests'[x] = requests[x] /\ RequestOK(requests[x]) /\ requests[x].token \in 1..Issued
      BY <1>8, <2>2, <2>3 DEF RequestOK
    <3>2. requests[x].token \in 1..Issued' BY <1>7, <3>1
    <3>3. CASE requests[x].token = k
      <4>1. sessions[k].anon = requests[x].old.anon /\ sessions[k].uid = requests[x].old.uid
        BY <1>2, <3>1, <3>3 DEF RequestOK
      <4>2. sessions'[k].anon = requests[x].old.anon /\ sessions'[k].uid = requests[x].old.uid
        BY <1>5, <1>6, <4>1
      <4> QED BY <3>1, <3>2, <3>3, <4>2 DEF RequestOK
    <3>4. CASE requests[x].token # k BY <1>6, <3>1, <3>2, <3>4 DEF RequestOK
    <3> QED BY <3>3, <3>4
  <2> QED BY <2>1, <2>3 DEF RequestsTrue, RequestOK
<1>10. TypeOK'
  <2>1. Issued' <= MaxSessions BY <1>1, <1>4, <1>6, SessionsAssumption DEF n
  <2>2. TypeOK OBVIOUS
  <2> HIDE DEF Inv
  <2>3. ASSUME NEW x \in Request, requests'[x] # None
        PROVE  /\ requests'[x].token \in 1..Issued' /\ requests'[x].old \in Record
               /\ requests'[x].now \in Nat \cup {None}
    <3>1. requests'[x] = requests[x] /\ requests[x] # None BY <1>8, <2>3
    <3>2. /\ requests[x].token \in 1..Issued /\ requests[x].old \in Record
          /\ requests[x].now \in Nat \cup {None}
      BY <2>2, <3>1 DEF TypeOK
    <3> QED BY <1>7, <3>1, <3>2
  <2>4. clock' \in 0..MaxClock /\ bucket' \in [window : Nat, count : 0..Creations]
    BY <1>1, <2>2 DEF TypeOK
  <2>5. sessions' \in Seq(Record \cup {None}) BY <1>6
  <2>6. \A x \in Request :
            requests'[x] = None \/
                /\ requests'[x].token \in 1..Issued' /\ requests'[x].old \in Record
                /\ requests'[x].now \in Nat \cup {None}
    BY <2>3
  <2> QED BY ONLY <2>1, <2>4, <2>5, <2>6 DEF TypeOK
<1>11. OwnersIssued'
  <2>1. sessions[k].anon \in 1..Issued BY <1>2 DEF OwnersIssued
  <2>2. \A t \in 1..Issued : sessions'[t] # None => sessions'[t].anon \in 1..Issued
    <3>1. \A t \in 1..Issued : sessions[t] # None => sessions[t].anon \in 1..Issued BY DEF OwnersIssued
    <3>2. sessions'[k].anon \in 1..Issued BY <1>5, <1>6, <2>1
    <3> QED BY ONLY <1>6, <3>1, <3>2
  <2>3. h.anon \in 1..Issued \cup {n} BY <1>3, <2>1
  <2> QED BY ONLY <1>6, <1>7, <2>2, <2>3 DEF OwnersIssued
<1>12. \A t \in 1..Issued : sessions'[t] # None =>
            /\ sessions[t] # None /\ sessions'[t].anon = sessions[t].anon /\ sessions'[t].uid = sessions[t].uid
            /\ (sessions[t].revoked => sessions'[t].revoked)
            /\ sessions[t].anon # n
  BY <1>2, <1>5, <1>6, <1>7 DEF OwnersIssued
<1>13. \A t \in 1..Issued : sessions'[t] # None /\ ~sessions'[t].revoked => sessions[t].anon # sessions[k].anon
  BY <1>2, <1>5, <1>6, <1>12 DEF OwnerHeldOnce
<1>14. OwnerHeldOnce' BY <1>3, <1>6, <1>7, <1>12, <1>13 DEF OwnerHeldOnce
<1>15. HolderLast'
  <2>1. sessions[k].anon # n BY <1>2, <1>5, <1>6, <1>7 DEF OwnersIssued
  <2>2. h.anon = sessions[k].anon => h.uid # None BY <1>2, <1>3, <2>1, SessionsAssumption
  <2> QED BY <1>3, <1>6, <1>7, <1>12, <1>13, <2>2 DEF HolderLast
<1>16. NoInheritance'
  <2>1. \A t \in 1..Issued : sessions'[t] # None /\ sessions[t].anon = h.anon => sessions[t].uid \in {None, h.uid}
    <3> SUFFICES ASSUME NEW t \in 1..Issued, sessions'[t] # None, sessions[t].anon = h.anon
                 PROVE  sessions[t].uid \in {None, h.uid}
      OBVIOUS
    <3>1. h.anon = sessions[k].anon /\ h.uid = q.uid /\ sessions[k].uid \in {None, h.uid} BY <1>2, <1>3, <1>12
    <3>2. sessions[t] # None BY <1>12
    <3>3. CASE sessions[k].uid = None BY <1>2, <3>1, <3>2, <3>3 DEF HolderLast
    <3>4. CASE sessions[k].uid # None BY <1>2, <3>1, <3>2, <3>4 DEF NoInheritance
    <3> QED BY <3>3, <3>4
  <2> QED BY <1>6, <1>7, <1>12, <2>1 DEF NoInheritance
<1> QED BY <1>9, <1>10, <1>11, <1>14, <1>15, <1>16

\* A request that fails leaves nothing behind.
LEMMA FailInv == ASSUME Inv, NEW r \in Request, Fail(r) PROVE Inv'
  BY RequestInv DEF Fail

\* Time changes no session.
LEMMA TickInv == ASSUME Inv, Tick PROVE Inv'
<1>1. clock' \in 0..MaxClock BY SessionsAssumption DEF Tick, Inv, TypeOK
<1>2. TypeOK' BY <1>1 DEF Tick, Inv, TypeOK, Issued
<1>3. RequestsTrue' BY DEF Tick, Inv, RequestsTrue, RequestOK, Issued
<1> QED BY <1>2, <1>3, SameSessions DEF Tick, Inv

\* Every step keeps the invariant.
LEMMA NextInv == Inv /\ [Next]_vars => Inv'
<1> SUFFICES ASSUME Inv, [Next]_vars PROVE Inv' OBVIOUS
<1>1. ASSUME NEW now \in 0..MaxClock, Create(now) PROVE Inv' BY <1>1, CreateInv
<1>2. ASSUME NEW r \in Request, NEW t \in 1..Issued, NEW kind \in {"login", "logout"}, Load(r, t, kind)
      PROVE  Inv'
  BY <1>2, LoadInv
<1>3. ASSUME NEW r \in Request, NEW uid \in Uid, NEW until \in 1..MaxClock, Verified(r, uid, until)
      PROVE  Inv'
  BY <1>3, VerifiedInv
<1>4. ASSUME NEW r \in Request, LogoutClock(r) \/ Rotate(r) \/ Fail(r) PROVE Inv'
  BY <1>4, LogoutClockInv, RotateInv, FailInv
<1>5. ASSUME NEW t \in 1..Issued, Reap(t) PROVE Inv' BY <1>5, ReapInv
<1>6. CASE Tick BY <1>6, TickInv
<1>7. CASE UNCHANGED vars
  <2>1. TypeOK' BY <1>7 DEF vars, Inv, TypeOK, Issued
  <2>2. RequestsTrue' BY <1>7 DEF vars, Inv, RequestsTrue, RequestOK, Issued
  <2> QED BY <1>7, <2>1, <2>2, SameSessions DEF vars, Inv
<1> QED BY <1>1, <1>2, <1>3, <1>4, <1>5, <1>6, <1>7 DEF Next

\* The invariant holds in every reachable state.
LEMMA Invariance == Spec => []Inv
  BY InitInv, NextInv, PTL DEF Spec

\* The records, the bucket and the requests keep their shape.
THEOREM TypesHold == Spec => []TypeOK
<1>1. Inv => TypeOK BY DEF Inv
<1> QED BY <1>1, Invariance, PTL

\* However logins and logouts overlap, RaftStore.Rotate leaves an anonymous owner
\* with at most one session that is not revoked.
THEOREM OwnersHeldOnce == Spec => []OwnerHeldOnce
<1>1. Inv => OwnerHeldOnce BY DEF Inv
<1> QED BY <1>1, Invariance, PTL

\* However logins and logouts overlap, no two accounts ever come to share an
\* anonymous owner, and with it its unclaimed projects.
THEOREM NothingInherited == Spec => []NoInheritance
<1>1. Inv => NoInheritance BY DEF Inv
<1> QED BY <1>1, Invariance, PTL

-----------------------------------------------------------------------------
(* Minutes *)

\* An instant is inside its minute.
LEMMA MinuteOf ==
  ASSUME NEW c \in Nat, NEW M \in Nat, M > 0
  PROVE  /\ c \div M \in Nat /\ (c \div M) * M <= c /\ c < (c \div M) * M + M
         /\ (c \div M + 1) * M = (c \div M) * M + M
<1>1. c \div M \in Int /\ c = M * (c \div M) + (c % M) /\ c % M \in 0..(M - 1) OBVIOUS
<1> QED BY <1>1

\* The next instant is in the same minute, or begins the next one.
LEMMA NextMinute ==
  ASSUME NEW c \in Nat, NEW M \in Nat, M > 0
  PROVE  \/ (c + 1) \div M = c \div M
         \/ (c + 1) \div M = c \div M + 1 /\ (c \div M + 1) * M = c + 1
OBVIOUS

\* Minutes do not run backwards.
LEMMA LaterMinute ==
  ASSUME NEW c \in Nat, NEW d \in Nat, NEW M \in Nat, M > 0, c <= d
  PROVE  c \div M <= d \div M
OBVIOUS

\* More minutes are longer.
LEMMA MoreMinutes == ASSUME NEW a \in Nat, NEW b \in Nat, NEW M \in Nat, a <= b PROVE a * M <= b * M
OBVIOUS

-----------------------------------------------------------------------------
(* The budgets of sessions *)

\* A lineage is named by its first token, and nothing is stamped with the future.
Rooted ==
    \A t \in 1..Issued : sessions[t] # None =>
        sessions[t].root <= t /\ sessions[t].born <= clock /\ sessions[t].rotWindow <= Window(clock)

\* A lineage has one session that is not revoked: its budget is kept in one place.
RootHeldOnce ==
    \A t, u \in 1..Issued :
        /\ sessions[t] # None /\ sessions[u] # None
        /\ ~sessions[t].revoked /\ ~sessions[u].revoked
        /\ sessions[t].root = sessions[u].root
        => t = u

\* What a request has read is of its session's lineage; it read the clock after
\* that session was made.
Timely(q) ==
    /\ q.now # None => q.now <= clock
    /\ sessions[q.token] # None =>
        /\ sessions[q.token].root = q.old.root
        /\ q.now # None => sessions[q.token].rotWindow <= Window(q.now)

RequestsTimely == \A r \in Request : requests[r] # None => Timely(requests[r])

At(s, v) == {j \in 1..Len(s) : s[j] = v}

\* The session that is not revoked counts what its lineage rotated in its last minute.
Counted(s) ==
    /\ \A j \in 1..Len(rotations) : rotations[j][1] = s.root => rotations[j][2] <= s.rotWindow
    /\ Cardinality(At(rotations, <<s.root, s.rotWindow>>)) <= s.rotCount

RotationsCounted ==
    /\ rotations \in Seq(Nat \X Nat)
    /\ \A j \in 1..Len(rotations) : rotations[j][1] <= Issued
    /\ \A t \in 1..Issued : sessions[t] # None /\ ~sessions[t].revoked => Counted(sessions[t])
    /\ \A v \in Nat \X Nat : Cardinality(At(rotations, v)) <= Rotations

\* What the bucket has let through in the present minute: a budget that requests of
\* the minute before may have filled, and the one it counts.
LetThrough ==
    IF bucket.window = Window(clock) THEN Creations + bucket.count
    ELSE IF bucket.window + 1 = Window(clock) THEN bucket.count ELSE 0

CreationsCounted ==
    /\ bucket.window <= Window(clock)
    /\ Cardinality(Born(Window(clock))) <= LetThrough
    /\ \A w \in Nat : Cardinality(Born(w)) <= 2 * Creations

MeterInv ==
    Inv /\ Rooted /\ RootHeldOnce /\ RequestsTimely /\ RotationsCounted /\ CreationsCounted

-----------------------------------------------------------------------------
\* A part of a finite set is no larger.
LEMMA NoLarger ==
  ASSUME NEW S, NEW T, IsFiniteSet(S), T \subseteq S
  PROVE  IsFiniteSet(T) /\ Cardinality(T) \in Nat /\ Cardinality(S) \in Nat /\ Cardinality(T) <= Cardinality(S)
  BY FS_Subset, FS_CardinalityType

\* One more element is one more.
LEMMA OneMore ==
  ASSUME NEW S, NEW T, NEW x, IsFiniteSet(S), T \subseteq S \cup {x}
  PROVE  IsFiniteSet(T) /\ Cardinality(T) \in Nat /\ Cardinality(S) \in Nat /\ Cardinality(T) <= Cardinality(S) + 1
<1>1. Cardinality(S) \in Nat BY FS_CardinalityType
<1>2. IsFiniteSet(S \cup {x}) /\ Cardinality(S \cup {x}) <= Cardinality(S) + 1 BY <1>1, FS_AddElement
<1>3. IsFiniteSet(T) /\ Cardinality(T) \in Nat /\ Cardinality(S \cup {x}) \in Nat
        /\ Cardinality(T) <= Cardinality(S \cup {x})
  BY <1>2, NoLarger
<1> QED BY <1>1, <1>2, <1>3

\* How often a value occurs in a sequence, and in one that is longer by an element.
LEMMA AtLonger ==
  ASSUME NEW S, NEW s \in Seq(S), NEW e \in S, NEW v
  PROVE  /\ IsFiniteSet(At(s, v)) /\ Cardinality(At(s, v)) \in Nat
         /\ Cardinality(At(Append(s, e), v)) \in Nat
         /\ Cardinality(At(Append(s, e), v)) <= Cardinality(At(s, v)) + 1
         /\ e # v => At(Append(s, e), v) = At(s, v)
<1>1. Len(s) \in Nat /\ Len(Append(s, e)) = Len(s) + 1 /\ Append(s, e)[Len(s) + 1] = e
      /\ \A j \in 1..Len(s) : Append(s, e)[j] = s[j]
  OBVIOUS
<1>2. 1..(Len(s) + 1) = 1..Len(s) \cup {Len(s) + 1} BY <1>1
<1>3. IsFiniteSet(1..Len(s))
  <2>1. PICK n \in Int : n = Len(s) BY <1>1
  <2>2. IsFiniteSet(1..n) BY FS_Interval
  <2> QED BY <2>1, <2>2
<1>4. At(s, v) \subseteq 1..Len(s) BY DEF At
<1>5. IsFiniteSet(At(s, v)) /\ Cardinality(At(s, v)) \in Nat BY <1>3, <1>4, NoLarger
<1>6. At(Append(s, e), v) \subseteq At(s, v) \cup {Len(s) + 1} BY <1>1, <1>2 DEF At
<1>7. e # v => At(Append(s, e), v) = At(s, v) BY <1>1, <1>2 DEF At
<1> QED BY <1>5, <1>6, <1>7, OneMore

\* The sessions of a minute are among those that were made.
LEMMA BornFinite ==
  ASSUME Inv, NEW w
  PROVE  IsFiniteSet(Born(w)) /\ Cardinality(Born(w)) \in Nat
<1>1. Issued \in Nat BY DEF Inv, TypeOK, Issued
<1>2. IsFiniteSet(1..Issued) BY <1>1, FS_Interval
<1>3. Born(w) \subseteq 1..Issued BY DEF Born
<1> QED BY <1>2, <1>3, NoLarger

\* Nobody is born in a minute to come.
LEMMA BornLater ==
  ASSUME MeterInv, NEW w \in Nat, w > Window(clock)
  PROVE  Born(w) = {}
<1>1. ASSUME NEW t \in 1..Issued, sessions[t] # None PROVE Window(sessions[t].born) # w
  <2>1. sessions[t] \in Record BY <1>1 DEF MeterInv, Inv, TypeOK, Issued
  <2>2. sessions[t].born \in Nat /\ clock \in Nat /\ sessions[t].born <= clock
    BY <1>1, <2>1, SessionsAssumption DEF MeterInv, Rooted, Record, Inv, TypeOK
  <2>3. Window(sessions[t].born) <= Window(clock) BY <2>2, LaterMinute, SessionsAssumption DEF Window
  <2>4. Window(sessions[t].born) \in Nat /\ Window(clock) \in Nat BY <2>2, WindowType
  <2> QED BY <2>3, <2>4
<1> QED BY <1>1 DEF Born

\* Initially nothing has been counted.
LEMMA InitMeter == ASSUME Init PROVE MeterInv
<1>1. Inv /\ sessions = <<>> /\ Issued = 0 /\ rotations = <<>> /\ clock = 0 BY InitInv DEF Init, Issued
<1>2. 1..Issued = {} BY <1>1
<1>3. \A w : Born(w) = {} BY <1>2 DEF Born
<1>4. Window(clock) = 0 BY <1>1, SessionsAssumption DEF Window
<1>5. Cardinality({}) = 0 BY FS_EmptySet
<1>6. CreationsCounted
  <2>1. \A w : Cardinality(Born(w)) = 0 BY <1>3, <1>5
  <2>2. LetThrough = Creations /\ bucket.window = 0 BY <1>4, SessionsAssumption DEF LetThrough, Init
  <2> QED BY <1>4, <2>1, <2>2, SessionsAssumption DEF CreationsCounted
<1>7. \A v : At(rotations, v) = {} BY <1>1 DEF At
<1>8. RotationsCounted
  <2>1. \A v : Cardinality(At(rotations, v)) = 0 BY <1>5, <1>7
  <2>2. rotations \in Seq(Nat \X Nat) /\ Len(rotations) = 0 BY <1>1
  <2> QED BY <1>2, <2>1, <2>2, SessionsAssumption DEF RotationsCounted
<1>9. RequestsTimely BY DEF Init, RequestsTimely
<1> QED BY <1>1, <1>2, <1>6, <1>8, <1>9 DEF MeterInv, Rooted, RootHeldOnce

\* A step of a request leaves what has been counted alone.
LEMMA RequestMeter ==
  ASSUME MeterInv, Inv', NEW r \in Request, NEW q \in Req \cup {None}, q # None => Timely(q),
         requests' = [requests EXCEPT ![r] = q], UNCHANGED <<clock, sessions, bucket, rotations>>
  PROVE  MeterInv'
<1>1. \A x \in Request : requests'[x] # None => Timely(requests'[x])
  BY DEF MeterInv, Inv, RequestsTrue, RequestOK, RequestsTimely
<1>2. RequestsTimely' BY <1>1 DEF RequestsTimely, Timely
<1>3. Rooted' /\ RootHeldOnce' BY DEF MeterInv, Rooted, RootHeldOnce, Issued
<1>4. RotationsCounted' BY DEF MeterInv, RotationsCounted, Counted, Issued
<1>5. \A w : Born(w)' = Born(w) BY DEF Born, Issued
<1>6. CreationsCounted' BY <1>5 DEF MeterInv, CreationsCounted, LetThrough
<1> QED BY <1>2, <1>3, <1>4, <1>6 DEF MeterInv

LEMMA LoadMeter ==
  ASSUME MeterInv, Inv', NEW r \in Request, NEW t \in 1..Issued, NEW kind \in {"login", "logout"}, Load(r, t, kind)
  PROVE  MeterInv'
<1> DEFINE q == [kind |-> kind, token |-> t, old |-> sessions[t], uid |-> None, until |-> 0, now |-> None]
<1>1. sessions[t] \in Record BY DEF Load, Active, MeterInv, Inv, TypeOK, Issued
<1>2. q \in Req BY <1>1 DEF Req
<1>3. Timely(q) BY DEF Timely
<1>4. requests' = [requests EXCEPT ![r] = q] /\ UNCHANGED <<clock, sessions, bucket, rotations>> BY DEF Load
<1> HIDE DEF q
<1> QED BY <1>2, <1>3, <1>4, RequestMeter

\* The clock is read now: the session it is about was made before.
LEMMA TimelyNow ==
  ASSUME MeterInv, NEW r \in Request, requests[r] # None, NEW q, q.token = requests[r].token,
         q.old = requests[r].old, q.now = clock
  PROVE  Timely(q)
<1>1. Timely(requests[r]) /\ requests[r].token \in 1..Issued BY DEF MeterInv, RequestsTimely, Inv, RequestsTrue, RequestOK
<1>2. clock \in Nat BY SessionsAssumption DEF MeterInv, Inv, TypeOK
<1> QED BY <1>1, <1>2 DEF Timely, MeterInv, Rooted

LEMMA VerifiedMeter ==
  ASSUME MeterInv, Inv', NEW r \in Request, NEW uid \in Uid, NEW until \in 1..MaxClock, Verified(r, uid, until)
  PROVE  MeterInv'
<1> DEFINE q == [requests[r] EXCEPT !.uid = uid, !.until = until, !.now = clock]
<1>1. requests[r] \in Req /\ requests[r] # None BY DEF Verified, MeterInv, Inv, RequestsTrue, RequestOK
<1>2. clock \in Nat /\ until \in Nat BY SessionsAssumption DEF MeterInv, Inv, TypeOK
<1>3. q \in Req /\ q.token = requests[r].token /\ q.old = requests[r].old /\ q.now = clock
  BY <1>1, <1>2 DEF Req
<1>4. requests' = [requests EXCEPT ![r] = q] /\ UNCHANGED <<clock, sessions, bucket, rotations>>
  BY DEF Verified, MeterInv, Inv, RequestsTrue, RequestOK
<1> HIDE DEF q
<1>5. Timely(q) BY <1>1, <1>3, TimelyNow
<1> QED BY <1>3, <1>4, <1>5, RequestMeter

LEMMA LogoutClockMeter == ASSUME MeterInv, Inv', NEW r \in Request, LogoutClock(r) PROVE MeterInv'
<1> DEFINE q == [requests[r] EXCEPT !.now = clock]
<1>1. requests[r] \in Req /\ requests[r] # None BY DEF LogoutClock, MeterInv, Inv, RequestsTrue, RequestOK
<1>2. clock \in Nat BY SessionsAssumption DEF MeterInv, Inv, TypeOK
<1>3. q \in Req /\ q.token = requests[r].token /\ q.old = requests[r].old /\ q.now = clock
  BY <1>1, <1>2 DEF Req
<1>4. requests' = [requests EXCEPT ![r] = q] /\ UNCHANGED <<clock, sessions, bucket, rotations>>
  BY DEF LogoutClock, MeterInv, Inv, RequestsTrue, RequestOK
<1> HIDE DEF q
<1>5. Timely(q) BY <1>1, <1>3, TimelyNow
<1> QED BY <1>3, <1>4, <1>5, RequestMeter

LEMMA FailMeter == ASSUME MeterInv, Inv', NEW r \in Request, Fail(r) PROVE MeterInv'
  BY RequestMeter DEF Fail

\* Nobody is born, and the bucket is as it was.
LEMMA FewerBorn ==
  ASSUME MeterInv, UNCHANGED <<clock, bucket>>, \A w : Born(w)' \subseteq Born(w)
  PROVE  CreationsCounted'
<1>1. ASSUME NEW w
      PROVE  Cardinality(Born(w)') <= Cardinality(Born(w)) /\ Cardinality(Born(w)') \in Nat /\ Cardinality(Born(w)) \in Nat
  BY BornFinite, NoLarger DEF MeterInv
<1>3. Window(clock)' = Window(clock) OBVIOUS
<1>4. LetThrough' = LetThrough BY DEF LetThrough
<1>2. clock \in Nat BY SessionsAssumption DEF MeterInv, Inv, TypeOK
<1>5. Window(clock) \in Nat BY <1>2, WindowType
<1>6. LetThrough \in Nat BY SessionsAssumption DEF LetThrough, MeterInv, Inv, TypeOK
<1> DEFINE n(w) == Cardinality(Born(w))
           m(w) == Cardinality(Born(w)')
<1>7. \A w : m(w) <= n(w) /\ m(w) \in Nat /\ n(w) \in Nat BY <1>1
<1>8. n(Window(clock)) <= LetThrough /\ \A w \in Nat : n(w) <= 2 * Creations
  BY DEF MeterInv, CreationsCounted
<1> HIDE DEF n, m
<1>9. m(Window(clock)) <= LetThrough /\ \A w \in Nat : m(w) <= 2 * Creations
  BY <1>5, <1>6, <1>7, <1>8, SessionsAssumption
<1> QED BY <1>3, <1>4, <1>9 DEF m, MeterInv, CreationsCounted

LEMMA ReapMeter == ASSUME MeterInv, Inv', NEW t \in 1..Issued, Reap(t) PROVE MeterInv'
<1>1. /\ sessions' = [sessions EXCEPT ![t] = None] /\ sessions \in Seq(Record \cup {None})
      /\ UNCHANGED <<clock, bucket, requests, rotations>>
  BY DEF Reap, MeterInv, Inv, TypeOK
<1>2. /\ Issued' = Issued /\ sessions'[t] = None
      /\ \A u \in 1..Issued : u # t => sessions'[u] = sessions[u]
  BY <1>1 DEF Issued
<1>3. Rooted' /\ RootHeldOnce' BY <1>1, <1>2 DEF MeterInv, Rooted, RootHeldOnce
<1>4. RequestsTimely'
  <2>1. \A r \in Request : requests[r] # None => requests[r].token \in 1..Issued
    BY DEF MeterInv, Inv, RequestsTrue, RequestOK
  <2> QED BY <1>1, <1>2, <2>1 DEF MeterInv, RequestsTimely, Timely
<1>5. RotationsCounted' BY <1>1, <1>2 DEF MeterInv, RotationsCounted, Counted
<1>6. \A w : Born(w)' \subseteq Born(w) BY <1>2 DEF Born
<1>7. CreationsCounted' BY <1>1, <1>6, FewerBorn
<1> QED BY <1>3, <1>4, <1>5, <1>7 DEF MeterInv

\* How the minute of a commit follows that of the clock its request read.
LEMMA LateMinute ==
  ASSUME NEW c \in Nat, NEW n \in Nat, NEW M \in Nat, NEW L \in 0..M, M > 0, n <= c, c <= n + L
  PROVE  c \div M = n \div M \/ c \div M = n \div M + 1
<1>1. n \div M <= c \div M BY LaterMinute
<1>2. c \div M \in Nat /\ n \div M \in Nat /\ (c \div M) * M <= c /\ n < (n \div M) * M + M
  BY MinuteOf
<1>3. c <= n + M OBVIOUS
<1>4. ~(n \div M + 2 <= c \div M)
  <2> SUFFICES ASSUME n \div M + 2 <= c \div M PROVE FALSE OBVIOUS
  <2>1. PICK a \in Nat, b \in Nat : a = n \div M /\ b = c \div M BY <1>2
  <2>2. (a + 2) * M <= b * M BY <2>1, MoreMinutes
  <2>3. (a + 2) * M = a * M + 2 * M /\ a * M \in Nat /\ b * M \in Nat OBVIOUS
  <2> QED BY <1>2, <1>3, <2>1, <2>2, <2>3
<1> QED BY <1>1, <1>2, <1>4

\* A new session is of a new lineage, and its minute has one more.
LEMMA CreateMeter == ASSUME MeterInv, Inv', NEW now \in 0..MaxClock, Create(now) PROVE MeterInv'
<1>1. now \in Nat /\ clock \in Nat /\ Issued \in Nat /\ Issued < MaxSessions
  BY SessionsAssumption DEF Create, Issued, MeterInv, Inv, TypeOK
<1> DEFINE f == Fresh(now)
           n == Issued + 1
<1>2. f \in Record /\ ~f.revoked BY <1>1, FreshType DEF MeterInv, Inv
<1>3. f.root = n /\ f.born = clock /\ f.rotWindow = 0 /\ f.rotCount = 0 BY DEF Fresh
<1> HIDE DEF f
<1>4. /\ sessions' = Append(sessions, f) /\ sessions \in Seq(Record \cup {None})
      /\ UNCHANGED <<clock, requests, rotations>>
  BY DEF Create, MeterInv, Inv, TypeOK, f
<1>5. /\ Issued' = n /\ \A t \in 1..Issued : sessions'[t] = sessions[t]
      /\ sessions'[n] = f
  BY <1>2, <1>4 DEF Issued
<1>6. 1..Issued' = 1..Issued \cup {n} /\ n \notin 1..Issued /\ 1..Issued \subseteq Nat BY <1>1, <1>5
<1>7. Window(clock) \in Nat /\ Window(now) \in Nat BY <1>1, WindowType
<1>8. Rooted'
  <2>1. f.root <= n /\ f.born <= clock /\ f.rotWindow <= Window(clock) BY <1>1, <1>3, <1>7
  <2>2. \A t \in 1..Issued : sessions[t] # None =>
          sessions[t].root <= t /\ sessions[t].born <= clock /\ sessions[t].rotWindow <= Window(clock)
    BY DEF MeterInv, Rooted
  <2>3. clock' = clock /\ Window(clock)' = Window(clock) BY <1>4
  <2> HIDE DEF n
  <2> QED BY <1>5, <1>6, <2>1, <2>2, <2>3 DEF Rooted
<1>9. \A t \in 1..Issued : sessions[t] # None => sessions[t].root # n
  <2>1. \A t \in 1..Issued : sessions[t] # None => sessions[t] \in Record BY <1>4 DEF Issued
  <2>2. \A t \in 1..Issued : sessions[t] # None => sessions[t].root <= t /\ sessions[t].root \in Nat
    BY <2>1 DEF MeterInv, Rooted, Record, Token
  <2> QED BY <1>1, <2>2
<1>10. RootHeldOnce' BY <1>3, <1>5, <1>6, <1>9 DEF MeterInv, RootHeldOnce
<1>11. RequestsTimely'
  <2>1. \A r \in Request : requests[r] # None => requests[r].token \in 1..Issued
    BY DEF MeterInv, Inv, RequestsTrue, RequestOK
  <2> QED BY <1>4, <1>5, <2>1 DEF MeterInv, RequestsTimely, Timely
<1>12. RotationsCounted'
  <2>1. rotations \in Seq(Nat \X Nat) /\ \A j \in 1..Len(rotations) : rotations[j][1] <= Issued
    BY DEF MeterInv, RotationsCounted
  <2>2. \A j \in 1..Len(rotations) : rotations[j][1] \in Nat BY <2>1
  <2>3. \A j \in 1..Len(rotations) : rotations[j][1] # n /\ rotations[j][1] <= n BY <1>1, <2>1, <2>2
  <2>4. At(rotations, <<n, 0>>) = {} BY <2>3 DEF At
  <2>5. Cardinality(At(rotations, <<n, 0>>)) = 0 BY <2>4, FS_EmptySet
  <2>6. Counted(f) BY <1>3, <2>3, <2>5 DEF Counted
  <2>7. \A t \in 1..Issued' : sessions'[t] # None /\ ~sessions'[t].revoked => Counted(sessions'[t])
    BY <1>5, <1>6, <2>6 DEF MeterInv, RotationsCounted
  <2>8. (\A t \in 1..Issued : sessions[t] # None /\ ~sessions[t].revoked => Counted(sessions[t]))'
    BY <1>4, <2>7 DEF Counted
  <2>9. \A v \in Nat \X Nat : Cardinality(At(rotations, v)) <= Rotations BY DEF MeterInv, RotationsCounted
  <2> QED BY <1>4, <1>5, <2>1, <2>3, <2>8, <2>9 DEF RotationsCounted
<1>13. CreationsCounted'
  <2>0. PICK W \in Nat, N \in Nat : W = Window(clock) /\ N = Window(now) BY <1>7
  <2> DEFINE b == bucket.window
             k == bucket.count
             m == Cardinality(Born(W))
             x == Cardinality(Born(W)')
  <2>1. bucket \in [window : Nat, count : 0..Creations] BY DEF MeterInv, Inv, TypeOK
  <2>2. b \in Nat /\ k \in 0..Creations /\ b <= W /\ m <= LetThrough
    BY <2>0, <2>1, SessionsAssumption DEF MeterInv, CreationsCounted
  <2>3. W = N \/ W = N + 1 BY <1>1, <2>0, LateMinute, SessionsAssumption DEF Create, Window
  <2>4. /\ x \in Nat /\ m \in Nat /\ x <= m + 1
    <3>1. Born(W)' \subseteq Born(W) \cup {n} BY <1>5, <1>6 DEF Born
    <3> QED BY <3>1, BornFinite, OneMore DEF MeterInv
  <2>5. \A w \in Nat : w # W => Born(w)' = Born(w) BY <1>3, <1>5, <1>6, <2>0 DEF Born
  <2>6. /\ N > b => bucket'.window = N /\ bucket'.count = 1 /\ 0 < Creations
        /\ ~(N > b) => bucket'.window = b /\ bucket'.count = k + 1 /\ k < Creations
    <3>1. bucket' = [Advanced(now) EXCEPT !.count = @ + 1] /\ Advanced(now).count < Creations
      BY DEF Create, CreationAllowed
    <3> QED BY <2>0, <2>1, <3>1 DEF Advanced
  <2>7. LetThrough = IF b = W THEN Creations + k ELSE IF b + 1 = W THEN k ELSE 0 BY <2>0 DEF LetThrough
  <2>8. LetThrough' = IF bucket'.window = W THEN Creations + bucket'.count
                      ELSE IF bucket'.window + 1 = W THEN bucket'.count ELSE 0
    BY <1>4, <2>0 DEF LetThrough
  <2>9. Creations \in Nat \ {0} BY SessionsAssumption
  <2> HIDE DEF b, k, m, x
  <2>10. bucket'.window <= W /\ x <= LetThrough' BY <2>2, <2>3, <2>4, <2>6, <2>7, <2>8, <2>9
  <2>11. x <= 2 * Creations BY <2>2, <2>3, <2>4, <2>6, <2>7, <2>9
  <2>12. \A w \in Nat : Cardinality(Born(w)') <= 2 * Creations
    <3>1. \A w \in Nat : Cardinality(Born(w)) <= 2 * Creations BY DEF MeterInv, CreationsCounted
    <3> QED BY <2>5, <2>11, <3>1 DEF x
  <2> QED BY <1>4, <2>0, <2>10, <2>12 DEF CreationsCounted, x
<1> QED BY <1>8, <1>10, <1>11, <1>12, <1>13 DEF MeterInv

\* Time passes: the next minute begins with an empty budget.
LEMMA TickMeter == ASSUME MeterInv, Inv', Tick PROVE MeterInv'
<1>1. clock \in Nat /\ clock' = clock + 1 /\ UNCHANGED <<sessions, bucket, requests, rotations>>
  BY SessionsAssumption DEF Tick, MeterInv, Inv, TypeOK
<1> DEFINE W == Window(clock)
           V == Window(clock')
<1>2. W \in Nat /\ (V = W \/ V = W + 1) BY <1>1, NextMinute, WindowType, SessionsAssumption DEF Window
<1>3. Window(clock)' = V BY <1>1 DEF Window
<1> HIDE DEF W, V
<1>4. Rooted'
  <2>1. ASSUME NEW t \in 1..Issued, sessions[t] # None
        PROVE  sessions[t].root <= t /\ sessions[t].born <= clock' /\ sessions[t].rotWindow <= V
    <3>1. sessions[t] \in Record BY <2>1 DEF MeterInv, Inv, TypeOK, Issued
    <3>2. sessions[t].born \in Nat /\ sessions[t].rotWindow \in Nat BY <3>1 DEF Record
    <3>3. sessions[t].root <= t /\ sessions[t].born <= clock /\ sessions[t].rotWindow <= W
      BY <2>1 DEF MeterInv, Rooted, W
    <3> QED BY <1>1, <1>2, <3>2, <3>3
  <2> QED BY <1>1, <1>3, <2>1 DEF Rooted, Issued
<1>5. RootHeldOnce' /\ RotationsCounted'
  BY <1>1 DEF MeterInv, RootHeldOnce, RotationsCounted, Counted, Issued
<1>6. RequestsTimely'
  <2>1. \A r \in Request : requests[r] # None => requests[r] \in Req BY DEF MeterInv, Inv, RequestsTrue, RequestOK
  <2>2. \A r \in Request : requests[r] # None /\ requests[r].now # None =>
          requests[r].now \in Nat /\ requests[r].now <= clock
    BY <2>1 DEF Req, MeterInv, RequestsTimely, Timely
  <2>3. \A r \in Request : requests[r] # None /\ requests[r].now # None => requests[r].now <= clock'
    BY <1>1, <2>2
  <2> QED BY <1>1, <2>3 DEF MeterInv, RequestsTimely, Timely
<1>7. CreationsCounted'
  <2>1. \A w : Born(w)' = Born(w) BY <1>1 DEF Born, Issued
  <2>2. bucket \in [window : Nat, count : 0..Creations] BY DEF MeterInv, Inv, TypeOK
  <2>3. bucket.window <= W /\ Cardinality(Born(W)) <= LetThrough /\ bucket.window \in Nat /\ bucket.count \in Nat
    BY <2>2, SessionsAssumption DEF MeterInv, CreationsCounted, W
  <2>4. CASE V = W
    <3>1. LetThrough' = LetThrough BY <1>1, <1>3, <2>4 DEF LetThrough, W
    <3> QED BY <1>1, <1>3, <2>1, <2>3, <2>4, <3>1 DEF MeterInv, CreationsCounted
  <2>5. CASE V = W + 1
    <3>1. Born(V) = {} BY <1>2, <2>5, BornLater DEF W
    <3>2. Cardinality(Born(V)) = 0 BY <3>1, FS_EmptySet
    <3>3. LetThrough' = IF bucket.window = V THEN Creations + bucket.count
                        ELSE IF bucket.window + 1 = V THEN bucket.count ELSE 0
      BY <1>1, <1>3 DEF LetThrough
    <3>4. 0 <= LetThrough' /\ bucket.window <= V BY <1>2, <2>3, <2>5, <3>3, SessionsAssumption
    <3> QED BY <1>1, <1>3, <2>1, <3>2, <3>4 DEF MeterInv, CreationsCounted
  <2> QED BY <1>2, <2>4, <2>5
<1> QED BY <1>4, <1>5, <1>6, <1>7 DEF MeterInv

\* What the heir of a session has of its lineage and of its budget.
LEMMA HeirMeter ==
  ASSUME Inv, NEW r \in Request, requests[r] # None, requests[r].now # None, Issued < MaxSessions
  PROVE  LET q == requests[r]
             s == sessions[q.token]
             h == Metered(Heir(q), s, q.now) IN
         /\ h.root = q.old.root /\ h.born = clock
         /\ Window(q.now) > s.rotWindow => h.rotWindow = Window(q.now) /\ h.rotCount = 1
         /\ ~(Window(q.now) > s.rotWindow) => h.rotWindow = s.rotWindow /\ h.rotCount = 1 + s.rotCount
<1>1. PICK q \in Req : q = requests[r] BY DEF Inv, RequestsTrue, RequestOK
<1>2. q.now \in Nat BY <1>1 DEF Req
<1>3. PICK f \in Record : f = Fresh(q.now) /\ f.born = clock BY <1>2, FreshType DEF Inv, Fresh
<1>4. PICK h \in Record : h = Heir(q) /\ h.root = q.old.root /\ h.born = clock
  <2> DEFINE a == IF q.until < q.now + AuthLifetime THEN q.until ELSE q.now + AuthLifetime
  <2>1. a \in Nat BY <1>1, <1>2, SessionsAssumption DEF Req
  <2>2. q.old.anon \in Token /\ q.old.root \in Token /\ q.uid \in Uid \cup {None} BY <1>1 DEF Req, Record
  <2>3. CASE q.kind = "logout"
    <3>1. Heir(q) = [f EXCEPT !.root = q.old.root] BY <1>3, <2>3 DEF Heir
    <3>2. \A x \in Token : LET g == [f EXCEPT !.root = x] IN g \in Record /\ g.root = x /\ g.born = f.born
      BY DEF Record
    <3> QED BY <1>3, <2>2, <3>1, <3>2
  <2>4. CASE q.kind # "logout"
    <3>1. Heir(q) = [f EXCEPT !.anon = q.old.anon, !.uid = q.uid, !.root = q.old.root, !.authUntil = a]
      BY <1>3, <2>4 DEF Heir
    <3> HIDE DEF a
    <3>2. PICK x \in Token, y \in Token, u \in Uid \cup {None}, b \in Nat :
            x = q.old.anon /\ y = q.old.root /\ u = q.uid /\ b = a
      BY <2>1, <2>2
    <3>3. Heir(q) = [f EXCEPT !.anon = x, !.uid = u, !.root = y, !.authUntil = b] BY <3>1, <3>2
    <3>4. Heir(q) \in Record /\ Heir(q).root = y /\ Heir(q).born = f.born BY <3>3 DEF Record
    <3> QED BY <1>3, <3>2, <3>4
  <2> QED BY <2>3, <2>4
<1>6. \A s, now : LET g == Metered(h, s, now) IN
        /\ g.root = h.root /\ g.born = h.born
        /\ Window(now) > s.rotWindow => g.rotWindow = Window(now) /\ g.rotCount = 1
        /\ ~(Window(now) > s.rotWindow) => g.rotWindow = s.rotWindow /\ g.rotCount = 1 + s.rotCount
  BY DEF Metered, Record
<1> QED BY <1>1, <1>4, <1>6

\* A rotation is counted where its lineage keeps its budget.
LEMMA RotateMeter == ASSUME MeterInv, Inv', NEW r \in Request, Rotate(r) PROVE MeterInv'
<1> DEFINE q == requests[r]
           k == q.token
           n == Issued + 1
           h == Metered(Heir(q), sessions[k], q.now)
<1>0. Inv BY DEF MeterInv
<1>1. /\ q # None /\ q.now # None /\ Issued < MaxSessions /\ Active(sessions[k], q.now)
      /\ sessions' = Append([sessions EXCEPT ![k].revoked = TRUE], h)
      /\ requests' = [requests EXCEPT ![r] = None] /\ UNCHANGED <<clock, bucket>>
      /\ rotations' = Append(rotations, <<h.root, Window(q.now)>>) /\ h.rotCount <= Rotations
  BY DEF Rotate
<1>2. k \in 1..Issued /\ sessions[k] # None /\ ~sessions[k].revoked
  BY <1>0, <1>1 DEF Inv, RequestsTrue, RequestOK, Active
<1>3. /\ h.root = q.old.root /\ h.born = clock
      /\ Window(q.now) > sessions[k].rotWindow => h.rotWindow = Window(q.now) /\ h.rotCount = 1
      /\ ~(Window(q.now) > sessions[k].rotWindow) =>
            h.rotWindow = sessions[k].rotWindow /\ h.rotCount = 1 + sessions[k].rotCount
  BY <1>0, <1>1, HeirMeter
<1>4. /\ sessions \in Seq(Record \cup {None}) /\ Issued \in Nat /\ sessions[k] \in Record /\ clock \in Nat
      /\ q.now \in Nat
  BY <1>0, <1>1, <1>2, SessionsAssumption DEF Inv, TypeOK, Issued
<1>5. /\ sessions[k].root = q.old.root /\ sessions[k].rotWindow <= Window(q.now) /\ q.now <= clock
  BY <1>1, <1>2 DEF MeterInv, RequestsTimely, Timely
<1>6. PICK w \in Nat : /\ w = Window(q.now) /\ h.rotWindow = w /\ w <= Window(clock)
                       /\ h.rotCount = IF w > sessions[k].rotWindow THEN 1 ELSE 1 + sessions[k].rotCount
  <2>1. Window(q.now) \in Nat BY <1>4, WindowType
  <2>2. sessions[k].rotWindow \in Nat BY <1>4 DEF Record
  <2>3. Window(q.now) <= Window(clock) BY <1>4, <1>5, LaterMinute, SessionsAssumption DEF Window
  <2> QED BY <1>3, <1>5, <2>1, <2>2, <2>3
<1>7. /\ h \in Record /\ ~h.revoked BY <1>0, <1>1, <1>2, HeirType
<1> HIDE DEF h, k, q
<1>8. PICK e \in Record : /\ e = [sessions[k] EXCEPT !.revoked = TRUE] /\ e.revoked
                          /\ e.root = sessions[k].root /\ e.born = sessions[k].born
                          /\ e.rotWindow = sessions[k].rotWindow
  <2>1. \A s \in Record : LET g == [s EXCEPT !.revoked = TRUE] IN
            /\ g \in Record /\ g.root = s.root /\ g.born = s.born /\ g.rotWindow = s.rotWindow /\ g.revoked
    BY DEF Record
  <2> QED BY <1>4, <2>1
<1>9. /\ Issued' = n /\ sessions'[n] = h /\ sessions'[k] = e
      /\ \A t \in 1..Issued : t # k => sessions'[t] = sessions[t]
  <2> DEFINE S == [sessions EXCEPT ![k] = e]
  <2>1. sessions' = Append(S, h) BY <1>1, <1>8
  <2> DEFINE T == Record \cup {None}
  <2>2. sessions \in Seq(T) /\ e \in T /\ h \in T /\ k \in 1..Len(sessions) BY <1>2, <1>4, <1>7, <1>8 DEF Issued
  <2> HIDE DEF T
  <2>3. /\ S \in Seq(T) /\ Len(S) = Len(sessions)
        /\ \A j \in 1..Len(sessions) : S[j] = IF j = k THEN e ELSE sessions[j]
    BY <2>2, ExceptSeq
  <2> HIDE DEF S
  <2> QED BY <2>1, <2>2, <2>3 DEF Issued
<1>10. 1..Issued' = 1..Issued \cup {n} /\ n \notin 1..Issued /\ n \in Nat BY <1>4, <1>9
<1>11. \A t \in 1..Issued : sessions[t] # None => sessions[t].root <= t /\ sessions[t].root \in Nat
  <2>1. \A t \in 1..Issued : sessions[t] # None => sessions[t] \in Record BY <1>4 DEF Issued
  <2> QED BY <2>1 DEF MeterInv, Rooted, Record, Token
<1>12. \A t \in 1..Issued : sessions'[t] # None =>
            /\ sessions[t] # None /\ sessions'[t].root = sessions[t].root /\ sessions'[t].born = sessions[t].born
            /\ sessions'[t].rotWindow = sessions[t].rotWindow
  BY <1>2, <1>8, <1>9
<1>13. h.root = sessions[k].root /\ h.root < n /\ h.root \in Nat
  <2>1. h.root = sessions[k].root BY <1>3, <1>5
  <2>2. sessions[k].root <= k /\ sessions[k].root \in Nat BY <1>2, <1>11
  <2> QED BY <1>2, <1>4, <2>1, <2>2
<1> HIDE DEF n
<1>14. Rooted'
  <2>1. h.root <= n /\ h.born <= clock /\ h.rotWindow <= Window(clock) BY <1>3, <1>4, <1>6, <1>10, <1>13
  <2>2. \A t \in 1..Issued : sessions[t] # None =>
          sessions[t].root <= t /\ sessions[t].born <= clock /\ sessions[t].rotWindow <= Window(clock)
    BY DEF MeterInv, Rooted
  <2>3. clock' = clock /\ Window(clock)' = Window(clock) BY <1>1
  <2>4. \A t \in 1..Issued : sessions'[t] # None =>
          sessions'[t].root <= t /\ sessions'[t].born <= clock /\ sessions'[t].rotWindow <= Window(clock)
    BY <1>12, <2>2
  <2> QED BY <1>9, <1>10, <2>1, <2>3, <2>4 DEF Rooted
<1>15. \A t \in 1..Issued : sessions'[t] # None /\ ~sessions'[t].revoked =>
            sessions'[t] = sessions[t] /\ sessions[t].root # h.root
  <2>1. \A t \in 1..Issued : sessions'[t] # None /\ ~sessions'[t].revoked => t # k /\ sessions'[t] = sessions[t]
    BY <1>8, <1>9
  <2> QED BY <1>2, <1>13, <2>1 DEF MeterInv, RootHeldOnce
<1>16. RootHeldOnce'
  <2>1. \A t \in 1..Issued, u \in 1..Issued :
          /\ sessions'[t] # None /\ sessions'[u] # None /\ ~sessions'[t].revoked /\ ~sessions'[u].revoked
          /\ sessions'[t].root = sessions'[u].root
          => t = u
    <3>1. \A t, u \in 1..Issued :
            /\ sessions[t] # None /\ sessions[u] # None /\ ~sessions[t].revoked /\ ~sessions[u].revoked
            /\ sessions[t].root = sessions[u].root
            => t = u
      BY DEF MeterInv, RootHeldOnce
    <3> QED BY ONLY <1>15, <3>1
  <2> QED BY <1>9, <1>10, <1>15, <2>1 DEF RootHeldOnce
<1>17. RequestsTimely'
  <2>1. ASSUME NEW x \in Request, requests'[x] # None
        PROVE  /\ requests'[x] = requests[x] /\ requests[x].token \in 1..Issued /\ Timely(requests[x])
    BY <1>0, <1>1, <2>1 DEF Inv, RequestsTrue, RequestOK, MeterInv, RequestsTimely
  <2>2. ASSUME NEW x \in Request, requests'[x] # None PROVE Timely(requests[x])'
    <3>1. requests'[x] = requests[x] /\ clock' = clock BY <1>1, <2>1, <2>2
    <3>2. PICK y : y = requests[x] /\ y.token \in 1..Issued /\ Timely(y) BY <2>1, <2>2
    <3>3. /\ y.now # None => y.now <= clock
          /\ sessions'[y.token] # None =>
                /\ sessions'[y.token].root = y.old.root
                /\ y.now # None => sessions'[y.token].rotWindow <= Window(y.now)
      BY <1>12, <3>2 DEF Timely
    <3> QED BY <3>1, <3>2, <3>3 DEF Timely
  <2> QED BY <2>2 DEF RequestsTimely
<1>18. RotationsCounted'
  <2> DEFINE v == <<h.root, w>>
             P == Nat \X Nat
  <2>1. rotations \in Seq(P) /\ v \in P /\ rotations' = Append(rotations, v)
    BY <1>1, <1>6, <1>13 DEF MeterInv, RotationsCounted
  <2> HIDE DEF P
  <2>2. \A u : /\ Cardinality(At(rotations, u)) \in Nat
               /\ Cardinality(At(rotations', u)) \in Nat
               /\ Cardinality(At(rotations', u)) <= Cardinality(At(rotations, u)) + 1
               /\ u # v => At(rotations', u) = At(rotations, u)
    BY <2>1, AtLonger
  <2>3. /\ rotations' \in Seq(P) /\ Len(rotations') = Len(rotations) + 1 /\ Len(rotations) \in Nat
        /\ rotations'[Len(rotations) + 1] = v /\ \A j \in 1..Len(rotations) : rotations'[j] = rotations[j]
    BY <2>1
  <2>4. 1..Len(rotations') = 1..Len(rotations) \cup {Len(rotations) + 1} BY <2>3
  <2>5. /\ \A j \in 1..Len(rotations) : rotations[j][1] <= Issued
        /\ \A u \in P : Cardinality(At(rotations, u)) <= Rotations
        /\ Counted(sessions[k])
    BY <1>2 DEF MeterInv, RotationsCounted, P
  <2>6. v[1] = h.root /\ v[2] = w OBVIOUS
  <2>6a. \A j \in 1..Len(rotations) : rotations[j][1] \in Nat /\ rotations[j][2] \in Nat BY <2>1 DEF P
  <2> HIDE DEF v
  <2>7. Cardinality(At(rotations', v)) <= h.rotCount
    <3>1. CASE w > sessions[k].rotWindow
      <4>1. \A j \in 1..Len(rotations) : rotations[j] # v
        <5>1. sessions[k].rotWindow \in Nat BY <1>4 DEF Record
        <5> QED BY <1>13, <2>5, <2>6, <2>6a, <3>1, <5>1 DEF Counted
      <4>2. At(rotations, v) = {} BY <4>1 DEF At
      <4>3. Cardinality(At(rotations, v)) = 0 BY <4>2, FS_EmptySet
      <4> QED BY <1>6, <2>2, <3>1, <4>3
    <3>2. CASE ~(w > sessions[k].rotWindow)
      <4>1. sessions[k].rotWindow \in Nat /\ sessions[k].rotCount \in Nat BY <1>4 DEF Record
      <4>2. sessions[k].rotWindow = w BY <1>5, <1>6, <3>2, <4>1
      <4>3. Cardinality(At(rotations, v)) <= sessions[k].rotCount BY <1>13, <2>5, <4>2 DEF Counted, v
      <4> QED BY <1>6, <2>2, <3>2, <4>1, <4>3
    <3> QED BY <3>1, <3>2
  <2>8. \A u \in P : Cardinality(At(rotations', u)) <= Rotations
    <3>1. h.rotCount \in Nat /\ Rotations \in Nat BY <1>7, SessionsAssumption DEF Record
    <3>2. Cardinality(At(rotations', v)) <= Rotations
      <4>1. h.rotCount <= Rotations BY <1>1
      <4>2. Cardinality(At(rotations', v)) \in Nat BY <2>2
      <4> QED BY <2>7, <3>1, <4>1, <4>2
    <3>3. \A u \in P : u # v => Cardinality(At(rotations', u)) <= Rotations BY <2>2, <2>5
    <3> QED BY <3>2, <3>3
  <2>9. \A j \in 1..Len(rotations') : rotations'[j][1] <= Issued'
    <3>1. \A j \in 1..Len(rotations) : rotations[j][1] <= n BY <1>4, <2>5, <2>6a DEF n
    <3> QED BY <1>9, <1>10, <1>13, <2>3, <2>4, <2>6, <3>1
  <2>10. /\ \A j \in 1..Len(rotations') : rotations'[j][1] = h.root => rotations'[j][2] <= h.rotWindow
    <3>1. \A j \in 1..Len(rotations) : rotations[j][1] = h.root => rotations[j][2] <= sessions[k].rotWindow
      BY <1>13, <2>5 DEF Counted
    <3>2. sessions[k].rotWindow \in Nat /\ sessions[k].rotWindow <= w BY <1>4, <1>5, <1>6 DEF Record
    <3>3. \A j \in 1..Len(rotations) : rotations[j][1] = h.root => rotations[j][2] <= w BY <2>6a, <3>1, <3>2
    <3> QED BY <1>6, <2>3, <2>4, <2>6, <3>3
  <2>11. ASSUME NEW t \in 1..Issued, sessions'[t] # None, ~sessions'[t].revoked
         PROVE  LET s == sessions'[t] IN
                /\ \A j \in 1..Len(rotations') : rotations'[j][1] = s.root => rotations'[j][2] <= s.rotWindow
                /\ Cardinality(At(rotations', <<s.root, s.rotWindow>>)) <= s.rotCount
    <3>1. sessions'[t] = sessions[t] /\ sessions[t].root # h.root BY <1>15, <2>11
    <3>2. Counted(sessions[t]) BY <2>11, <3>1 DEF MeterInv, RotationsCounted
    <3>3. <<sessions[t].root, sessions[t].rotWindow>> # v BY <3>1 DEF v
    <3>4. At(rotations', <<sessions[t].root, sessions[t].rotWindow>>) = At(rotations, <<sessions[t].root, sessions[t].rotWindow>>)
      BY <2>2, <3>3
    <3>5. \A j \in 1..Len(rotations') : rotations'[j][1] = sessions[t].root => rotations'[j][2] <= sessions[t].rotWindow
      BY <2>3, <2>4, <2>6, <3>1, <3>2 DEF Counted
    <3> QED BY <3>1, <3>2, <3>4, <3>5 DEF Counted
  <2>12. (\A t \in 1..Issued : sessions[t] # None /\ ~sessions[t].revoked => Counted(sessions[t]))'
    <3>1. Cardinality(At(rotations', <<h.root, h.rotWindow>>)) <= h.rotCount BY <1>6, <2>7 DEF v
    <3> QED BY <1>9, <1>10, <2>10, <2>11, <3>1 DEF Counted
  <2> QED BY <2>3, <2>8, <2>9, <2>12 DEF RotationsCounted, P
<1>19. CreationsCounted'
  <2>1. sessions'[n].root # n BY <1>9, <1>10, <1>13
  <2>2. \A x : Born(x)' \subseteq Born(x) BY <1>9, <1>10, <1>12, <2>1 DEF Born
  <2> QED BY <1>1, <2>2, FewerBorn
<1> QED BY <1>14, <1>16, <1>17, <1>18, <1>19 DEF MeterInv

\* Every step keeps the budgets.
LEMMA NextMeter == MeterInv /\ Inv' /\ [Next]_vars => MeterInv'
<1> SUFFICES ASSUME MeterInv, Inv', [Next]_vars PROVE MeterInv' OBVIOUS
<1>1. ASSUME NEW now \in 0..MaxClock, Create(now) PROVE MeterInv' BY <1>1, CreateMeter
<1>2. ASSUME NEW r \in Request, NEW t \in 1..Issued, NEW kind \in {"login", "logout"}, Load(r, t, kind)
      PROVE  MeterInv'
  BY <1>2, LoadMeter
<1>3. ASSUME NEW r \in Request, NEW uid \in Uid, NEW until \in 1..MaxClock, Verified(r, uid, until)
      PROVE  MeterInv'
  BY <1>3, VerifiedMeter
<1>4. ASSUME NEW r \in Request, LogoutClock(r) \/ Rotate(r) \/ Fail(r) PROVE MeterInv'
  BY <1>4, LogoutClockMeter, RotateMeter, FailMeter
<1>5. ASSUME NEW t \in 1..Issued, Reap(t) PROVE MeterInv' BY <1>5, ReapMeter
<1>6. CASE Tick BY <1>6, TickMeter
<1>7. CASE UNCHANGED vars
  <2>1. \A w : Born(w)' = Born(w) BY <1>7 DEF vars, Born, Issued
  <2>2. CreationsCounted' BY <1>7, <2>1 DEF vars, MeterInv, CreationsCounted, LetThrough
  <2>3. Rooted' /\ RootHeldOnce' BY <1>7 DEF vars, MeterInv, Rooted, RootHeldOnce, Issued
  <2>4. RequestsTimely' BY <1>7 DEF vars, MeterInv, RequestsTimely, Timely
  <2>5. RotationsCounted' BY <1>7 DEF vars, MeterInv, RotationsCounted, Counted, Issued
  <2> QED BY <2>2, <2>3, <2>4, <2>5 DEF MeterInv
<1> QED BY <1>1, <1>2, <1>3, <1>4, <1>5, <1>6, <1>7 DEF Next

\* Neither making sessions nor rotating one escapes its budget, however requests
\* overlap, commit late and replace the record that counts.
THEOREM SessionBudgetsHold == Spec => []BudgetsHold
<1>1. Init => MeterInv BY InitMeter
<1>2. MeterInv /\ [Next]_vars => MeterInv' BY NextMeter, NextInv DEF MeterInv
<1>3. MeterInv => BudgetsHold
  <2> SUFFICES ASSUME MeterInv PROVE BudgetsHold OBVIOUS
  <2>1. RotationBudget
    <3> DEFINE P == Nat \X Nat
    <3>1. rotations \in Seq(P) /\ \A v \in P : Cardinality(At(rotations, v)) <= Rotations
      BY DEF MeterInv, RotationsCounted
    <3> HIDE DEF P
    <3>2. \A i \in 1..Len(rotations) : rotations[i] \in P BY <3>1
    <3> QED BY <3>1, <3>2 DEF RotationBudget, At
  <2>2. CreationBudget
    <3>1. Window(MaxClock) \in Nat BY WindowType, SessionsAssumption
    <3>2. \A w \in 0..Window(MaxClock) : w \in Nat BY <3>1
    <3> QED BY <3>2 DEF CreationBudget, MeterInv, CreationsCounted
  <2> QED BY <2>1, <2>2 DEF BudgetsHold
<1> QED BY <1>1, <1>2, <1>3, PTL DEF Spec

-----------------------------------------------------------------------------
(* Project passwords *)

Project == [live : BOOLEAN, rev : Nat, policy : Nat, password : Unlocking!Password \cup {None}]
Change  == [step : {"read", "hash", "commit"}, at : Replica, secret : Secret \cup {None}, rev : Nat,
            policy : Nat, password : Unlocking!Password \cup {None}]
Attempt == [step : {"read", "hash", "commit"}, at : Replica, secret : Secret, policy : Nat,
            password : Unlocking!Password]
Grant   == [session : Visitor, policy : Nat, secret : Secret, expires : Nat]

Minutes == 0..(MaxClock \div Minute)
Present == time \div Minute

UnlockShape ==
    /\ time \in 0..MaxClock /\ project \in Project
    /\ files \in [Replica -> SUBSET Unlocking!Password] /\ lost \subseteq Replica /\ active \subseteq Visitor
    /\ changes \in [Tab -> Change \cup {None}] /\ unlocks \in [Visitor -> Attempt \cup {None}]
    /\ budgets \in [Unlocking!Budget -> [count : Nat, expires : Nat]] /\ entries \subseteq Grant
    /\ attempts \in [Unlocking!Budget -> [Minutes -> Nat]]

\* Hashers hold at most the slots there are.
SlotsKept ==
    \A p \in Replica : IsFiniteSet(Unlocking!Hashing(p)) /\ Cardinality(Unlocking!Hashing(p)) <= Workers

\* A record is on the disk of the primary that made it, unless that disk is gone.
Kept(pw) == pw.at \in lost \/ pw \in files[pw.at]

PasswordKept == project.password # None => Kept(project.password)

\* A change hashes something, and refers to a record only when it is stored.
ChangesStored ==
    \A t \in Tab : changes[t] # None =>
        /\ changes[t].step # "commit" => changes[t].secret # None
        /\ changes[t].password # None => Kept(changes[t].password)

\* Only attempts with the right password get to their second transaction.
AttemptsVerified ==
    \A v \in Visitor : unlocks[v] # None /\ unlocks[v].step = "commit" =>
        unlocks[v].secret = unlocks[v].password.secret

\* Grants are of an earlier revision, or were given for the present password.
GrantsOfPolicy ==
    /\ project.policy >= 1
    /\ \A g \in entries :
        /\ g.policy >= 1 /\ g.policy <= project.policy
        /\ g.policy = project.policy /\ project.password # None => g.secret = project.password.secret

\* A window ends with a minute that has begun; the record counts the present minute's attempts.
BudgetsCount ==
    \A b \in Unlocking!Budget :
        /\ \E k \in 0..(Present + 1) : budgets[b].expires = k * Minute
        /\ Unlocking!Count(b) = attempts[b][Present]
        /\ budgets[b].count <= Unlocking!Limit(b)
        /\ \A m \in Minutes : m > Present => attempts[b][m] = 0

UnlockInv ==
    /\ UnlockShape /\ SlotsKept /\ PasswordKept /\ ChangesStored /\ AttemptsVerified /\ GrantsOfPolicy
    /\ BudgetsCount /\ Unlocking!BudgetKept

-----------------------------------------------------------------------------
(* Unlock counts with the Cardinality of its own instance of FiniteSets. *)
LEMMA SameCardinality == ASSUME NEW S PROVE Unlocking!Cardinality(S) = Cardinality(S)
  BY DEF Cardinality, Unlocking!Cardinality

-----------------------------------------------------------------------------
(* Limits *)

\* The larger of two numbers.
LEMMA MaxOfTwo ==
  ASSUME NEW a \in Nat, NEW b \in Nat
  PROVE  Unlocking!Max({a, b}) = IF a >= b THEN a ELSE b
<1>1. \E x \in {a, b} : \A y \in {a, b} : x >= y OBVIOUS
<1>2. Unlocking!Max({a, b}) \in {a, b} /\ \A y \in {a, b} : Unlocking!Max({a, b}) >= y BY <1>1 DEF Unlocking!Max
<1> QED BY <1>2

-----------------------------------------------------------------------------
(* What a step leaves alone *)

\* Budgets depend on the clock, the records and the attempts only.
LEMMA SameBudgets ==
  ASSUME UnlockInv, UNCHANGED <<time, budgets, attempts>>
  PROVE  BudgetsCount' /\ Unlocking!BudgetKept'
<1>1. \A b \in Unlocking!Budget : Unlocking!Count(b)' = Unlocking!Count(b) /\ Unlocking!Limit(b)' = Unlocking!Limit(b)
  BY DEF Unlocking!Count, Unlocking!Limit
<1>2. Present' = Present BY DEF Present
<1>3. BudgetsCount' BY <1>1, <1>2 DEF UnlockInv, BudgetsCount
<1> QED BY <1>3 DEF UnlockInv, Unlocking!BudgetKept

\* Nobody takes a slot of p.
LEMMA FewerSlotsAt ==
  ASSUME Unlocking!UnlockAssumption, UnlockInv, NEW p \in Replica,
         Unlocking!Hashing(p)' \subseteq Unlocking!Hashing(p)
  PROVE  IsFiniteSet(Unlocking!Hashing(p)') /\ Cardinality(Unlocking!Hashing(p)') <= Workers
<1> DEFINE H == Unlocking!Hashing(p)
           I == Unlocking!Hashing(p)'
<1>1. IsFiniteSet(H) /\ Cardinality(H) <= Workers /\ I \subseteq H BY DEF UnlockInv, SlotsKept
<1> HIDE DEF H, I
<1>2. IsFiniteSet(I) /\ Cardinality(I) <= Cardinality(H) BY <1>1, FS_Subset
<1>3. Cardinality(H) \in Nat /\ Cardinality(I) \in Nat BY <1>1, <1>2, FS_CardinalityType
<1>4. IsFiniteSet(I) /\ Cardinality(I) <= Workers BY <1>1, <1>2, <1>3 DEF Unlocking!UnlockAssumption
<1> QED BY <1>4 DEF I

\* Nobody takes a slot.
LEMMA FewerSlots ==
  ASSUME Unlocking!UnlockAssumption, UnlockInv,
         \A p \in Replica : Unlocking!Hashing(p)' \subseteq Unlocking!Hashing(p)
  PROVE  SlotsKept'
BY FewerSlotsAt DEF SlotsKept

\* Somebody takes a slot of q that is free.
LEMMA OneMoreSlot ==
  ASSUME Unlocking!UnlockAssumption, UnlockInv, NEW q \in Replica, NEW x,
         Unlocking!WorkerFree(q), Unlocking!Hashing(q)' \subseteq Unlocking!Hashing(q) \cup {x},
         \A p \in Replica : p # q => Unlocking!Hashing(p)' \subseteq Unlocking!Hashing(p)
  PROVE  SlotsKept'
<1> DEFINE H == Unlocking!Hashing(q)
           I == Unlocking!Hashing(q)'
<1>1. IsFiniteSet(H) /\ Cardinality(H) < Workers /\ I \subseteq H \cup {x}
  BY SameCardinality DEF UnlockInv, SlotsKept, Unlocking!WorkerFree
<1> HIDE DEF H, I
<1>2. Cardinality(H) \in Nat BY <1>1, FS_CardinalityType
<1>3. IsFiniteSet(H \cup {x}) /\ Cardinality(H \cup {x}) <= Cardinality(H) + 1
  <2>1. CASE x \in H
    <3>1. H \cup {x} = H BY <2>1
    <3>2. Cardinality(H) <= Cardinality(H) + 1 BY <1>2
    <3> QED BY <1>1, <3>1, <3>2
  <2>2. CASE x \notin H
    <3>1. IsFiniteSet(H \cup {x}) /\ Cardinality(H \cup {x}) = Cardinality(H) + 1 BY <1>1, <2>2, FS_AddElement
    <3> QED BY <1>2, <3>1
  <2> QED BY <2>1, <2>2
<1>4. IsFiniteSet(I) /\ Cardinality(I) <= Cardinality(H \cup {x}) BY <1>1, <1>3, FS_Subset
<1>5. Cardinality(I) \in Nat /\ Cardinality(H \cup {x}) \in Nat BY <1>3, <1>4, FS_CardinalityType
<1>6. IsFiniteSet(I) /\ Cardinality(I) <= Workers
  BY <1>1, <1>2, <1>3, <1>4, <1>5 DEF Unlocking!UnlockAssumption
<1> QED BY <1>6, FewerSlotsAt DEF I, SlotsKept

\* Tabs hash as before if the changes at that step are the same.
LEMMA ChangeSlots ==
  ASSUME UnlockShape, NEW t \in Tab, NEW c \in Change \cup {None},
         changes' = [changes EXCEPT ![t] = c], unlocks' = unlocks, NEW p \in Replica
  PROVE  /\ (c # None => c.step # "hash" \/ c.at # p) => Unlocking!Hashing(p)' \subseteq Unlocking!Hashing(p)
         /\ Unlocking!Hashing(p)' \subseteq Unlocking!Hashing(p) \cup {t}
<1>1. changes'[t] = c /\ \A x \in Tab : x # t => changes'[x] = changes[x] BY DEF UnlockShape
<1> QED BY <1>1 DEF Unlocking!Hashing

\* Visitors hash as before if the attempts at that step are the same.
LEMMA AttemptSlots ==
  ASSUME UnlockShape, NEW v \in Visitor, NEW u \in Attempt \cup {None},
         unlocks' = [unlocks EXCEPT ![v] = u], changes' = changes, NEW p \in Replica
  PROVE  /\ (u # None => u.step # "hash" \/ u.at # p) => Unlocking!Hashing(p)' \subseteq Unlocking!Hashing(p)
         /\ Unlocking!Hashing(p)' \subseteq Unlocking!Hashing(p) \cup {v}
<1>1. unlocks'[v] = u /\ \A x \in Visitor : x # v => unlocks'[x] = unlocks[x] BY DEF UnlockShape
<1> QED BY <1>1 DEF Unlocking!Hashing

-----------------------------------------------------------------------------
(* The owner's changes *)

\* A change goes on to its next step, or ends.
LEMMA ChangeInv ==
  ASSUME UnlockInv, NEW t \in Tab, NEW c \in Change \cup {None}, SlotsKept',
         c # None => /\ c.step # "commit" => c.secret # None
                     /\ c.password # None => c.password.at \in lost' \/ c.password \in files'[c.password.at],
         changes' = [changes EXCEPT ![t] = c],
         files' \in [Replica -> SUBSET Unlocking!Password],
         \A pw \in Unlocking!Password : Kept(pw) => Kept(pw)',
         UNCHANGED <<time, project, lost, unlocks, active, budgets, entries, attempts>>
  PROVE  UnlockInv'
<1>1. /\ changes' \in [Tab -> Change \cup {None}] /\ changes'[t] = c
      /\ \A x \in Tab : x # t => changes'[x] = changes[x]
  BY DEF UnlockInv, UnlockShape
<1>2. UnlockShape' BY <1>1 DEF UnlockInv, UnlockShape
<1>3. PasswordKept' BY DEF UnlockInv, UnlockShape, Project, PasswordKept
<1>4. ChangesStored'
  <2>1. \A x \in Tab : changes[x] # None => changes[x].password \in Unlocking!Password \cup {None}
    BY DEF UnlockInv, UnlockShape, Change
  <2> SUFFICES ASSUME NEW x \in Tab, changes'[x] # None
               PROVE  /\ changes'[x].step # "commit" => changes'[x].secret # None
                      /\ changes'[x].password # None =>
                            changes'[x].password.at \in lost' \/ changes'[x].password \in files'[changes'[x].password.at]
    BY DEF ChangesStored, Kept
  <2>2. CASE x = t BY <1>1, <2>2
  <2>3. CASE x # t
    <3>1. changes'[x] = changes[x] BY <1>1, <2>3
    <3>2. changes[x].password # None => Kept(changes[x].password) BY <3>1 DEF UnlockInv, ChangesStored
    <3>3. changes[x].password # None => changes[x].password \in Unlocking!Password BY <2>1, <3>1
    <3>4. changes[x].step # "commit" => changes[x].secret # None BY <3>1 DEF UnlockInv, ChangesStored
    <3>5. \A pw \in Unlocking!Password : Kept(pw) => pw.at \in lost' \/ pw \in files'[pw.at] BY DEF Kept
    <3> QED BY <3>1, <3>2, <3>3, <3>4, <3>5
  <2> QED BY <2>2, <2>3
<1>5. AttemptsVerified' /\ GrantsOfPolicy' BY DEF UnlockInv, AttemptsVerified, GrantsOfPolicy
<1>6. BudgetsCount' /\ Unlocking!BudgetKept' BY SameBudgets
<1> QED BY <1>2, <1>3, <1>4, <1>5, <1>6 DEF UnlockInv

\* A change begins with what it read of the project.
LEMMA ChangeBeginInv ==
  ASSUME Unlocking!UnlockAssumption, UnlockInv,
         NEW t \in Tab, NEW secret \in Secret \cup {None}, NEW q \in Replica,
         Unlocking!ChangeBegin(t, secret, q)
  PROVE  UnlockInv'
<1> DEFINE c == [step |-> IF secret = None THEN "commit" ELSE "read", at |-> q, secret |-> secret,
                 rev |-> project.rev, policy |-> project.policy, password |-> None]
<1>1. c \in Change BY DEF UnlockInv, UnlockShape, Project, Change
<1>2. c.step # "hash" /\ (c.step # "commit" => c.secret # None) /\ c.password = None OBVIOUS
<1>3. /\ changes' = [changes EXCEPT ![t] = c]
      /\ UNCHANGED <<time, project, files, lost, unlocks, active, budgets, entries, attempts>>
  BY DEF Unlocking!ChangeBegin
<1> HIDE DEF c
<1>4. SlotsKept' BY <1>1, <1>2, <1>3, ChangeSlots, FewerSlots DEF UnlockInv
<1>5. files' \in [Replica -> SUBSET Unlocking!Password] /\ \A pw \in Unlocking!Password : Kept(pw) => Kept(pw)'
  BY <1>3 DEF UnlockInv, UnlockShape, Kept
<1> QED BY <1>1, <1>2, <1>3, <1>4, <1>5, ChangeInv

\* A change hashes when a slot is free.
LEMMA ChangeHashInv ==
  ASSUME Unlocking!UnlockAssumption, UnlockInv, NEW t \in Tab, Unlocking!ChangeHash(t)
  PROVE  UnlockInv'
<1> DEFINE c == [changes[t] EXCEPT !.step = "hash"]
<1>1. changes[t] \in Change /\ changes[t].step = "read" BY DEF Unlocking!ChangeHash, UnlockInv, UnlockShape
<1>2. /\ c \in Change /\ c.secret = changes[t].secret /\ c.password = changes[t].password
      /\ c.at = changes[t].at /\ c.at \in Replica
  BY <1>1 DEF Change
<1>3. /\ changes' = [changes EXCEPT ![t] = c]
      /\ UNCHANGED <<time, project, files, lost, unlocks, active, budgets, entries, attempts>>
  BY DEF Unlocking!ChangeHash, UnlockInv, UnlockShape
<1> HIDE DEF c
<1>4. SlotsKept'
  <2>1. Unlocking!WorkerFree(c.at) /\ UnlockShape BY <1>2 DEF UnlockInv, Unlocking!ChangeHash
  <2>2. \A p \in Replica : /\ p # c.at => Unlocking!Hashing(p)' \subseteq Unlocking!Hashing(p)
                           /\ Unlocking!Hashing(p)' \subseteq Unlocking!Hashing(p) \cup {t}
    BY <1>2, <1>3, <2>1, ChangeSlots
  <2> QED BY <1>2, <2>1, <2>2, OneMoreSlot
<1>5. c.secret # None /\ (c.password # None => c.password.at \in lost' \/ c.password \in files'[c.password.at])
  BY <1>1, <1>2, <1>3 DEF UnlockInv, ChangesStored, Unlocking!ChangeHash, Kept
<1>6. files' \in [Replica -> SUBSET Unlocking!Password] /\ \A pw \in Unlocking!Password : Kept(pw) => Kept(pw)'
  BY <1>3 DEF UnlockInv, UnlockShape, Kept
<1> QED BY <1>2, <1>3, <1>4, <1>5, <1>6, ChangeInv

\* password.Store has returned when the record is first referred to.
LEMMA ChangeStoreInv ==
  ASSUME Unlocking!UnlockAssumption, UnlockInv, NEW t \in Tab, Unlocking!ChangeStore(t)
  PROVE  UnlockInv'
<1> DEFINE c == [changes[t] EXCEPT !.step = "commit", !.password = Unlocking!Prepared(t)]
<1>1. changes[t] \in Change /\ changes[t].step = "hash" BY DEF Unlocking!ChangeStore, UnlockInv, UnlockShape
<1>2. changes[t].secret # None BY <1>1 DEF Unlocking!ChangeStore, UnlockInv, ChangesStored
<1>3. Unlocking!Prepared(t) \in Unlocking!Password /\ Unlocking!Prepared(t).at = changes[t].at
  BY <1>1, <1>2 DEF Unlocking!Prepared, Unlocking!Password, Change
<1>4. c \in Change /\ c.step = "commit" /\ c.password = Unlocking!Prepared(t) BY <1>1, <1>3 DEF Change
<1>5. /\ changes' = [changes EXCEPT ![t] = c] /\ files' = Unlocking!Stored(changes[t].at, Unlocking!Prepared(t))
      /\ UNCHANGED <<time, project, lost, unlocks, active, budgets, entries, attempts>>
  BY DEF Unlocking!ChangeStore, UnlockInv, UnlockShape
<1> HIDE DEF c
<1>6. SlotsKept' BY <1>4, <1>5, ChangeSlots, FewerSlots DEF UnlockInv
<1>7. /\ files' \in [Replica -> SUBSET Unlocking!Password]
      /\ \A p \in Replica : files[p] \subseteq files'[p]
      /\ Unlocking!Prepared(t) \in files'[changes[t].at]
  <2>1. changes[t].at \in Replica BY <1>1 DEF Change
  <2> QED BY <1>3, <1>5, <2>1 DEF UnlockInv, UnlockShape, Unlocking!Stored
<1>8. \A pw \in Unlocking!Password : Kept(pw) => Kept(pw)' BY <1>5, <1>7 DEF Kept, Unlocking!Password
<1>9. c.password \in files'[c.password.at] BY <1>3, <1>4, <1>7
<1> QED BY <1>4, <1>5, <1>6, <1>7, <1>8, <1>9, ChangeInv

\* A change that is refused is forgotten.
LEMMA ChangeFailInv ==
  ASSUME Unlocking!UnlockAssumption, UnlockInv, NEW t \in Tab, Unlocking!ChangeFail(t)
  PROVE  UnlockInv'
<1>1. SlotsKept' BY ChangeSlots, FewerSlots DEF UnlockInv, Unlocking!ChangeFail
<1>2. files' \in [Replica -> SUBSET Unlocking!Password] /\ \A pw \in Unlocking!Password : Kept(pw) => Kept(pw)'
  BY DEF UnlockInv, UnlockShape, Kept, Unlocking!ChangeFail
<1> QED BY <1>1, <1>2, ChangeInv DEF Unlocking!ChangeFail

\* The project changes: with its password changes its policy revision.
LEMMA ProjectInv ==
  ASSUME Unlocking!UnlockAssumption, UnlockInv, NEW p \in Project, project' = p,
         \/ p.policy > project.policy
         \/ p.policy = project.policy /\ p.password = project.password,
         p.password # None => Kept(p.password),
         \A t \in Tab : changes'[t] \in {changes[t], None},
         changes' \in [Tab -> Change \cup {None}],
         UNCHANGED <<time, files, lost, unlocks, active, budgets, entries, attempts>>
  PROVE  UnlockInv'
<1>1. UnlockShape' BY DEF UnlockInv, UnlockShape
<1>2. PasswordKept' BY DEF PasswordKept, Kept
<1>3. ChangesStored' BY DEF UnlockInv, ChangesStored, Kept
<1>4. AttemptsVerified' BY DEF UnlockInv, AttemptsVerified
<1>5. GrantsOfPolicy'
  <2>1. p.policy \in Nat /\ project.policy \in Nat /\ \A g \in entries : g.policy \in Nat
    BY DEF UnlockInv, UnlockShape, Project, Grant
  <2> QED BY <2>1 DEF UnlockInv, GrantsOfPolicy
<1>6. BudgetsCount' /\ Unlocking!BudgetKept' BY SameBudgets
<1>7. SlotsKept'
  <2>1. \A q \in Replica : Unlocking!Hashing(q)' \subseteq Unlocking!Hashing(q) BY DEF Unlocking!Hashing
  <2> QED BY <2>1, FewerSlots
<1> QED BY <1>1, <1>2, <1>3, <1>4, <1>5, <1>6, <1>7 DEF UnlockInv

\* SetPrivacy selects a stored record, or none, under the next policy revision.
LEMMA SetPrivacyInv ==
  ASSUME Unlocking!UnlockAssumption, UnlockInv, NEW t \in Tab, Unlocking!SetPrivacy(t)
  PROVE  UnlockInv'
<1>1. changes[t] \in Change /\ project \in Project BY DEF Unlocking!SetPrivacy, UnlockInv, UnlockShape
<1> DEFINE p == [live |-> project.live, rev |-> project.rev + 1, policy |-> project.policy + 1,
                 password |-> changes[t].password]
<1>2. p \in Project /\ p.policy = project.policy + 1 /\ p.password = changes[t].password
  <2>1. /\ project.live \in BOOLEAN /\ project.rev + 1 \in Nat /\ project.policy + 1 \in Nat
        /\ changes[t].password \in Unlocking!Password \cup {None}
    BY <1>1 DEF Project, Change
  <2> QED BY <2>1 DEF Project
<1>3. p.policy > project.policy BY <1>1, <1>2 DEF Project
<1>4. p.password # None => Kept(p.password) BY <1>2 DEF Unlocking!SetPrivacy, UnlockInv, ChangesStored
<1>5. /\ project' = p /\ changes' = [changes EXCEPT ![t] = None]
      /\ UNCHANGED <<time, files, lost, unlocks, active, budgets, entries, attempts>>
  BY <1>1 DEF Unlocking!SetPrivacy, Project
<1> HIDE DEF p
<1>6. changes' \in [Tab -> Change \cup {None}] /\ \A x \in Tab : changes'[x] \in {changes[x], None}
  BY <1>5 DEF UnlockInv, UnlockShape
<1> QED BY <1>2, <1>3, <1>4, <1>5, <1>6, ProjectInv

\* Other changes of the owner keep the password.
LEMMA OtherChangeInv ==
  ASSUME Unlocking!UnlockAssumption, UnlockInv, NEW policy \in BOOLEAN, Unlocking!OtherChange(policy)
  PROVE  UnlockInv'
<1>1. project \in Project BY DEF UnlockInv, UnlockShape
<1> DEFINE y == IF policy THEN project.policy + 1 ELSE project.policy
           p == [live |-> project.live, rev |-> project.rev + 1, policy |-> y,
                 password |-> project.password]
<1>2. p \in Project /\ p.password = project.password /\ p.policy = y
  <2>1. /\ project.live \in BOOLEAN /\ project.rev + 1 \in Nat /\ y \in Nat
        /\ project.password \in Unlocking!Password \cup {None}
    BY <1>1 DEF Project
  <2> HIDE DEF y
  <2> QED BY <2>1 DEF Project
<1>3. p.policy > project.policy \/ p.policy = project.policy BY <1>1, <1>2 DEF Project
<1>4. p.password # None => Kept(p.password) BY <1>2 DEF UnlockInv, PasswordKept
<1>5. /\ project' = p /\ changes' = changes
      /\ UNCHANGED <<time, files, lost, unlocks, active, budgets, entries, attempts>>
  BY <1>1 DEF Unlocking!OtherChange, Project
<1> HIDE DEF p
<1>6. changes' \in [Tab -> Change \cup {None}] /\ \A x \in Tab : changes'[x] \in {changes[x], None}
  BY <1>5 DEF UnlockInv, UnlockShape
<1> QED BY <1>2, <1>3, <1>4, <1>5, <1>6, ProjectInv

\* The end of a project is a change of policy.
LEMMA EndInv == ASSUME Unlocking!UnlockAssumption, UnlockInv, Unlocking!End PROVE UnlockInv'
<1>1. project \in Project BY DEF UnlockInv, UnlockShape
<1> DEFINE p == [live |-> FALSE, rev |-> project.rev + 1, policy |-> project.policy + 1,
                 password |-> project.password]
<1>2. p \in Project /\ p.password = project.password /\ p.policy = project.policy + 1
  <2>1. project.rev + 1 \in Nat /\ project.policy + 1 \in Nat /\ project.password \in Unlocking!Password \cup {None}
    BY <1>1 DEF Project
  <2> QED BY <2>1 DEF Project
<1>3. p.policy > project.policy BY <1>1, <1>2 DEF Project
<1>4. p.password # None => Kept(p.password) BY <1>2 DEF UnlockInv, PasswordKept
<1>5. /\ project' = p /\ changes' = changes
      /\ UNCHANGED <<time, files, lost, unlocks, active, budgets, entries, attempts>>
  BY <1>1 DEF Unlocking!End, Project
<1> HIDE DEF p
<1>6. changes' \in [Tab -> Change \cup {None}] /\ \A x \in Tab : changes'[x] \in {changes[x], None}
  BY <1>5 DEF UnlockInv, UnlockShape
<1> QED BY <1>2, <1>3, <1>4, <1>5, <1>6, ProjectInv

-----------------------------------------------------------------------------
(* The visitors' attempts *)

\* An attempt goes on to its next step, or ends.
LEMMA AttemptInv ==
  ASSUME UnlockInv, NEW v \in Visitor, NEW u \in Attempt \cup {None}, SlotsKept',
         u # None /\ u.step = "commit" => u.secret = u.password.secret,
         unlocks' = [unlocks EXCEPT ![v] = u],
         UNCHANGED <<time, project, files, lost, changes, active>>,
         UnlockShape', GrantsOfPolicy', BudgetsCount' /\ Unlocking!BudgetKept'
  PROVE  UnlockInv'
<1>1. unlocks'[v] = u /\ \A x \in Visitor : x # v => unlocks'[x] = unlocks[x] BY DEF UnlockInv, UnlockShape
<1>2. AttemptsVerified' BY <1>1 DEF UnlockInv, AttemptsVerified
<1>3. PasswordKept' /\ ChangesStored' BY DEF UnlockInv, PasswordKept, ChangesStored, Kept
<1> QED BY <1>2, <1>3 DEF UnlockInv

\* Steps of an attempt that give no grant and charge no budget.
LEMMA QuietAttemptInv ==
  ASSUME UnlockInv, NEW v \in Visitor, NEW u \in Attempt \cup {None}, SlotsKept',
         u # None /\ u.step = "commit" => u.secret = u.password.secret,
         unlocks' = [unlocks EXCEPT ![v] = u],
         UNCHANGED <<time, project, files, lost, changes, active, budgets, entries, attempts>>
  PROVE  UnlockInv'
<1>1. unlocks' \in [Visitor -> Attempt \cup {None}] BY DEF UnlockInv, UnlockShape
<1>2. UnlockShape' BY <1>1 DEF UnlockInv, UnlockShape
<1>3. GrantsOfPolicy' BY DEF UnlockInv, GrantsOfPolicy
<1>4. BudgetsCount' /\ Unlocking!BudgetKept' BY SameBudgets
<1> QED BY <1>2, <1>3, <1>4, AttemptInv

\* An attempt hashes when a slot is free.
LEMMA VerifyHashInv ==
  ASSUME Unlocking!UnlockAssumption, UnlockInv, NEW v \in Visitor, Unlocking!VerifyHash(v)
  PROVE  UnlockInv'
<1> DEFINE u == [unlocks[v] EXCEPT !.step = "hash"]
<1>1. unlocks[v] \in Attempt BY DEF Unlocking!VerifyHash, UnlockInv, UnlockShape
<1>2. u \in Attempt /\ u.step = "hash" /\ u.at = unlocks[v].at /\ u.at \in Replica BY <1>1 DEF Attempt
<1>3. /\ unlocks' = [unlocks EXCEPT ![v] = u]
      /\ UNCHANGED <<time, project, files, lost, changes, active, budgets, entries, attempts>>
  BY DEF Unlocking!VerifyHash, UnlockInv, UnlockShape
<1> HIDE DEF u
<1>4. SlotsKept'
  <2>1. Unlocking!WorkerFree(u.at) /\ UnlockShape BY <1>2 DEF UnlockInv, Unlocking!VerifyHash
  <2>2. \A p \in Replica : /\ p # u.at => Unlocking!Hashing(p)' \subseteq Unlocking!Hashing(p)
                           /\ Unlocking!Hashing(p)' \subseteq Unlocking!Hashing(p) \cup {v}
    BY <1>2, <1>3, <2>1, AttemptSlots
  <2> QED BY <1>2, <2>1, <2>2, OneMoreSlot
<1> QED BY <1>2, <1>3, <1>4, QuietAttemptInv

\* Only the right password goes on.
LEMMA VerifyInv ==
  ASSUME Unlocking!UnlockAssumption, UnlockInv, NEW v \in Visitor, Unlocking!Verified(v)
  PROVE  UnlockInv'
<1>1. unlocks[v] \in Attempt BY DEF Unlocking!Verified, UnlockInv, UnlockShape
<1>2. PICK u \in Attempt \cup {None} :
        /\ u # None => u.step = "commit" /\ u.secret = u.password.secret
        /\ unlocks' = [unlocks EXCEPT ![v] = u]
  <2> DEFINE w == [unlocks[v] EXCEPT !.step = "commit"]
  <2>1. w \in Attempt /\ w.step = "commit" /\ w.secret = unlocks[v].secret /\ w.password = unlocks[v].password
    BY <1>1 DEF Attempt
  <2>2. unlocks' = [unlocks EXCEPT ![v] = IF unlocks[v].secret = unlocks[v].password.secret THEN w ELSE None]
    BY DEF Unlocking!Verified
  <2> HIDE DEF w
  <2> QED BY <2>1, <2>2
<1>3. UNCHANGED <<time, project, files, lost, changes, active, budgets, entries, attempts>> BY DEF Unlocking!Verified
<1>4. u # None => u.step # "hash" BY <1>2
<1>5. SlotsKept' BY <1>2, <1>3, <1>4, AttemptSlots, FewerSlots DEF UnlockInv
<1> QED BY <1>2, <1>3, <1>5, QuietAttemptInv

\* An attempt that is refused is forgotten.
LEMMA UnlockFailInv ==
  ASSUME Unlocking!UnlockAssumption, UnlockInv, NEW v \in Visitor, Unlocking!UnlockFail(v)
  PROVE  UnlockInv'
<1>1. SlotsKept' BY AttemptSlots, FewerSlots DEF UnlockInv, Unlocking!UnlockFail
<1> QED BY <1>1, QuietAttemptInv DEF Unlocking!UnlockFail

\* The recheck of CompleteUnlock makes the verified password the present one.
LEMMA CompleteUnlockInv ==
  ASSUME Unlocking!UnlockAssumption, UnlockInv, NEW v \in Visitor, Unlocking!CompleteUnlock(v)
  PROVE  UnlockInv'
<1> DEFINE g == [session |-> v, policy |-> project.policy, secret |-> unlocks[v].secret,
                 expires |-> IF Ends # None /\ Ends < time + Hour THEN Ends ELSE time + Hour]
<1>1. unlocks[v] \in Attempt /\ project \in Project /\ time \in Nat
  BY DEF Unlocking!CompleteUnlock, UnlockInv, UnlockShape, Unlocking!UnlockAssumption
<1>2. (IF Ends # None /\ Ends < time + Hour THEN Ends ELSE time + Hour) \in Nat
  BY <1>1 DEF Unlocking!UnlockAssumption
<1>3. g \in Grant /\ g.policy = project.policy /\ g.secret = unlocks[v].secret
  BY <1>1, <1>2 DEF Grant, Project, Attempt
<1>4. g.secret = project.password.secret
  BY <1>3 DEF Unlocking!CompleteUnlock, Unlocking!StillCurrent, UnlockInv, AttemptsVerified
<1>5. /\ entries' = entries \cup {g} /\ unlocks' = [unlocks EXCEPT ![v] = None]
      /\ UNCHANGED <<time, project, files, lost, changes, active, budgets, attempts>>
  BY DEF Unlocking!CompleteUnlock
<1> HIDE DEF g
<1>6. SlotsKept' BY <1>5, AttemptSlots, FewerSlots DEF UnlockInv
<1>7. unlocks' \in [Visitor -> Attempt \cup {None}] BY <1>5 DEF UnlockInv, UnlockShape
<1>8. UnlockShape' BY <1>3, <1>5, <1>7 DEF UnlockInv, UnlockShape
<1>9. GrantsOfPolicy'
  <2>1. project.policy \in Nat BY <1>1 DEF Project
  <2> QED BY <1>3, <1>4, <1>5, <2>1 DEF UnlockInv, GrantsOfPolicy
<1>10. BudgetsCount' /\ Unlocking!BudgetKept' BY <1>5, SameBudgets
<1> QED BY <1>5, <1>6, <1>8, <1>9, <1>10, AttemptInv

\* What one more attempt does to the budgets it charges, and to the others.
LEMMA ChargedBudgets ==
  ASSUME Unlocking!UnlockAssumption, UnlockInv,
         NEW v \in Visitor, NEW secret \in Secret, NEW q \in Replica, Unlocking!BeginUnlock(v, secret, q)
  PROVE  /\ budgets' \in [Unlocking!Budget -> [count : Nat, expires : Nat]]
         /\ attempts' \in [Unlocking!Budget -> [Minutes -> Nat]]
         /\ BudgetsCount' /\ Unlocking!BudgetKept'
<1>1. time \in Nat /\ MaxClock \in Nat /\ time <= MaxClock /\ Minute \in Nat /\ Minute > 0
  BY DEF UnlockInv, UnlockShape, Unlocking!UnlockAssumption
<1>2. Present \in Minutes /\ Present \in Nat /\ MaxClock \div Minute \in Nat /\ Minutes \subseteq Nat
  BY <1>1, MinuteOf, LaterMinute DEF Present, Minutes
<1>3. time < (Present + 1) * Minute /\ (Present + 1) * Minute \in Nat /\ (Present + 1) \in 0..(Present + 1)
  BY <1>1, <1>2, MinuteOf DEF Present
<1>4. Present' = Present BY DEF Present, Unlocking!BeginUnlock
<1>5. \A b \in Unlocking!Budget :
        /\ budgets[b] \in [count : Nat, expires : Nat] /\ attempts[b] \in [Minutes -> Nat]
        /\ Unlocking!Count(b) \in Nat /\ Unlocking!Limit(b)' = Unlocking!Limit(b)
  BY DEF UnlockInv, UnlockShape, Unlocking!Count, Unlocking!Limit
<1>6. ASSUME NEW b \in Unlocking!Budget, b \in Unlocking!Charges(v)
      PROVE  /\ budgets'[b] = [count |-> Unlocking!Count(b) + 1, expires |-> (Present + 1) * Minute]
             /\ attempts'[b] = [attempts[b] EXCEPT ![Present] = attempts[b][Present] + 1]
             /\ Unlocking!Count(b) + 1 <= Unlocking!Limit(b)
  <2>1. PICK k \in 0..(Present + 1) : budgets[b].expires = k * Minute BY <1>6 DEF UnlockInv, BudgetsCount
  <2>2. k * Minute <= (Present + 1) * Minute /\ k * Minute \in Nat BY <2>1, <1>1, <1>2
  <2>3. Unlocking!WindowEnd(b) = (Present + 1) * Minute
    <3>1. Unlocking!WindowEnd(b) = Unlocking!Max({(Present + 1) * Minute, k * Minute})
      BY <2>1 DEF Unlocking!WindowEnd, Present
    <3> QED BY <3>1, <2>2, <1>3, MaxOfTwo
  <2>4. Unlocking!Count(b) < Unlocking!Limit(b) /\ Unlocking!Limit(b) \in Nat
    BY <1>6 DEF Unlocking!BeginUnlock, Unlocking!Limit, Unlocking!UnlockAssumption
  <2> QED BY <1>5, <1>6, <2>3, <2>4 DEF Unlocking!BeginUnlock, Present
<1>7. ASSUME NEW b \in Unlocking!Budget, b \notin Unlocking!Charges(v)
      PROVE  budgets'[b] = budgets[b] /\ attempts'[b] = attempts[b]
  BY <1>7 DEF Unlocking!BeginUnlock
<1>8. ASSUME NEW b \in Unlocking!Budget
      PROVE  /\ budgets'[b] \in [count : Nat, expires : Nat] /\ attempts'[b] \in [Minutes -> Nat]
             /\ \E k \in 0..(Present + 1) : budgets'[b].expires = k * Minute
             /\ Unlocking!Count(b)' = attempts'[b][Present]
             /\ budgets'[b].count <= Unlocking!Limit(b)
             /\ \A m \in Minutes : m > Present => attempts'[b][m] = 0
             /\ \A m \in Minutes : attempts'[b][m] <= Unlocking!Limit(b)
  <2>1. /\ \E k \in 0..(Present + 1) : budgets[b].expires = k * Minute
        /\ Unlocking!Count(b) = attempts[b][Present] /\ budgets[b].count <= Unlocking!Limit(b)
        /\ \A m \in Minutes : m > Present => attempts[b][m] = 0
        /\ \A m \in Minutes : attempts[b][m] <= Unlocking!Limit(b)
    BY <1>5 DEF UnlockInv, BudgetsCount, Unlocking!BudgetKept
  <2>2. CASE b \in Unlocking!Charges(v)
    <3>0. /\ budgets'[b] = [count |-> Unlocking!Count(b) + 1, expires |-> (Present + 1) * Minute]
          /\ attempts'[b] = [attempts[b] EXCEPT ![Present] = attempts[b][Present] + 1]
          /\ Unlocking!Count(b) + 1 <= Unlocking!Limit(b) /\ Unlocking!Limit(b) \in Nat
      BY <1>6, <2>2 DEF Unlocking!Limit, Unlocking!UnlockAssumption
    <3>1. /\ budgets'[b].count = Unlocking!Count(b) + 1 /\ budgets'[b].expires = (Present + 1) * Minute
          /\ budgets'[b] \in [count : Nat, expires : Nat]
      BY <1>3, <1>5, <3>0
    <3>2. /\ attempts'[b] \in [Minutes -> Nat] /\ attempts'[b][Present] = attempts[b][Present] + 1
          /\ \A m \in Minutes : m # Present => attempts'[b][m] = attempts[b][m]
      BY <1>2, <1>5, <3>0
    <3>3. Unlocking!Count(b)' = Unlocking!Count(b) + 1
      BY <1>1, <1>3, <1>5, <3>1 DEF Unlocking!Count, Unlocking!BeginUnlock
    <3> QED BY <1>2, <1>3, <1>5, <2>1, <3>0, <3>1, <3>2, <3>3
  <2>3. CASE b \notin Unlocking!Charges(v)
    <3>1. Unlocking!Count(b)' = Unlocking!Count(b) BY <1>7, <2>3 DEF Unlocking!Count, Unlocking!BeginUnlock
    <3> QED BY <1>5, <1>7, <2>1, <2>3, <3>1
  <2> QED BY <2>2, <2>3
<1>9. BudgetsCount' BY <1>4, <1>5, <1>8 DEF BudgetsCount
<1>10. Unlocking!BudgetKept' BY <1>5, <1>8 DEF Unlocking!BudgetKept
<1>11. /\ budgets' \in [Unlocking!Budget -> [count : Nat, expires : Nat]]
       /\ attempts' \in [Unlocking!Budget -> [Minutes -> Nat]]
  <2>1. /\ budgets' = [b \in Unlocking!Budget |-> budgets'[b]]
        /\ attempts' = [b \in Unlocking!Budget |-> attempts'[b]]
    BY DEF Unlocking!BeginUnlock
  <2> QED BY <1>8, <2>1
<1> QED BY <1>9, <1>10, <1>11

\* An attempt charges its budgets in the transaction that reads the project.
LEMMA BeginUnlockInv ==
  ASSUME Unlocking!UnlockAssumption, UnlockInv,
         NEW v \in Visitor, NEW secret \in Secret, NEW q \in Replica, Unlocking!BeginUnlock(v, secret, q)
  PROVE  UnlockInv'
<1>1. PICK u \in Attempt \cup {None} :
        (u # None => u.step = "read") /\ unlocks' = [unlocks EXCEPT ![v] = u]
  <2> DEFINE w == [step |-> "read", at |-> q, secret |-> secret, policy |-> project.policy,
                   password |-> project.password]
  <2>1. CASE Unlocking!Eligible
    <3>1. w \in Attempt /\ w.step = "read" BY <2>1 DEF UnlockInv, UnlockShape, Project, Attempt, Unlocking!Eligible
    <3>2. unlocks' = [unlocks EXCEPT ![v] = w] BY <2>1 DEF Unlocking!BeginUnlock
    <3> QED BY <3>1, <3>2
  <2>2. CASE ~Unlocking!Eligible BY <2>2 DEF Unlocking!BeginUnlock
  <2> QED BY <2>1, <2>2
<1>2. UNCHANGED <<time, project, files, lost, changes, active, entries>> BY DEF Unlocking!BeginUnlock
<1>3. u # None => u.step # "hash" BY <1>1
<1>4. SlotsKept' BY <1>1, <1>2, <1>3, AttemptSlots, FewerSlots DEF UnlockInv
<1>5. unlocks' \in [Visitor -> Attempt \cup {None}] BY <1>1 DEF UnlockInv, UnlockShape
<1>6. UnlockShape' BY <1>2, <1>5, ChargedBudgets DEF UnlockInv, UnlockShape
<1>7. GrantsOfPolicy' BY <1>2 DEF UnlockInv, GrantsOfPolicy
<1>8. u # None => u.step # "commit" BY <1>1
<1> QED BY <1>1, <1>2, <1>4, <1>6, <1>7, <1>8, ChargedBudgets, AttemptInv

-----------------------------------------------------------------------------
(* Sessions, maintenance and time *)

\* The requests in progress and the project are as they were.
LEMMA QuietInv ==
  ASSUME Unlocking!UnlockAssumption, UnlockInv, UNCHANGED <<project, files, lost, changes, unlocks>>,
         UnlockShape', GrantsOfPolicy', BudgetsCount' /\ Unlocking!BudgetKept'
  PROVE  UnlockInv'
<1>1. \A p \in Replica : Unlocking!Hashing(p)' \subseteq Unlocking!Hashing(p) BY DEF Unlocking!Hashing
<1>2. SlotsKept' BY <1>1, FewerSlots
<1> QED BY <1>2 DEF UnlockInv, PasswordKept, ChangesStored, AttemptsVerified, Kept

\* Only the disks change, and keep the records they are answerable for.
LEMMA DiskInv ==
  ASSUME Unlocking!UnlockAssumption, UnlockInv,
         files' \in [Replica -> SUBSET Unlocking!Password], lost' \subseteq Replica,
         \A pw \in Unlocking!Password : Kept(pw) => Kept(pw)',
         UNCHANGED <<time, project, changes, unlocks, active, budgets, entries, attempts>>
  PROVE  UnlockInv'
<1>1. UnlockShape' BY DEF UnlockInv, UnlockShape
<1>2. SlotsKept'
  <2>1. \A p \in Replica : Unlocking!Hashing(p)' \subseteq Unlocking!Hashing(p) BY DEF Unlocking!Hashing
  <2> QED BY <2>1, FewerSlots
<1>3. PasswordKept'
  <2>1. project.password \in Unlocking!Password \cup {None} BY DEF UnlockInv, UnlockShape, Project
  <2> QED BY <2>1 DEF UnlockInv, PasswordKept
<1>4. ChangesStored'
  <2>1. \A x \in Tab : changes[x] # None => changes[x].password \in Unlocking!Password \cup {None}
    BY DEF UnlockInv, UnlockShape, Change
  <2> QED BY <2>1 DEF UnlockInv, ChangesStored
<1>5. AttemptsVerified' /\ GrantsOfPolicy' BY DEF UnlockInv, AttemptsVerified, GrantsOfPolicy
<1>6. BudgetsCount' /\ Unlocking!BudgetKept' BY SameBudgets
<1> QED BY <1>1, <1>2, <1>3, <1>4, <1>5, <1>6 DEF UnlockInv

\* A copy takes nothing away.
LEMMA SyncInv ==
  ASSUME Unlocking!UnlockAssumption, UnlockInv,
         NEW p \in Replica, NEW q \in Replica, NEW pw \in files[p], Unlocking!Sync(p, q, pw)
  PROVE  UnlockInv'
<1>1. files \in [Replica -> SUBSET Unlocking!Password] /\ lost \subseteq Replica BY DEF UnlockInv, UnlockShape
<1>2. /\ files' = [files EXCEPT ![q] = @ \cup {pw}]
      /\ UNCHANGED <<time, project, lost, changes, unlocks, active, budgets, entries, attempts>>
  BY DEF Unlocking!Sync
<1>3. files' \in [Replica -> SUBSET Unlocking!Password] /\ \A x \in Replica : files[x] \subseteq files'[x]
  BY <1>1, <1>2
<1>4. \A r \in Unlocking!Password : Kept(r) => Kept(r)' BY <1>2, <1>3 DEF Kept, Unlocking!Password
<1> QED BY <1>1, <1>2, <1>3, <1>4, DiskInv

\* A disk that is lost is answerable for nothing.
LEMMA LoseDiskInv ==
  ASSUME Unlocking!UnlockAssumption, UnlockInv, NEW p \in Replica, Unlocking!LoseDisk(p)
  PROVE  UnlockInv'
<1>1. files \in [Replica -> SUBSET Unlocking!Password] /\ lost \subseteq Replica BY DEF UnlockInv, UnlockShape
<1>2. /\ files' = [files EXCEPT ![p] = {}] /\ lost' = lost \cup {p}
      /\ UNCHANGED <<time, project, changes, unlocks, active, budgets, entries, attempts>>
  BY DEF Unlocking!LoseDisk
<1>3. files' \in [Replica -> SUBSET Unlocking!Password] /\ \A x \in Replica : x # p => files'[x] = files[x]
  BY <1>1, <1>2
<1>4. \A r \in Unlocking!Password : Kept(r) => Kept(r)' BY <1>2, <1>3 DEF Kept, Unlocking!Password
<1> QED BY <1>1, <1>2, <1>3, <1>4, DiskInv

\* A revoked session leaves its grants behind.
LEMMA RevokeInv ==
  ASSUME Unlocking!UnlockAssumption, UnlockInv, NEW v \in Visitor, Unlocking!Revoke(v)
  PROVE  UnlockInv'
<1>1. UnlockShape' BY DEF UnlockInv, UnlockShape, Unlocking!Revoke
<1>2. GrantsOfPolicy' BY DEF UnlockInv, GrantsOfPolicy, Unlocking!Revoke
<1>3. BudgetsCount' /\ Unlocking!BudgetKept' BY SameBudgets DEF Unlocking!Revoke
<1> QED BY <1>1, <1>2, <1>3, QuietInv DEF Unlocking!Revoke

\* Grants that are over are deleted.
LEMMA ReapGrantInv ==
  ASSUME Unlocking!UnlockAssumption, UnlockInv, NEW g \in entries, Unlocking!ReapGrant(g)
  PROVE  UnlockInv'
<1>1. UnlockShape' BY DEF UnlockInv, UnlockShape, Unlocking!ReapGrant
<1>2. GrantsOfPolicy' BY DEF UnlockInv, GrantsOfPolicy, Unlocking!ReapGrant
<1>3. BudgetsCount' /\ Unlocking!BudgetKept' BY SameBudgets DEF Unlocking!ReapGrant
<1> QED BY <1>1, <1>2, <1>3, QuietInv DEF Unlocking!ReapGrant

\* A budget is deleted when its window is over, so that it counts as before.
LEMMA ReapBudgetInv ==
  ASSUME Unlocking!UnlockAssumption, UnlockInv, NEW b \in Unlocking!Budget, Unlocking!ReapBudget(b)
  PROVE  UnlockInv'
<1>1. Present \in Nat
  <2>1. time \in Nat /\ Minute \in Nat /\ Minute > 0 BY DEF UnlockInv, UnlockShape, Unlocking!UnlockAssumption
  <2> QED BY <2>1, MinuteOf DEF Present
<1>2. /\ budgets'[b] = Unlocking!NoBudget /\ \A c \in Unlocking!Budget : c # b => budgets'[c] = budgets[c]
      /\ UNCHANGED <<time, attempts>>
  BY DEF Unlocking!ReapBudget, UnlockInv, UnlockShape
<1>3. Unlocking!NoBudget \in [count : Nat, expires : Nat] BY DEF Unlocking!NoBudget
<1>4. UnlockShape' BY <1>3 DEF UnlockInv, UnlockShape, Unlocking!ReapBudget
<1>5. \A c \in Unlocking!Budget : Unlocking!Limit(c)' = Unlocking!Limit(c) /\ Unlocking!Limit(c) \in Nat
  BY DEF Unlocking!Limit, Unlocking!UnlockAssumption
<1>6. Present' = Present BY <1>2 DEF Present
<1>7. Unlocking!Count(b)' = Unlocking!Count(b)
  <2>1. time >= budgets[b].expires BY DEF Unlocking!ReapBudget, Unlocking!BudgetOver
  <2>2. Unlocking!Count(b) = 0 BY <2>1 DEF Unlocking!Count
  <2> QED BY <1>2, <2>2 DEF Unlocking!Count, Unlocking!NoBudget
<1>8. \A c \in Unlocking!Budget : c # b => Unlocking!Count(c)' = Unlocking!Count(c) BY <1>2 DEF Unlocking!Count
<1>9. 0 \in 0..(Present + 1) /\ Unlocking!NoBudget.expires = 0 * Minute /\ Unlocking!NoBudget.count = 0
  BY <1>1 DEF Unlocking!NoBudget, Unlocking!UnlockAssumption
<1>10. BudgetsCount'
  <2> SUFFICES ASSUME NEW c \in Unlocking!Budget
               PROVE  /\ \E k \in 0..(Present + 1) : budgets'[c].expires = k * Minute
                      /\ Unlocking!Count(c)' = attempts[c][Present]
                      /\ budgets'[c].count <= Unlocking!Limit(c)
                      /\ \A m \in Minutes : m > Present => attempts[c][m] = 0
    BY <1>2, <1>5, <1>6 DEF BudgetsCount
  <2>1. /\ \E k \in 0..(Present + 1) : budgets[c].expires = k * Minute
        /\ Unlocking!Count(c) = attempts[c][Present] /\ budgets[c].count <= Unlocking!Limit(c)
        /\ \A m \in Minutes : m > Present => attempts[c][m] = 0
    BY DEF UnlockInv, BudgetsCount
  <2>2. CASE c = b
    <3>1. budgets'[c].expires = 0 * Minute /\ budgets'[c].count <= Unlocking!Limit(c) BY <1>2, <1>5, <1>9, <2>2
    <3> QED BY <1>7, <1>9, <2>1, <2>2, <3>1
  <2>3. CASE c # b BY <1>2, <1>8, <2>1, <2>3
  <2> QED BY <2>2, <2>3
<1>11. Unlocking!BudgetKept' BY <1>2, <1>5 DEF UnlockInv, Unlocking!BudgetKept
<1>12. GrantsOfPolicy' BY DEF UnlockInv, GrantsOfPolicy, Unlocking!ReapBudget
<1> QED BY <1>4, <1>10, <1>11, <1>12, QuietInv DEF Unlocking!ReapBudget

\* With a minute ends every window, and nothing was tried in the next one.
LEMMA UnlockTickInv == ASSUME Unlocking!UnlockAssumption, UnlockInv, Unlocking!Tick PROVE UnlockInv'
<1>1. /\ time \in Nat /\ time + 1 \in 0..MaxClock /\ time' = time + 1 /\ MaxClock \in Nat
      /\ Minute \in Nat /\ Minute > 0
      /\ UNCHANGED <<project, files, lost, changes, unlocks, active, budgets, entries, attempts>>
  BY DEF UnlockInv, UnlockShape, Unlocking!UnlockAssumption, Unlocking!Tick
<1>2. UnlockShape' BY <1>1 DEF UnlockInv, UnlockShape
<1>3. GrantsOfPolicy' BY <1>1 DEF UnlockInv, GrantsOfPolicy
<1>4. \A b \in Unlocking!Budget : Unlocking!Limit(b)' = Unlocking!Limit(b) BY DEF Unlocking!Limit
<1>5. Unlocking!BudgetKept' BY <1>1, <1>4 DEF UnlockInv, Unlocking!BudgetKept
<1>6. /\ Present \in Nat /\ Present' \in Minutes /\ Present' \in Nat
      /\ time < (Present + 1) * Minute
  BY <1>1, MinuteOf, LaterMinute DEF Present, Minutes
<1>7. \/ Present' = Present
      \/ Present' = Present + 1 /\ (Present + 1) * Minute = time + 1
  BY <1>1, NextMinute DEF Present
<1>8. BudgetsCount'
  <2> SUFFICES ASSUME NEW b \in Unlocking!Budget
               PROVE  /\ \E k \in 0..(Present' + 1) : budgets[b].expires = k * Minute
                      /\ Unlocking!Count(b)' = attempts[b][Present']
                      /\ budgets[b].count <= Unlocking!Limit(b)
                      /\ \A m \in Minutes : m > Present' => attempts[b][m] = 0
    BY <1>1, <1>4 DEF BudgetsCount
  <2>1. /\ Unlocking!Count(b) = attempts[b][Present] /\ budgets[b].count <= Unlocking!Limit(b)
        /\ \A m \in Minutes : m > Present => attempts[b][m] = 0
    BY DEF UnlockInv, BudgetsCount
  <2>2. PICK k \in Nat : k <= Present + 1 /\ budgets[b].expires = k * Minute
    BY <1>6 DEF UnlockInv, BudgetsCount
  <2>3. k \in 0..(Present' + 1)
    <3>1. Present \in Nat /\ Present' \in Nat /\ Present <= Present' BY <1>6, <1>7
    <3>2. k <= Present + 1 BY <2>2
    <3> DEFINE p == Present
               q == Present'
    <3>3. p \in Nat /\ q \in Nat /\ p <= q /\ k <= p + 1 BY <3>1, <3>2
    <3> HIDE DEF p, q
    <3>4. k \in 0..(q + 1) BY <3>3
    <3> QED BY <3>4 DEF q
  <2>4. \A m \in Minutes : m > Present' => attempts[b][m] = 0
    <3>1. \A m \in Minutes : m > Present' => m > Present BY <1>6, <1>7 DEF Minutes
    <3> QED BY <2>1, <3>1
  <2>5. Unlocking!Count(b)' = attempts[b][Present']
    <3>1. CASE Present' = Present
      <4>1. time + 1 < (Present + 1) * Minute
        BY <1>1, <1>6, <3>1, MinuteOf DEF Present
      <4>2. k * Minute <= Present * Minute \/ k * Minute = (Present + 1) * Minute
        <5>1. k <= Present \/ k = Present + 1 BY <1>6, <2>2
        <5>2. k <= Present => k * Minute <= Present * Minute BY <1>1, <1>6, MoreMinutes
        <5> QED BY <5>1, <5>2
      <4>3. Present * Minute <= time BY <1>1, MinuteOf DEF Present
      <4>4. time >= k * Minute <=> time + 1 >= k * Minute
        BY <1>1, <1>6, <2>2, <4>1, <4>2, <4>3
      <4>5. Unlocking!Count(b)' = Unlocking!Count(b) BY <1>1, <2>2, <4>4 DEF Unlocking!Count
      <4> QED BY <2>1, <3>1, <4>5
    <3>2. CASE Present' = Present + 1 /\ (Present + 1) * Minute = time + 1
      <4>1. k * Minute <= time + 1 BY <1>1, <1>6, <2>2, <3>2
      <4>2. Unlocking!Count(b)' = 0 BY <1>1, <2>2, <4>1 DEF Unlocking!Count
      <4>3. attempts[b][Present'] = 0 BY <1>6, <2>1, <3>2
      <4> QED BY <4>2, <4>3
    <3> QED BY <1>7, <3>1, <3>2
  <2> QED BY <2>1, <2>2, <2>3, <2>4, <2>5
<1> QED BY <1>1, <1>2, <1>3, <1>5, <1>8, QuietInv

-----------------------------------------------------------------------------
(* The invariant *)

\* The project is published, public or with its password stored; nobody tried yet.
LEMMA UnlockInitInv == ASSUME Unlocking!UnlockAssumption, Unlocking!Init PROVE UnlockInv
<1>1. PICK pw \in {None} \cup [rev : {1}, secret : Secret, at : Replica] :
        /\ project = [live |-> TRUE, rev |-> 1, policy |-> 1, password |-> pw]
        /\ files = [p \in Replica |-> IF pw # None /\ pw.at = p THEN {pw} ELSE {}]
  BY DEF Unlocking!Init
<1>2. pw \in Unlocking!Password \cup {None} BY <1>1 DEF Unlocking!Password
<1>3. project \in Project /\ project.policy = 1 /\ project.password = pw BY <1>1, <1>2 DEF Project
<1>4. MaxClock \in Nat /\ Minute \in Nat /\ Minute > 0 BY DEF Unlocking!UnlockAssumption
<1>5. Present = 0 /\ Minutes \subseteq Nat /\ Present \in Minutes
  <2>1. time = 0 BY DEF Unlocking!Init
  <2> QED BY <1>4, <2>1, MinuteOf, LaterMinute DEF Present, Minutes
<1>6. Unlocking!NoBudget \in [count : Nat, expires : Nat] /\ Unlocking!NoBudget.count = 0
        /\ Unlocking!NoBudget.expires = 0
  BY DEF Unlocking!NoBudget
<1>7. /\ \A b \in Unlocking!Budget : budgets[b] = Unlocking!NoBudget /\ attempts[b] \in [Minutes -> Nat]
      /\ \A b \in Unlocking!Budget : \A m \in Minutes : attempts[b][m] = 0
  BY DEF Unlocking!Init, Minutes
<1>8. UnlockShape
  <2>1. budgets \in [Unlocking!Budget -> [count : Nat, expires : Nat]] BY <1>6 DEF Unlocking!Init
  <2>2. attempts \in [Unlocking!Budget -> [Minutes -> Nat]] BY DEF Unlocking!Init, Minutes
  <2>3. files \in [Replica -> SUBSET Unlocking!Password] /\ lost \subseteq Replica
    BY <1>1, <1>2 DEF Unlocking!Init
  <2> QED BY <1>3, <1>4, <2>1, <2>2, <2>3 DEF Unlocking!Init, UnlockShape
<1>9. SlotsKept
  <2>1. \A p \in Replica : Unlocking!Hashing(p) = {} BY DEF Unlocking!Init, Unlocking!Hashing
  <2> QED BY <2>1, FS_EmptySet DEF SlotsKept, Unlocking!UnlockAssumption
<1>10. PasswordKept BY <1>1, <1>2, <1>3 DEF PasswordKept, Kept, Unlocking!Password
<1>11. ChangesStored /\ AttemptsVerified BY DEF Unlocking!Init, ChangesStored, AttemptsVerified
<1>12. GrantsOfPolicy BY <1>3 DEF Unlocking!Init, GrantsOfPolicy
<1>13. \A b \in Unlocking!Budget : Unlocking!Limit(b) \in Nat BY DEF Unlocking!Limit, Unlocking!UnlockAssumption
<1>14. BudgetsCount
  <2>1. 0 \in 0..(Present + 1) /\ 0 * Minute = 0 BY <1>4, <1>5
  <2>2. \A b \in Unlocking!Budget : Unlocking!Count(b) = 0 BY <1>6, <1>7 DEF Unlocking!Init, Unlocking!Count
  <2>3. \A b \in Unlocking!Budget : \E k \in 0..(Present + 1) : budgets[b].expires = k * Minute
    BY <1>6, <1>7, <2>1
  <2>4. \A b \in Unlocking!Budget : Unlocking!Count(b) = attempts[b][Present] BY <1>5, <1>7, <2>2
  <2> QED BY <1>6, <1>7, <1>13, <2>3, <2>4 DEF BudgetsCount
<1>15. Unlocking!BudgetKept BY <1>7, <1>13 DEF Unlocking!BudgetKept
<1> QED BY <1>8, <1>9, <1>10, <1>11, <1>12, <1>14, <1>15 DEF UnlockInv

\* Every step keeps the invariant.
LEMMA UnlockNextInv ==
  ASSUME Unlocking!UnlockAssumption, UnlockInv, [Unlocking!Next]_Unlocking!vars
  PROVE  UnlockInv'
<1>1. CASE UNCHANGED Unlocking!vars
  <2>1. UnlockShape' /\ GrantsOfPolicy' BY <1>1 DEF Unlocking!vars, UnlockInv, UnlockShape, GrantsOfPolicy
  <2>2. BudgetsCount' /\ Unlocking!BudgetKept' BY <1>1, SameBudgets DEF Unlocking!vars
  <2> QED BY <1>1, <2>1, <2>2, QuietInv DEF Unlocking!vars
<1>2. CASE \E t \in Tab, s \in Secret \cup {None}, p \in Replica : Unlocking!ChangeBegin(t, s, p)
  BY <1>2, ChangeBeginInv
<1>3. CASE \E t \in Tab : Unlocking!ChangeHash(t) \/ Unlocking!ChangeStore(t)
                          \/ Unlocking!SetPrivacy(t) \/ Unlocking!ChangeFail(t)
  BY <1>3, ChangeHashInv, ChangeStoreInv, SetPrivacyInv, ChangeFailInv
<1>4. CASE \E policy \in BOOLEAN : Unlocking!OtherChange(policy) BY <1>4, OtherChangeInv
<1>5. CASE Unlocking!End BY <1>5, EndInv
<1>6. CASE \E v \in Visitor, s \in Secret, p \in Replica : Unlocking!BeginUnlock(v, s, p) BY <1>6, BeginUnlockInv
<1>7. CASE \E v \in Visitor :
             Unlocking!VerifyHash(v) \/ Unlocking!Verified(v) \/ Unlocking!CompleteUnlock(v)
             \/ Unlocking!UnlockFail(v) \/ Unlocking!Revoke(v)
  BY <1>7, VerifyHashInv, VerifyInv, CompleteUnlockInv, UnlockFailInv, RevokeInv
<1>8. CASE \E g \in entries : Unlocking!ReapGrant(g) BY <1>8, ReapGrantInv
<1>9. CASE \E b \in Unlocking!Budget : Unlocking!ReapBudget(b) BY <1>9, ReapBudgetInv
<1>10. CASE Unlocking!Tick BY <1>10, UnlockTickInv
<1>11. CASE \E p, q \in Replica : \E pw \in files[p] : Unlocking!Sync(p, q, pw) BY <1>11, SyncInv
<1>12. CASE \E p \in Replica : Unlocking!LoseDisk(p) BY <1>12, LoseDiskInv
<1> QED
  BY <1>1, <1>2, <1>3, <1>4, <1>5, <1>6, <1>7, <1>8, <1>9, <1>10, <1>11, <1>12 DEF Unlocking!Next

\* The invariant holds in every state of every behaviour.
LEMMA UnlockInvariance == Unlocking!Spec => []UnlockInv
<1>1. Unlocking!Init => UnlockInv BY UnlockInitInv, UnlockingAssumption
<1>2. UnlockInv /\ [Unlocking!Next]_Unlocking!vars => UnlockInv' BY UnlockNextInv, UnlockingAssumption
<1> QED BY <1>1, <1>2, PTL DEF Unlocking!Spec

\* The type invariant: also, hashing never holds more slots than there are
\* (Hasher.acquire), a budget never counts past its limit, and no grant is of
\* a policy revision the project has not had.
THEOREM UnlockTypesHold == Unlocking!Spec => []Unlocking!TypeOK
<1>1. UnlockInv => Unlocking!TypeOK
  <2> SUFFICES ASSUME UnlockInv PROVE Unlocking!TypeOK OBVIOUS
  <2>1. /\ time \in 0..MaxClock /\ project.live \in BOOLEAN
        /\ project.rev \in Nat /\ project.policy \in Nat
        /\ project.password \in Unlocking!Password \cup {None}
        /\ files \in [Replica -> SUBSET Unlocking!Password] /\ lost \subseteq Replica
        /\ active \subseteq Visitor
    BY DEF UnlockInv, UnlockShape, Project
  <2>2. \A p \in Replica : Cardinality(Unlocking!Hashing(p)) <= Workers BY DEF UnlockInv, SlotsKept
  <2>3. \A b \in Unlocking!Budget : budgets[b].count \in 0..Unlocking!Limit(b) /\ budgets[b].expires \in Nat
    <3>1. \A b \in Unlocking!Budget : Unlocking!Limit(b) \in Nat
      BY UnlockingAssumption DEF Unlocking!Limit, Unlocking!UnlockAssumption
    <3> QED BY <3>1 DEF UnlockInv, UnlockShape, BudgetsCount
  <2>4. \A g \in entries : g.session \in Visitor /\ g.policy \in 1..project.policy
    BY <2>1 DEF UnlockInv, UnlockShape, Grant, GrantsOfPolicy
  <2> QED BY <2>1, <2>2, <2>3, <2>4, SameCardinality DEF Unlocking!TypeOK
<1> QED BY <1>1, UnlockInvariance, PTL

\* A grant that opens the project was given for the password it has now, however
\* the owner's changes and the visitors' attempts interleave between
\* BeginUnlock and CompleteUnlock.
THEOREM GrantsBacked == Unlocking!Spec => []GrantBacked
<1>1. UnlockInv => GrantBacked 
  BY DEF UnlockInv, GrantsOfPolicy, GrantBacked, Unlocking!GrantBacked, Unlocking!Usable
<1> QED BY <1>1, UnlockInvariance, PTL

\* The password record a project names is on a disk, whichever of the owner's
\* concurrent changes SetPrivacy accepts and on whichever primaries they were
\* prepared, as long as the primary that made it has not lost its own.
THEOREM PasswordsDurable == Unlocking!Spec => []PasswordDurable
<1>1. UnlockInv => PasswordDurable
  <2> SUFFICES ASSUME UnlockInv, project.password # None
               PROVE  project.password.at \in lost \/ \E p \in Replica : project.password \in files[p]
    BY DEF PasswordDurable, Unlocking!PasswordDurable
  <2>1. project.password.at \in Replica BY DEF UnlockInv, UnlockShape, Project, Unlocking!Password
  <2> QED BY <2>1 DEF UnlockInv, PasswordKept, Kept
<1> QED BY <1>1, UnlockInvariance, PTL

\* In no minute are more attempts admitted than the limits allow, in all, per
\* session and per project; and no session is refused by its own budget before
\* it has tried in the present minute (BeginUnlock and Maintain).
THEOREM AttemptsLimited == Unlocking!Spec => []Unlocking!BudgetsExact
<1>1. UnlockInv => Unlocking!BudgetsExact
  <2> SUFFICES ASSUME UnlockInv PROVE Unlocking!FreshMinute BY DEF Unlocking!BudgetsExact, UnlockInv
  <2>1. \A v \in Visitor : v \in Unlocking!Budget /\ Unlocking!Limit(v) \in Nat 
    BY UnlockingAssumption DEF Unlocking!Budget, Unlocking!Limit, Unlocking!UnlockAssumption
  <2>2. \A v \in Visitor : Unlocking!Count(v) = attempts[v][Present] BY <2>1 DEF UnlockInv, BudgetsCount
  <2> QED BY <2>1, <2>2 DEF Unlocking!FreshMinute, Present
<1> QED BY <1>1, UnlockInvariance, PTL

-----------------------------------------------------------------------------
(* Agents' connections *)

Connection == [uid : Account, by : Nat, revoked : BOOLEAN,
               life : {"live", "lapsed", "retired", "gone"}, token : Nat \cup {None},
               lease : Replica \cup {None}, held : BOOLEAN]
Credential == [kind : {"code", "refresh", "deleted"}, grant : Nat, used : BOOLEAN, late : BOOLEAN]
Consenting == [pc : {"consent"}, handle : Nat, uid : Account]
Job        == [pc : {"issue", "acquire", "exchange", "finish", "giveup", "touch"},
               op : {"token", "gateway"}, grant : Nat, token : Nat \cup {None},
               result : {None, "fresh", "refused", "unavailable"}]

Made == 1..Len(grants)

\* A request works on a connection that was made, and issues only after spending.
Sane(x) == x \in Job => x.grant \in Made /\ (x.pc = "issue" => x.op = "token")

AgentShape ==
    /\ pending \in Seq({"open", "used", "expired"})
    /\ grants \in Seq(Connection)
    /\ provider \in Seq(Nat) /\ Len(provider) = Len(grants)
    /\ stored \in [Made -> Nat] /\ ended \subseteq Made
    /\ creds \in Seq(Credential) /\ \A c \in 1..Len(creds) : creds[c].grant \in Made
    /\ req \in [Replica -> {Agents!Idle} \cup Consenting \cup Job]
    /\ \A p \in Replica : Sane(req[p])

Over(gr) == gr.revoked \/ gr.life # "live"

\* What ended is over, and no credential was issued after the end.
EndsKept ==
    /\ \A g \in ended : Over(grants[g])
    /\ \A c \in 1..Len(creds) : ~creds[c].late

\* A connection loses its token exactly when it is revoked; the one it has is the
\* newest that was stored, and the provider's is at least as new.
TokensKept ==
    \A g \in Made :
        /\ grants[g].token = IF grants[g].revoked THEN None ELSE stored[g]
        /\ stored[g] <= provider[g]

\* A request with a fresh token to store: under its lease, nothing newer is stored.
Storing(p) == req[p] \in Job /\ req[p].pc = "finish" /\ req[p].result \notin {"refused", "unavailable"}
Newest(p) ==
    LET g == req[p].grant IN
    /\ req[p].token \in Nat /\ req[p].token <= provider[g]
    /\ grants[g].lease = p => stored[g] <= req[p].token

LeasesKept == \A p \in Replica : Storing(p) => Newest(p)

\* Codes and refresh tokens form one chain.
OneChain(g) ==
    /\ \A c, d \in Agents!Spendable(g) : c = d
    /\ \A p, q \in Agents!Replacing(g) : p = q
    /\ Agents!Spendable(g) = {} \/ Agents!Replacing(g) = {}

AgentInv ==
    /\ AgentShape /\ EndsKept /\ TokensKept /\ LeasesKept
    /\ \A g \in Made : OneChain(g)

\* A request beyond the consent page works on a connection that was made.
LEMMA JobOf ==
  ASSUME AgentShape, NEW p \in Replica, req[p].pc \notin {"idle", "consent"}
  PROVE  req[p] \in Job /\ req[p].grant \in Made /\ (req[p].pc = "issue" => req[p].op = "token")
<1>1. req[p] \in {Agents!Idle} \cup Consenting \cup Job BY DEF AgentShape
<1>2. req[p] \in Job BY <1>1 DEF Agents!Idle, Consenting
<1> QED BY <1>2 DEF AgentShape, Sane

\* Connections are numbered, and each has its token versions.
LEMMA Connections ==
  ASSUME AgentShape
  PROVE  /\ Len(grants) \in Nat /\ DOMAIN grants = Made /\ Agents!Grants = Made
         /\ \A g \in Made : grants[g] \in Connection /\ provider[g] \in Nat /\ stored[g] \in Nat
<1>1. Len(grants) \in Nat /\ DOMAIN grants = 1..Len(grants) /\ grants \in Seq(Connection)
  BY LenProperties DEF AgentShape
<1>2. \A g \in 1..Len(grants) : grants[g] \in Connection BY <1>1, ElementOfSeq
<1>3. \A g \in 1..Len(grants) : provider[g] \in Nat BY ElementOfSeq DEF AgentShape
<1> QED BY <1>1, <1>2, <1>3 DEF Made, Agents!Grants, AgentShape

\* Credentials are numbered, and each is of a connection that was made.
LEMMA Credentials ==
  ASSUME AgentShape
  PROVE  /\ Len(creds) \in Nat /\ DOMAIN creds = 1..Len(creds)
         /\ \A c \in 1..Len(creds) : creds[c] \in Credential /\ creds[c].grant \in Made
<1>1. Len(creds) \in Nat /\ DOMAIN creds = 1..Len(creds) /\ creds \in Seq(Credential)
  BY LenProperties DEF AgentShape
<1>2. \A c \in 1..Len(creds) : creds[c] \in Credential BY <1>1, ElementOfSeq
<1> QED BY <1>1, <1>2 DEF AgentShape

\* Requests move on, and none of them begins to replace a credential or comes to
\* hold a fresh token.
Quiet ==
    /\ req' \in [Replica -> {Agents!Idle} \cup Consenting \cup Job]
    /\ \A p \in Replica : req'[p] = req[p] \/
        /\ Sane(req'[p])
        /\ ~Storing(p)'
        /\ \A g \in Made : p \in Agents!Replacing(g)' => p \in Agents!Replacing(g)

\* Quiet requests keep their shape.
LEMMA QuietShape ==
  ASSUME AgentShape, Quiet
  PROVE  \A p \in Replica : Sane(req'[p])
BY DEF AgentShape, Quiet

\* If requests are quiet and no credential comes back, the chains stay chains.
LEMMA QuietChain ==
  ASSUME AgentInv, Quiet, Made' = Made, \A g \in Made : Agents!Spendable(g)' \subseteq Agents!Spendable(g)
  PROVE  \A g \in Made' : OneChain(g)'
<1> SUFFICES ASSUME NEW g \in Made PROVE OneChain(g)' OBVIOUS
<1>1. OneChain(g) BY DEF AgentInv
<1>2. Agents!Replacing(g)' \subseteq Agents!Replacing(g)
  <2> SUFFICES ASSUME NEW p \in Agents!Replacing(g)' PROVE p \in Agents!Replacing(g) OBVIOUS
  <2>1. p \in Replica BY DEF Agents!Replacing
  <2>2. CASE req'[p] = req[p] BY <2>1, <2>2 DEF Agents!Replacing
  <2>3. CASE req'[p] # req[p] BY <2>1, <2>3 DEF Quiet
  <2> QED BY <2>2, <2>3
<1>3. Agents!Spendable(g)' \subseteq Agents!Spendable(g) OBVIOUS
<1> HIDE DEF Agents!Replacing, Agents!Spendable
<1> QED BY <1>1, <1>2, <1>3 DEF OneChain

\* The request ends.
LEMMA DoneQuiet ==
  ASSUME AgentShape, NEW p \in Replica, Agents!Done(p)
  PROVE  Quiet
<1>1. req' = [req EXCEPT ![p] = Agents!Idle] /\ req \in [Replica -> {Agents!Idle} \cup Consenting \cup Job]
  BY DEF Agents!Done, AgentShape
<1>2. /\ req' \in [Replica -> {Agents!Idle} \cup Consenting \cup Job] /\ req'[p] = Agents!Idle
      /\ \A q \in Replica \ {p} : req'[q] = req[q]
  BY <1>1
<1>3. Agents!Idle \notin Job /\ Agents!Idle.pc = "idle" BY DEF Agents!Idle, Job
<1>4. ~Storing(p)' BY <1>2, <1>3 DEF Storing
<1>5. \A g \in Made : p \notin Agents!Replacing(g)' BY <1>2, <1>3 DEF Agents!Replacing
<1> QED BY <1>2, <1>3, <1>4, <1>5 DEF Quiet, Sane

\* The request goes on to its next step.
LEMMA GoQuiet ==
  ASSUME AgentShape, NEW p \in Replica, NEW pc \in {"issue", "touch", "giveup"},
         req[p].pc \in {"acquire", "exchange", "finish", "issue"}, Agents!Go(p, pc),
         pc = "issue" => req[p].op = "token"
  PROVE  Quiet
<1>0. req[p] \in Job /\ req[p].grant \in Made BY JobOf
<1>1. req' = [req EXCEPT ![p] = [req[p] EXCEPT !.pc = pc]] /\ req \in [Replica -> {Agents!Idle} \cup Consenting \cup Job]
  BY DEF Agents!Go, AgentShape
<1>2. /\ [req[p] EXCEPT !.pc = pc] \in Job /\ [req[p] EXCEPT !.pc = pc].pc = pc
      /\ [req[p] EXCEPT !.pc = pc].grant = req[p].grant /\ [req[p] EXCEPT !.pc = pc].op = req[p].op
  BY <1>0 DEF Job
<1>3. /\ req' \in [Replica -> {Agents!Idle} \cup Consenting \cup Job] /\ req'[p] \in Job /\ req'[p].pc = pc
      /\ req'[p].grant = req[p].grant /\ req'[p].op = req[p].op
      /\ \A q \in Replica \ {p} : req'[q] = req[q]
  BY <1>1, <1>2
<1>4. ~Storing(p)' BY <1>3 DEF Storing
<1>5. \A g \in Made : p \in Agents!Replacing(g)' => p \in Agents!Replacing(g) BY <1>3 DEF Agents!Replacing
<1> QED BY <1>0, <1>3, <1>4, <1>5 DEF Quiet, Sane

\* firebaseFor reports an error.
LEMMA FailedQuiet ==
  ASSUME AgentShape, NEW p \in Replica,
         req[p].pc \in {"acquire", "exchange", "finish", "issue"}, Agents!Failed(p)
  PROVE  Quiet
<1>1. CASE Agents!Forced(p) BY <1>1, GoQuiet DEF Agents!Failed
<1>2. CASE ~Agents!Forced(p) BY <1>2, DoneQuiet DEF Agents!Failed
<1> QED BY <1>1, <1>2

\* Nobody's request moves.
LEMMA StillQuiet ==
  ASSUME AgentShape, UNCHANGED req
  PROVE  Quiet
BY DEF AgentShape, Quiet

-----------------------------------------------------------------------------
(* Steps that only move requests *)

\* The leases of fresh tokens survive a step that leaves leases and stored tokens alone.
LEMMA LeasesSame ==
  ASSUME AgentInv, Quiet, Made' = Made, provider' = provider,
         \A p \in Replica, g \in Made : Storing(p) /\ Storing(p)' /\ grants'[g].lease = p
                                        => grants[g].lease = p /\ stored'[g] = stored[g]
  PROVE  LeasesKept'
<1> SUFFICES ASSUME NEW p \in Replica, Storing(p)' PROVE Newest(p)' BY DEF LeasesKept
<1>1. req'[p] = req[p] BY DEF Quiet
<1>2. Storing(p) BY <1>1 DEF Storing
<1>3. req[p].grant \in Made BY <1>2 DEF Storing, AgentInv, AgentShape, Sane
<1>4. Newest(p) BY <1>2 DEF AgentInv, LeasesKept
<1> QED BY <1>1, <1>2, <1>3, <1>4 DEF Newest

\* A step that writes nothing but requests and consents keeps the invariant.
LEMMA CalmStep ==
  ASSUME AgentInv, Quiet, pending' \in Seq({"open", "used", "expired"}),
         UNCHANGED <<grants, creds, provider, ended, stored>>
  PROVE  AgentInv'
<1>1. Made' = Made BY DEF Made
<1>2. AgentShape'
  <2>1. \A p \in Replica : Sane(req'[p]) BY QuietShape DEF AgentInv
  <2> QED BY <1>1, <2>1 DEF AgentInv, AgentShape, Quiet, Sane
<1>3. EndsKept' /\ TokensKept' BY <1>1 DEF AgentInv, EndsKept, TokensKept
<1>4. LeasesKept' BY <1>1, LeasesSame
<1>5. \A g \in Made : Agents!Spendable(g)' \subseteq Agents!Spendable(g) BY DEF Agents!Spendable
<1>6. \A g \in Made' : OneChain(g)' BY <1>1, <1>5, QuietChain
<1> QED BY <1>2, <1>3, <1>4, <1>6 DEF AgentInv

-----------------------------------------------------------------------------
(* Steps that write one connection *)

\* What may become of a connection: it does not come back, and it keeps its
\* token, loses it by being revoked, or gets one between those stored and the
\* provider's.
MayBecome(g, r) ==
    /\ r \in Connection
    /\ Over(grants[g]) => Over(r)
    /\ r.revoked => r.token = None
    /\ ~r.revoked =>
        /\ ~grants[g].revoked /\ r.token \in Nat
        /\ r.token = grants[g].token \/ (stored[g] <= r.token /\ r.token <= provider[g])

\* What one written connection does to the records and to the ghosts.
LEMMA OneWritten ==
  ASSUME AgentInv, NEW g \in Made, NEW r, MayBecome(g, r), grants' = [grants EXCEPT ![g] = r],
         Agents!NoteEnded, Agents!NoteStored, provider' = provider
  PROVE  /\ Made' = Made /\ grants' \in Seq(Connection) /\ Len(grants') = Len(grants)
         /\ grants'[g] = r /\ \A h \in Made \ {g} : grants'[h] = grants[h] /\ stored'[h] = stored[h]
         /\ stored' \in [Made -> Nat] /\ stored'[g] = (IF r.revoked THEN stored[g] ELSE r.token)
         /\ ended' \subseteq Made
         /\ \A h \in ended' : Over(grants'[h])
         /\ TokensKept'
<1>0. /\ Len(grants) \in Nat /\ DOMAIN grants = Made /\ grants \in Seq(Connection)
      /\ \A h \in Made : grants[h] \in Connection /\ provider[h] \in Nat /\ stored[h] \in Nat
  BY Connections DEF AgentInv, AgentShape
<1>1. /\ grants' \in Seq(Connection) /\ Len(grants') = Len(grants) /\ DOMAIN grants' = Made
      /\ grants'[g] = r /\ \A h \in Made \ {g} : grants'[h] = grants[h]
  BY <1>0 DEF Made, MayBecome
<1>2. Made' = Made BY <1>1 DEF Made
<1>3. \A h \in Made :
        stored'[h] = IF grants'[h].token # None /\ grants'[h].token > stored[h] THEN grants'[h].token ELSE stored[h]
  BY <1>0, <1>1 DEF Agents!NoteStored, Agents!Grants
<1>4. None \notin Nat BY AgentsAssumption DEF Agents!AgentAssumption
<1>5. \A h \in Made : grants[h].token = (IF grants[h].revoked THEN None ELSE stored[h]) /\ stored[h] <= provider[h]
  BY DEF AgentInv, TokensKept
<1>6. \A h \in Made \ {g} : stored'[h] = stored[h]
  <2> SUFFICES ASSUME NEW h \in Made \ {g} PROVE stored'[h] = stored[h] OBVIOUS
  <2>1. grants'[h].token = None \/ grants'[h].token = stored[h] BY <1>1, <1>5
  <2> QED BY <1>0, <1>3, <2>1
<1>7. stored'[g] = IF r.revoked THEN stored[g] ELSE r.token
  <2>1. CASE r.revoked BY <1>1, <1>3, <2>1 DEF MayBecome
  <2>2. CASE ~r.revoked
    <3>1. r.token \in Nat /\ stored[g] <= r.token BY <1>0, <1>5, <2>2 DEF MayBecome
    <3> QED BY <1>0, <1>1, <1>3, <1>4, <2>2, <3>1
  <2> QED BY <2>1, <2>2
<1>8. stored' \in [Made -> Nat]
  <2>1. \A h \in Made : stored'[h] \in Nat BY <1>0, <1>6, <1>7 DEF MayBecome
  <2>2. stored' = [h \in Made |-> stored'[h]] BY <1>1 DEF Agents!NoteStored
  <2> QED BY <2>1, <2>2
<1>9. ended' \subseteq Made /\ \A h \in ended' : Over(grants'[h])
  <2>1. ended' = ended \cup {h \in Made : Over(grants'[h])} BY <1>1 DEF Agents!NoteEnded, Over
  <2>2. ended \subseteq Made /\ \A h \in ended : Over(grants[h]) BY DEF AgentInv, AgentShape, EndsKept
  <2>3. \A h \in ended : Over(grants'[h])
    <3> SUFFICES ASSUME NEW h \in ended PROVE Over(grants'[h]) OBVIOUS
    <3>1. CASE h = g BY <1>1, <2>2, <3>1 DEF MayBecome
    <3>2. CASE h # g
      <4>1. grants'[h] = grants[h] BY <1>1, <2>2, <3>2
      <4> QED BY <2>2, <4>1
    <3> QED BY <3>1, <3>2
  <2> HIDE DEF Over
  <2> QED BY <2>1, <2>2, <2>3
<1>10. TokensKept'
  <2> SUFFICES ASSUME NEW h \in Made
               PROVE  /\ grants'[h].token = IF grants'[h].revoked THEN None ELSE stored'[h]
                      /\ stored'[h] <= provider[h]
    BY <1>2 DEF TokensKept
  <2>1. CASE h = g
    <3>1. CASE r.revoked BY <1>1, <1>5, <1>7, <2>1, <3>1 DEF MayBecome
    <3>2. CASE ~r.revoked
      <4>1. r.token <= provider[g] BY <1>5, <3>2 DEF MayBecome
      <4> QED BY <1>1, <1>7, <2>1, <3>2, <4>1
    <3> QED BY <3>1, <3>2
  <2>2. CASE h # g BY <1>1, <1>5, <1>6, <2>2
  <2> QED BY <2>1, <2>2
<1> QED BY <1>1, <1>2, <1>6, <1>7, <1>8, <1>9, <1>10

\* A transaction on one connection, by a request that does not take over the lease
\* of one that has a fresh token to store.
LEMMA GrantStep ==
  ASSUME AgentInv, Quiet, NEW g \in Made, NEW r, MayBecome(g, r), grants' = [grants EXCEPT ![g] = r],
         Agents!NoteEnded, Agents!NoteStored, UNCHANGED <<creds, pending, provider>>,
         \A p \in Replica : Storing(p)' /\ r.lease = p =>
            grants[g].lease = p /\ (r.revoked \/ r.token = grants[g].token)
  PROVE  AgentInv'
<1>1. /\ Made' = Made /\ grants' \in Seq(Connection) /\ Len(grants') = Len(grants)
      /\ grants'[g] = r /\ \A h \in Made \ {g} : grants'[h] = grants[h] /\ stored'[h] = stored[h]
      /\ stored' \in [Made -> Nat] /\ stored'[g] = (IF r.revoked THEN stored[g] ELSE r.token)
      /\ ended' \subseteq Made
      /\ \A h \in ended' : Over(grants'[h])
      /\ TokensKept'
  BY OneWritten
<1>2. AgentShape'
  <2>1. \A p \in Replica : Sane(req'[p]) BY QuietShape DEF AgentInv
  <2> QED BY <1>1, <2>1 DEF AgentInv, AgentShape, Quiet, Sane
<1>3. EndsKept' BY <1>1 DEF AgentInv, EndsKept
<1>4. LeasesKept'
  <2>1. ASSUME NEW p \in Replica, NEW h \in Made, Storing(p)', grants'[h].lease = p
        PROVE  grants[h].lease = p /\ stored'[h] = stored[h]
    <3>1. CASE h # g BY <1>1, <2>1, <3>1
    <3>2. CASE h = g
      <4>1. grants[g].lease = p /\ (r.revoked \/ r.token = grants[g].token) BY <1>1, <2>1, <3>2
      <4>2. ~r.revoked => grants[g].token = stored[g] BY DEF MayBecome, AgentInv, TokensKept
      <4> QED BY <1>1, <3>2, <4>1, <4>2
    <3> QED BY <3>1, <3>2
  <2> QED BY <1>1, <2>1, LeasesSame
<1>5. \A h \in Made : Agents!Spendable(h)' \subseteq Agents!Spendable(h) BY DEF Agents!Spendable
<1>6. \A h \in Made' : OneChain(h)' BY <1>1, <1>5, QuietChain
<1> QED BY <1>1, <1>2, <1>3, <1>4, <1>6 DEF AgentInv

\* A connection is revoked.
LEMMA RevokeStep ==
  ASSUME AgentInv, Quiet, NEW g \in Made, Agents!SetGrants([grants EXCEPT ![g] = Agents!Revoked(@)]),
         UNCHANGED provider
  PROVE  AgentInv'
<1> DEFINE r == Agents!Revoked(grants[g])
<1>1. grants[g] \in Connection BY Connections DEF AgentInv
<1>2. r \in Connection /\ r.revoked = TRUE /\ r.token = None /\ r.lease = grants[g].lease
  BY <1>1 DEF Agents!Revoked, Connection
<1>3. grants' = [grants EXCEPT ![g] = r] /\ Agents!NoteEnded /\ Agents!NoteStored /\ UNCHANGED <<creds, pending>>
  BY DEF Agents!SetGrants
<1> HIDE DEF r
<1>4. MayBecome(g, r) BY <1>2 DEF MayBecome, Over
<1> QED BY <1>2, <1>3, <1>4, GrantStep

-----------------------------------------------------------------------------
(* The actions on connections *)

\* A replica takes the lease of a connection that nobody holds.
LEMMA AcquireLeaseInv ==
  ASSUME AgentInv, NEW p \in Replica, Agents!AcquireLease(p)
  PROVE  AgentInv'
<1>0. PICK g \in Made : g = req[p].grant /\ req[p] \in Job /\ req[p].pc = "acquire"
  BY JobOf DEF AgentInv, Agents!AcquireLease
<1> DEFINE r == [grants[g] EXCEPT !.lease = p, !.held = TRUE]
<1>1. grants[g] \in Connection BY Connections DEF AgentInv
<1>2. /\ r \in Connection /\ r.revoked = grants[g].revoked /\ r.token = grants[g].token /\ r.lease = p
      /\ r.life = grants[g].life
  BY <1>1 DEF Connection
<1>3. /\ grants' = [grants EXCEPT ![g] = r] /\ Agents!NoteEnded /\ Agents!NoteStored
      /\ UNCHANGED <<creds, pending, provider>> /\ ~grants[g].revoked
  BY <1>0 DEF Agents!SetGrants, Agents!AcquireLease, Agents!Live
<1> HIDE DEF r
<1>4. MayBecome(g, r)
  <2>1. grants[g].token = stored[g] /\ stored[g] \in Nat BY <1>3, Connections DEF AgentInv, TokensKept
  <2>2. ~r.revoked BY <1>2, <1>3
  <2>3. Over(grants[g]) => Over(r) BY <1>2 DEF Over
  <2> QED BY <1>2, <1>3, <2>1, <2>2, <2>3 DEF MayBecome
<1>5. Quiet /\ ~Storing(p)'
  <2>1. CASE req' = [req EXCEPT ![p].pc = "exchange", ![p].token = grants[g].token]
    <3> DEFINE x == [req[p] EXCEPT !.pc = "exchange", !.token = grants[g].token]
    <3>1. /\ x \in Job /\ x.pc = "exchange" /\ x.grant = g /\ x.op = req[p].op
      BY <1>0, <1>1 DEF Job, Connection
    <3>2. req \in [Replica -> {Agents!Idle} \cup Consenting \cup Job] /\ req' = [req EXCEPT ![p] = x]
      BY <2>1 DEF AgentInv, AgentShape
    <3> HIDE DEF x
    <3>3. /\ req' \in [Replica -> {Agents!Idle} \cup Consenting \cup Job] /\ req'[p] = x
          /\ \A q \in Replica \ {p} : req'[q] = req[q]
      BY <3>1, <3>2
    <3>4. ~Storing(p)' BY <3>1, <3>3 DEF Storing
    <3>5. \A h \in Made : p \in Agents!Replacing(h)' => p \in Agents!Replacing(h)
      BY <1>0, <3>1, <3>3 DEF Agents!Replacing
    <3> QED BY <3>1, <3>3, <3>4, <3>5 DEF Quiet, Sane
  <2>2. CASE Agents!Failed(p)
    <3>1. Quiet BY <1>0, <2>2, FailedQuiet DEF AgentInv
    <3>2. ~Storing(p) BY <1>0 DEF Storing
    <3>3. ~Storing(p)'
      <4>1. CASE req'[p] = req[p] BY <3>2, <4>1 DEF Storing
      <4>2. CASE req'[p] # req[p] BY <3>1, <4>2 DEF Quiet
      <4> QED BY <4>1, <4>2
    <3> QED BY <3>1, <3>3
  <2> QED BY <1>0, <2>1, <2>2 DEF Agents!AcquireLease
<1>6. \A q \in Replica : Storing(q)' /\ r.lease = q =>
        grants[g].lease = q /\ (r.revoked \/ r.token = grants[g].token)
  BY <1>2, <1>5
<1> QED BY <1>3, <1>4, <1>5, <1>6, GrantStep

\* The closing transaction of firebaseFor.
LEMMA FinishInv ==
  ASSUME AgentInv, NEW p \in Replica, Agents!Finish(p)
  PROVE  AgentInv'
<1>0. PICK g \in Made : g = req[p].grant /\ req[p] \in Job /\ req[p].pc = "finish"
  BY JobOf DEF AgentInv, Agents!Finish
<1> DEFINE r == Agents!Closed(p, g)
<1> DEFINE released == [grants[g] EXCEPT !.lease = None, !.held = FALSE]
<1>1. grants[g] \in Connection BY Connections DEF AgentInv
<1>2. /\ grants' = [grants EXCEPT ![g] = r] /\ Agents!NoteEnded /\ Agents!NoteStored
      /\ UNCHANGED <<creds, pending, provider>> /\ ~grants[g].revoked /\ grants[g].life = "live"
      /\ grants[g].lease = p
  BY <1>0 DEF Agents!SetGrants, Agents!Finish, Agents!Live, Agents!HoldsLease
<1>3. /\ released \in Connection /\ released.revoked = FALSE /\ released.token = grants[g].token
      /\ released.life = "live" /\ released.lease = None
  BY <1>1, <1>2 DEF Connection
<1> HIDE DEF released
<1>4. /\ r \in Connection /\ r.lease = None
      /\ \/ r.revoked = TRUE /\ r.token = None
         \/ r.revoked = FALSE /\ r.token = grants[g].token
         \/ r.revoked = FALSE /\ req[p].result \notin {"refused", "unavailable"} /\ r.token = req[p].token
  <2>1. CASE req[p].result = "refused"
    <3>1. r = Agents!Revoked(released) BY <2>1 DEF Agents!Closed, released
    <3> QED BY <1>3, <3>1 DEF Agents!Revoked, Connection
  <2>2. CASE req[p].result = "unavailable"
    <3>1. r = released BY <2>2 DEF Agents!Closed, released
    <3> QED BY <1>3, <3>1
  <2>3. CASE req[p].result \notin {"refused", "unavailable"}
    <3>1. r = [released EXCEPT !.token = req[p].token] BY <2>3 DEF Agents!Closed, released
    <3>2. req[p].token \in Nat \cup {None} BY <1>0 DEF Job
    <3> QED BY <1>3, <2>3, <3>1, <3>2 DEF Connection
  <2> QED BY <2>1, <2>2, <2>3
<1>5. MayBecome(g, r)
  <2>1. ~Over(grants[g]) BY <1>2 DEF Over
  <2>2. CASE r.revoked = TRUE /\ r.token = None BY <1>4, <2>1, <2>2 DEF MayBecome
  <2>3. CASE r.revoked = FALSE /\ r.token = grants[g].token
    <3>1. grants[g].token = stored[g] /\ stored[g] \in Nat BY <1>2, Connections DEF AgentInv, TokensKept
    <3> HIDE DEF r
    <3> QED BY <1>2, <1>4, <2>1, <2>3, <3>1 DEF MayBecome
  <2>4. CASE r.revoked = FALSE /\ req[p].result \notin {"refused", "unavailable"} /\ r.token = req[p].token
    <3>1. Storing(p) BY <1>0, <2>4 DEF Storing
    <3>2. Newest(p) BY <3>1 DEF AgentInv, LeasesKept
    <3>3. req[p].token \in Nat /\ req[p].token <= provider[g] /\ stored[g] <= req[p].token
      BY <1>0, <1>2, <3>2 DEF Newest
    <3> HIDE DEF r
    <3> QED BY <1>2, <1>4, <2>1, <2>4, <3>3 DEF MayBecome
  <2> QED BY <1>4, <2>2, <2>3, <2>4
<1>6. Quiet
  <2>1. CASE Agents!Done(p) BY <2>1, DoneQuiet DEF AgentInv
  <2>2. CASE Agents!Failed(p) BY <1>0, <2>2, FailedQuiet DEF AgentInv
  <2>3. CASE Agents!Go(p, Agents!Returned(p)) BY <1>0, <2>3, GoQuiet DEF AgentInv, Agents!Returned, Agents!Forced
  <2>4. Agents!Done(p) \/ Agents!Failed(p) \/ Agents!Go(p, Agents!Returned(p)) BY DEF Agents!Finish
  <2> QED BY <2>1, <2>2, <2>3, <2>4
<1>7. None \notin Replica BY AgentsAssumption DEF Agents!AgentAssumption
<1>8. \A q \in Replica : Storing(q)' /\ r.lease = q =>
        grants[g].lease = q /\ (r.revoked \/ r.token = grants[g].token)
  BY <1>4, <1>7
<1> HIDE DEF r
<1> QED BY <1>2, <1>5, <1>6, <1>8, GrantStep

\* The fifteen seconds of a lease pass, whoever still works under it.
LEMMA LeaseExpiresInv ==
  ASSUME AgentInv, NEW g \in Made, Agents!LeaseExpires(g)
  PROVE  AgentInv'
<1> DEFINE r == [grants[g] EXCEPT !.held = FALSE]
<1>1. grants[g] \in Connection BY Connections DEF AgentInv
<1>2. /\ r \in Connection /\ r.revoked = grants[g].revoked /\ r.token = grants[g].token
      /\ r.lease = grants[g].lease /\ r.life = grants[g].life
  BY <1>1 DEF Connection
<1>3. /\ grants' = [grants EXCEPT ![g] = r] /\ Agents!NoteEnded /\ Agents!NoteStored
      /\ UNCHANGED <<creds, pending, provider>> /\ UNCHANGED req
  BY DEF Agents!SetGrants, Agents!LeaseExpires
<1> HIDE DEF r
<1>4. MayBecome(g, r)
  <2>1. /\ grants[g].token = IF grants[g].revoked THEN None ELSE stored[g]
        /\ stored[g] \in Nat
    BY Connections DEF AgentInv, TokensKept
  <2>2. Over(grants[g]) => Over(r) BY <1>2 DEF Over
  <2>3. CASE r.revoked BY <1>2, <2>1, <2>2, <2>3 DEF MayBecome
  <2>4. CASE ~r.revoked BY <1>2, <2>1, <2>2, <2>4 DEF MayBecome
  <2> QED BY <2>3, <2>4
<1>5. Quiet BY <1>3, StillQuiet DEF AgentInv
<1> QED BY <1>2, <1>3, <1>4, <1>5, GrantStep

\* ExpiresAt or IdleUntil passes.
LEMMA GrantAgesInv ==
  ASSUME AgentInv, NEW g \in Made, Agents!GrantAges(g)
  PROVE  AgentInv'
<1> DEFINE r == [grants[g] EXCEPT !.life = IF grants[g].life = "live" THEN "lapsed" ELSE "retired"]
<1>1. grants[g] \in Connection BY Connections DEF AgentInv
<1>2. /\ r \in Connection /\ r.revoked = grants[g].revoked /\ r.token = grants[g].token
      /\ r.lease = grants[g].lease /\ r.life # "live"
  BY <1>1 DEF Connection
<1>3. /\ grants' = [grants EXCEPT ![g] = r] /\ Agents!NoteEnded /\ Agents!NoteStored
      /\ UNCHANGED <<creds, pending, provider>> /\ UNCHANGED req
  BY DEF Agents!SetGrants, Agents!GrantAges
<1> HIDE DEF r
<1>4. MayBecome(g, r)
  <2>1. /\ grants[g].token = IF grants[g].revoked THEN None ELSE stored[g]
        /\ stored[g] \in Nat
    BY Connections DEF AgentInv, TokensKept
  <2>2. Over(r) BY <1>2 DEF Over
  <2>3. CASE r.revoked BY <1>2, <2>1, <2>2, <2>3 DEF MayBecome
  <2>4. CASE ~r.revoked BY <1>2, <2>1, <2>2, <2>4 DEF MayBecome
  <2> QED BY <2>3, <2>4
<1>5. Quiet BY <1>3, StillQuiet DEF AgentInv
<1> QED BY <1>2, <1>3, <1>4, <1>5, GrantStep

\* MaintainAgents takes the token of a connection that ended, and the record of a retired one.
LEMMA MaintainGrantInv ==
  ASSUME AgentInv, NEW g \in Made, Agents!MaintainGrant(g)
  PROVE  AgentInv'
<1>1. CASE Agents!SetGrants([grants EXCEPT ![g] = Agents!Revoked(@)]) /\ UNCHANGED <<cache, provider, req>>
  <2>1. Quiet BY <1>1, StillQuiet DEF AgentInv
  <2> QED BY <1>1, <2>1, RevokeStep
<1>2. CASE /\ grants' = [grants EXCEPT ![g] = [Agents!Revoked(@) EXCEPT !.life = "gone"]]
           /\ Agents!NoteEnded /\ Agents!NoteStored
           /\ UNCHANGED <<pending, creds, cache, provider, req>>
  <2> DEFINE r == [Agents!Revoked(grants[g]) EXCEPT !.life = "gone"]
  <2>1. grants[g] \in Connection BY Connections DEF AgentInv
  <2>2. r \in Connection /\ r.revoked = TRUE /\ r.token = None /\ r.lease = grants[g].lease
    BY <2>1 DEF Agents!Revoked, Connection
  <2>3. grants' = [grants EXCEPT ![g] = r] BY <1>2
  <2> HIDE DEF r
  <2>4. MayBecome(g, r) BY <2>2 DEF MayBecome, Over
  <2>5. Quiet BY <1>2, StillQuiet DEF AgentInv
  <2> QED BY <1>2, <2>2, <2>3, <2>4, <2>5, GrantStep
<1> QED BY <1>1, <1>2 DEF Agents!MaintainGrant

\* The ways a connection is revoked: a replayed credential, a lost refresh, the
\* client, its owner, and a token that cannot be decrypted.
LEMMA TokenReplayInv ==
  ASSUME AgentInv, NEW p \in Replica, NEW c \in DOMAIN creds, Agents!TokenReplay(p, c)
  PROVE  AgentInv'
<1>1. PICK g \in Made : g = creds[c].grant BY Credentials DEF AgentInv
<1>2. Quiet BY StillQuiet DEF AgentInv, Agents!TokenReplay
<1> QED BY <1>1, <1>2, RevokeStep DEF Agents!TokenReplay

\* token revokes after an indeterminate refresh.
LEMMA TokenGiveUpInv ==
  ASSUME AgentInv, NEW p \in Replica, Agents!TokenGiveUp(p)
  PROVE  AgentInv'
<1>1. PICK g \in Made : g = req[p].grant BY JobOf DEF AgentInv, Agents!TokenGiveUp
<1>2. Quiet BY DoneQuiet DEF AgentInv, Agents!TokenGiveUp
<1> QED BY <1>1, <1>2, RevokeStep DEF Agents!TokenGiveUp

\* The client revokes.
LEMMA RevokeTokenInv ==
  ASSUME AgentInv, NEW g \in Made, Agents!RevokeToken(g)
  PROVE  AgentInv'
<1>1. Quiet BY StillQuiet DEF AgentInv, Agents!RevokeToken
<1> QED BY <1>1, RevokeStep DEF Agents!RevokeToken

\* The user disconnects the agent.
LEMMA DeleteGrantInv ==
  ASSUME AgentInv, NEW g \in Made, NEW p \in Replica, Agents!DeleteGrant(p, g)
  PROVE  AgentInv'
<1>1. Quiet BY StillQuiet DEF AgentInv, Agents!DeleteGrant
<1> QED BY <1>1, RevokeStep DEF Agents!DeleteGrant

\* The stored token cannot be decrypted, and the revocation may fail too.
LEMMA DecryptFailsInv ==
  ASSUME AgentInv, NEW p \in Replica, Agents!DecryptFails(p)
  PROVE  AgentInv'
<1>1. PICK g \in Made : g = req[p].grant BY JobOf DEF AgentInv, Agents!DecryptFails
<1>2. Quiet BY DoneQuiet DEF AgentInv, Agents!DecryptFails
<1>3. CASE Agents!SetGrants([grants EXCEPT ![g] = Agents!Revoked(@)])
  BY <1>2, <1>3, RevokeStep DEF Agents!DecryptFails
<1>4. CASE UNCHANGED <<pending, grants, owners, creds, ended, stored>>
  <2>1. pending' \in Seq({"open", "used", "expired"}) BY <1>4 DEF AgentInv, AgentShape
  <2> QED BY <1>2, <1>4, <2>1, CalmStep DEF Agents!DecryptFails
<1> QED BY <1>1, <1>3, <1>4 DEF Agents!DecryptFails

-----------------------------------------------------------------------------
(* Consents and calls that write no connection *)

\* A consent page is opened.
LEMMA AuthorizeInv ==
  ASSUME AgentInv, Agents!Authorize
  PROVE  AgentInv'
<1>1. pending' \in Seq({"open", "used", "expired"}) BY DEF AgentInv, AgentShape, Agents!Authorize
<1>2. Quiet BY StillQuiet DEF AgentInv, Agents!Authorize
<1> QED BY <1>1, <1>2, CalmStep DEF Agents!Authorize

\* A consent page expires or is denied.
LEMMA PageInv ==
  ASSUME AgentInv, NEW h \in DOMAIN pending, Agents!PendingExpires(h) \/ Agents!Deny(h)
  PROVE  AgentInv'
<1>1. pending' \in Seq({"open", "used", "expired"})
  <2>1. pending \in Seq({"open", "used", "expired"}) BY DEF AgentInv, AgentShape
  <2>2. CASE pending' = [pending EXCEPT ![h] = "expired"] BY <2>1, <2>2
  <2>3. CASE pending' = [pending EXCEPT ![h] = "used"] BY <2>1, <2>3
  <2> QED BY <2>2, <2>3 DEF Agents!PendingExpires, Agents!Deny
<1>2. Quiet BY StillQuiet DEF AgentInv, Agents!PendingExpires, Agents!Deny
<1> QED BY <1>1, <1>2, CalmStep DEF Agents!PendingExpires, Agents!Deny

\* A request begins that does not replace a credential.
LEMMA Begins ==
  ASSUME AgentInv, NEW p \in Replica, NEW x \in Consenting \cup Job, req' = [req EXCEPT ![p] = x],
         x \in Job => x.grant \in Made /\ x.pc = "acquire" /\ x.op = "gateway",
         UNCHANGED <<pending, grants, creds, provider, ended, stored>>
  PROVE  AgentInv'
<1>1. /\ req' \in [Replica -> {Agents!Idle} \cup Consenting \cup Job] /\ req'[p] = x
      /\ \A q \in Replica \ {p} : req'[q] = req[q]
  BY DEF AgentInv, AgentShape
<1>2. ~Storing(p)' BY <1>1 DEF Storing
<1>3. x \in Consenting => x.pc = "consent" BY DEF Consenting
<1>4. \A g \in Made : p \notin Agents!Replacing(g)' BY <1>1, <1>3 DEF Agents!Replacing
<1>5. Quiet BY <1>1, <1>2, <1>4 DEF Quiet, Sane
<1>6. pending' \in Seq({"open", "used", "expired"}) BY DEF AgentInv, AgentShape
<1> QED BY <1>5, <1>6, CalmStep

\* A consent begins.
LEMMA ConsentCheckInv ==
  ASSUME AgentInv, NEW p \in Replica, NEW h \in DOMAIN pending, NEW u \in Account,
         Agents!ConsentCheck(p, h, u)
  PROVE  AgentInv'
<1> DEFINE x == [pc |-> "consent", handle |-> h, uid |-> u]
<1>1. h \in Nat BY LenProperties DEF AgentInv, AgentShape
<1>2. x \in Consenting /\ x \notin Job BY <1>1 DEF Consenting, Job
<1>3. req' = [req EXCEPT ![p] = x] BY DEF Agents!ConsentCheck
<1> HIDE DEF x
<1> QED BY <1>2, <1>3, Begins DEF Agents!ConsentCheck

\* A gateway call begins; it spends no credential.
LEMMA GatewayInv ==
  ASSUME AgentInv, NEW p \in Replica, NEW g \in Made, Agents!Gateway(p, g)
  PROVE  AgentInv'
<1> DEFINE x == [pc |-> "acquire", op |-> "gateway", grant |-> g, token |-> None, result |-> None]
<1>1. g \in Nat BY DEF Made
<1>2. x \in Job /\ x.grant = g /\ x.pc = "acquire" /\ x.op = "gateway" BY <1>1 DEF Job
<1>3. req' = [req EXCEPT ![p] = x] BY DEF Agents!Gateway
<1> HIDE DEF x
<1> QED BY <1>2, <1>3, Begins DEF Agents!Gateway

\* The calls that go on, end, fail or are cut short.
LEMMA CallInv ==
  ASSUME AgentInv, NEW p \in Replica,
         \/ Agents!AcquireInvalid(p) \/ Agents!AcquireCached(p) \/ Agents!AcquireBusy(p)
         \/ Agents!FinishInvalid(p) \/ Agents!Touch(p) \/ Agents!Fails(p) \/ Agents!Crash(p)
  PROVE  AgentInv'
<1>1. Quiet
  <2>0. AgentShape BY DEF AgentInv
  <2>1. CASE Agents!Done(p) BY <2>0, <2>1, DoneQuiet
  <2>2. CASE Agents!AcquireCached(p) BY <2>0, <2>2, GoQuiet DEF Agents!AcquireCached, Agents!Returned, Agents!Forced
  <2>3. CASE Agents!AcquireBusy(p) BY <2>0, <2>3, FailedQuiet DEF Agents!AcquireBusy
  <2>4. CASE Agents!Fails(p)
    <3>1. CASE req[p].pc \in {"acquire", "finish"} BY <2>0, <2>4, <3>1, FailedQuiet DEF Agents!Fails
    <3>2. CASE req[p].pc \notin {"acquire", "finish"} BY <2>1, <2>4, <3>2 DEF Agents!Fails
    <3> QED BY <3>1, <3>2
  <2> QED BY <2>1, <2>2, <2>3, <2>4
       DEF Agents!AcquireInvalid, Agents!FinishInvalid, Agents!Touch, Agents!Crash
<1>2. UNCHANGED <<pending, grants, creds, provider, ended, stored>>
  BY DEF Agents!AcquireInvalid, Agents!AcquireCached, Agents!AcquireBusy, Agents!FinishInvalid,
         Agents!Touch, Agents!Fails, Agents!Crash
<1>3. pending' \in Seq({"open", "used", "expired"}) BY <1>2 DEF AgentInv, AgentShape
<1> QED BY <1>1, <1>2, <1>3, CalmStep

\* A cached ID token is no longer used.
LEMMA SessionExpiresInv ==
  ASSUME AgentInv, NEW p \in Replica, NEW g, Agents!SessionExpires(p, g)
  PROVE  AgentInv'
<1>1. Quiet /\ UNCHANGED <<pending, grants, creds, provider, ended, stored>>
  BY StillQuiet DEF AgentInv, Agents!SessionExpires
<1>2. pending' \in Seq({"open", "used", "expired"}) BY <1>1 DEF AgentInv, AgentShape
<1> QED BY <1>1, <1>2, CalmStep

-----------------------------------------------------------------------------
(* Credentials *)

\* MaintainAgents deletes a credential that can no longer be replayed.
LEMMA MaintainCredentialInv ==
  ASSUME AgentInv, NEW c \in DOMAIN creds, Agents!MaintainCredential(c)
  PROVE  AgentInv'
<1>0. /\ Len(creds) \in Nat /\ DOMAIN creds = 1..Len(creds) /\ creds \in Seq(Credential)
      /\ \A d \in 1..Len(creds) : creds[d] \in Credential /\ creds[d].grant \in Made
  BY Credentials DEF AgentInv, AgentShape
<1> DEFINE x == [creds[c] EXCEPT !.kind = "deleted"]
<1>1. x \in Credential /\ x.grant = creds[c].grant /\ x.used = creds[c].used /\ x.late = creds[c].late
      /\ x.kind = "deleted"
  BY <1>0 DEF Credential
<1>2. creds' = [creds EXCEPT ![c] = x] /\ UNCHANGED <<pending, grants, provider, ended, stored>> /\ UNCHANGED req
  BY DEF Agents!MaintainCredential
<1> HIDE DEF x
<1>3. /\ creds' \in Seq(Credential) /\ Len(creds') = Len(creds) /\ DOMAIN creds' = DOMAIN creds
      /\ creds'[c] = x /\ \A d \in DOMAIN creds \ {c} : creds'[d] = creds[d]
  BY <1>0, <1>1, <1>2
<1>4. Made' = Made BY <1>2 DEF Made
<1>5. AgentShape'
  <2>1. \A d \in 1..Len(creds') : creds'[d].grant \in Made BY <1>0, <1>1, <1>3
  <2> QED BY <1>2, <1>3, <1>4, <2>1 DEF AgentInv, AgentShape, Sane
<1>6. EndsKept' BY <1>0, <1>1, <1>2, <1>3 DEF AgentInv, EndsKept
<1>7. TokensKept' /\ LeasesKept'
  BY <1>2, <1>4 DEF AgentInv, TokensKept, LeasesKept, Newest, Storing
<1>8. \A g \in Made : Agents!Spendable(g)' \subseteq Agents!Spendable(g)
  BY <1>1, <1>3 DEF Agents!Spendable
<1>9. Quiet BY <1>2, StillQuiet DEF AgentInv
<1>10. \A g \in Made' : OneChain(g)' BY <1>4, <1>8, <1>9, QuietChain
<1> QED BY <1>5, <1>6, <1>7, <1>10 DEF AgentInv

\* A credential is spent: the request that spends it is the one to replace it.
LEMMA TokenUseInv ==
  ASSUME AgentInv, NEW p \in Replica, NEW c \in DOMAIN creds, Agents!TokenUse(p, c)
  PROVE  AgentInv'
<1>0. /\ Len(creds) \in Nat /\ DOMAIN creds = 1..Len(creds) /\ creds \in Seq(Credential)
      /\ \A d \in 1..Len(creds) : creds[d] \in Credential /\ creds[d].grant \in Made
  BY Credentials DEF AgentInv, AgentShape
<1>a. PICK g \in Made : g = creds[c].grant BY <1>0
<1> DEFINE x == [creds[c] EXCEPT !.used = TRUE]
<1>1. x \in Credential /\ x.grant = g /\ x.used = TRUE /\ x.late = creds[c].late
  BY <1>0, <1>a DEF Credential
<1>2. /\ creds' = [creds EXCEPT ![c] = x] /\ UNCHANGED <<pending, grants, provider, ended, stored>>
      /\ req[p] = Agents!Idle /\ c \in Agents!Spendable(g)
  BY <1>a DEF Agents!TokenUse, Agents!Spendable
<1> HIDE DEF x
<1>3. /\ creds' \in Seq(Credential) /\ Len(creds') = Len(creds) /\ DOMAIN creds' = DOMAIN creds
      /\ creds'[c] = x /\ \A d \in DOMAIN creds \ {c} : creds'[d] = creds[d]
  BY <1>0, <1>1, <1>2
<1>4. Made' = Made BY <1>2 DEF Made
<1>5. EndsKept' BY <1>0, <1>1, <1>2, <1>3 DEF AgentInv, EndsKept
<1>6. /\ \A h \in Made : Agents!Spendable(h)' \subseteq Agents!Spendable(h)
      /\ c \notin Agents!Spendable(g)'
  BY <1>1, <1>3 DEF Agents!Spendable
<1>7. \A d \in 1..Len(creds') : creds'[d].grant \in Made BY <1>0, <1>1, <1>3
<1>8. CASE UNCHANGED req
  <2>1. Quiet BY <1>8, StillQuiet DEF AgentInv
  <2>2. \A h \in Made' : OneChain(h)' BY <1>4, <1>6, <2>1, QuietChain
  <2>3. AgentShape' BY <1>2, <1>3, <1>4, <1>7, <1>8 DEF AgentInv, AgentShape, Sane
  <2>4. TokensKept' /\ LeasesKept'
    BY <1>2, <1>4, <1>8 DEF AgentInv, TokensKept, LeasesKept, Newest, Storing
  <2> QED BY <1>5, <2>2, <2>3, <2>4 DEF AgentInv
<1>9. CASE req' = [req EXCEPT ![p] =
              [pc |-> IF creds[c].kind = "code" THEN "issue" ELSE "acquire",
               op |-> "token", grant |-> g, token |-> None, result |-> None]]
  <2> DEFINE y == [pc |-> IF creds[c].kind = "code" THEN "issue" ELSE "acquire",
                   op |-> "token", grant |-> g, token |-> None, result |-> None]
  <2>1. y \in Job /\ y.grant = g /\ y.pc \in {"issue", "acquire"} /\ y.op = "token" BY DEF Job, Made
  <2> HIDE DEF y
  <2>2. /\ req' \in [Replica -> {Agents!Idle} \cup Consenting \cup Job] /\ req'[p] = y
        /\ \A q \in Replica \ {p} : req'[q] = req[q]
    BY <1>9, <2>1 DEF AgentInv, AgentShape, y
  <2>3. AgentShape'
    <3>1. \A q \in Replica : Sane(req'[q])
      BY <2>1, <2>2 DEF AgentInv, AgentShape, Sane
    <3> QED BY <1>2, <1>3, <1>4, <1>7, <2>2, <3>1 DEF AgentInv, AgentShape, Sane
  <2>4. TokensKept' BY <1>2, <1>4 DEF AgentInv, TokensKept
  <2>5. LeasesKept'
    <3> SUFFICES ASSUME NEW q \in Replica, Storing(q)' PROVE Newest(q)' BY DEF LeasesKept
    <3>1. q # p BY <2>1, <2>2 DEF Storing
    <3>2. req'[q] = req[q] BY <2>2, <3>1
    <3>3. Storing(q) BY <3>2 DEF Storing
    <3> QED BY <1>2, <3>2, <3>3 DEF AgentInv, LeasesKept, Newest
  <2>6. ASSUME NEW h \in Made, h # g PROVE OneChain(h)'
    <3>1. Agents!Replacing(h)' \subseteq Agents!Replacing(h)
      BY <2>1, <2>2, <2>6 DEF Agents!Replacing
    <3>2. OneChain(h) BY DEF AgentInv
    <3>3. Agents!Spendable(h)' \subseteq Agents!Spendable(h) BY <1>6
    <3> HIDE DEF Agents!Replacing, Agents!Spendable
    <3> QED BY <3>1, <3>2, <3>3 DEF OneChain
  <2>7. OneChain(g)'
    <3>1. OneChain(g) BY DEF AgentInv
    <3>2. Agents!Replacing(g) = {} BY <1>2, <3>1 DEF OneChain
    <3>3. Agents!Replacing(g)' \subseteq {p} BY <2>2, <3>2 DEF Agents!Replacing
    <3>4. Agents!Spendable(g)' = {}
      <4>1. Agents!Spendable(g)' \subseteq Agents!Spendable(g) BY <1>6
      <4> HIDE DEF Agents!Spendable
      <4> QED BY <1>2, <1>6, <3>1, <4>1 DEF OneChain
    <3> HIDE DEF Agents!Replacing, Agents!Spendable
    <3> QED BY <3>3, <3>4 DEF OneChain
  <2> QED BY <1>4, <1>5, <2>3, <2>4, <2>5, <2>6, <2>7 DEF AgentInv
<1> QED BY <1>a, <1>8, <1>9 DEF Agents!TokenUse

\* The replacement is issued by the request that spent its predecessor, for a
\* connection that has not ended.
LEMMA TokenIssueInv ==
  ASSUME AgentInv, NEW p \in Replica, Agents!TokenIssue(p)
  PROVE  AgentInv'
<1>0. /\ Len(creds) \in Nat /\ DOMAIN creds = 1..Len(creds) /\ creds \in Seq(Credential)
      /\ \A d \in 1..Len(creds) : creds[d] \in Credential /\ creds[d].grant \in Made
  BY Credentials DEF AgentInv, AgentShape
<1>a. PICK g \in Made : g = req[p].grant /\ req[p] \in Job /\ req[p].pc = "issue" /\ req[p].op = "token"
  BY JobOf DEF AgentInv, Agents!TokenIssue
<1> DEFINE x == [kind |-> "refresh", grant |-> g, used |-> FALSE, late |-> FALSE]
<1>1. (g \in ended) = FALSE
  BY <1>a DEF AgentInv, EndsKept, Over, Agents!TokenIssue, Agents!MayIssue, Agents!Live
<1>2. /\ creds' = Append(creds, x) /\ UNCHANGED <<pending, grants, provider, ended, stored>>
      /\ Agents!Done(p)
  BY <1>a, <1>1 DEF Agents!TokenIssue
<1>3. x \in Credential /\ x.grant = g /\ x.late = FALSE BY DEF Credential, Made
<1> HIDE DEF x
<1>4. /\ creds' \in Seq(Credential) /\ Len(creds') = Len(creds) + 1 /\ creds'[Len(creds) + 1] = x
      /\ DOMAIN creds' = 1..(Len(creds) + 1)
      /\ \A d \in 1..Len(creds) : creds'[d] = creds[d]
  BY <1>0, <1>2, <1>3
<1>5. Made' = Made BY <1>2 DEF Made
<1>6. Quiet BY <1>2, DoneQuiet DEF AgentInv
<1>7. AgentShape'
  <2>1. \A d \in 1..Len(creds') : creds'[d].grant \in Made BY <1>0, <1>3, <1>4
  <2>2. \A q \in Replica : Sane(req'[q]) BY <1>6, QuietShape DEF AgentInv
  <2> QED BY <1>2, <1>4, <1>5, <1>6, <2>1, <2>2 DEF AgentInv, AgentShape, Quiet, Sane
<1>8. EndsKept' BY <1>0, <1>2, <1>3, <1>4 DEF AgentInv, EndsKept
<1>9. TokensKept' BY <1>2, <1>5 DEF AgentInv, TokensKept
<1>10. LeasesKept' BY <1>2, <1>5, <1>6, LeasesSame
<1>11. /\ req'[p] = Agents!Idle /\ \A q \in Replica \ {p} : req'[q] = req[q]
  BY <1>2 DEF Agents!Done, AgentInv, AgentShape
<1>12. ASSUME NEW h \in Made PROVE OneChain(h)'
  <2>1. OneChain(h) BY DEF AgentInv
  <2>2. Agents!Replacing(h)' \subseteq Agents!Replacing(h) \ {p}
    BY <1>11 DEF Agents!Replacing, Agents!Idle
  <2>3. CASE h # g
    <3>1. Agents!Spendable(h)' \subseteq Agents!Spendable(h)
      BY <1>0, <1>3, <1>4, <2>3 DEF Agents!Spendable
    <3> HIDE DEF Agents!Replacing, Agents!Spendable
    <3> QED BY <2>1, <2>2, <3>1 DEF OneChain
  <2>4. CASE h = g
    <3>1. Agents!Spendable(g)' \subseteq Agents!Spendable(g) \cup {Len(creds) + 1}
      BY <1>0, <1>3, <1>4 DEF Agents!Spendable
    <3>2. p \in Agents!Replacing(g) BY <1>a DEF Agents!Replacing
    <3> HIDE DEF Agents!Replacing, Agents!Spendable
    <3>3. Agents!Spendable(g) = {} BY <2>1, <2>4, <3>2 DEF OneChain
    <3>4. Agents!Replacing(g)' = {} BY <2>1, <2>2, <2>4, <3>2 DEF OneChain
    <3> QED BY <2>4, <3>1, <3>3, <3>4 DEF OneChain
  <2> QED BY <2>3, <2>4
<1> QED BY <1>5, <1>7, <1>8, <1>9, <1>10, <1>12 DEF AgentInv

-----------------------------------------------------------------------------
(* The provider's answer, and a new connection *)

\* exchangeFirebase: a fresh token is the provider's newest, so it is not older
\* than anything stored.
LEMMA ExchangeInv ==
  ASSUME AgentInv, NEW p \in Replica, Agents!Exchange(p)
  PROVE  AgentInv'
<1>0. /\ Len(grants) \in Nat /\ DOMAIN grants = Made
      /\ \A h \in Made : grants[h] \in Connection /\ provider[h] \in Nat /\ stored[h] \in Nat
      /\ \A h \in Made : stored[h] <= provider[h]
  BY Connections DEF AgentInv, TokensKept
<1>1. PICK g \in Made : g = req[p].grant /\ req[p] \in Job /\ req[p].pc = "exchange"
  BY JobOf DEF AgentInv, Agents!Exchange
<1>2. Made' = Made /\ UNCHANGED <<pending, grants, creds, ended, stored>> BY DEF Agents!Exchange, Made
<1>3. /\ provider' \in Seq(Nat) /\ Len(provider') = Len(provider)
      /\ \A h \in Made : provider'[h] \in Nat /\ provider[h] <= provider'[h]
  <2>1. provider \in Seq(Nat) /\ Len(provider) = Len(grants) BY DEF AgentInv, AgentShape
  <2>2. CASE provider' = provider BY <1>0, <2>1, <2>2
  <2>3. CASE provider' = [provider EXCEPT ![g] = provider[g] + 1]
    <3>1. provider[g] + 1 \in Nat BY <1>0
    <3>2. /\ provider' \in Seq(Nat) /\ Len(provider') = Len(provider) /\ provider'[g] = provider[g] + 1
          /\ \A h \in Made \ {g} : provider'[h] = provider[h]
      BY <2>1, <2>3, <3>1 DEF Made
    <3> QED BY <1>0, <3>1, <3>2
  <2> QED BY <1>1, <2>2, <2>3 DEF Agents!Exchange
<1>4. PICK result \in {"fresh", "refused", "unavailable"} :
        req' = [req EXCEPT ![p].pc = "finish", ![p].result = result,
                           ![p].token = IF result = "fresh" THEN provider'[g] ELSE @]
  BY <1>1 DEF Agents!Exchange
<1> DEFINE token == IF result = "fresh" THEN provider'[g] ELSE req[p].token
<1> DEFINE x == [req[p] EXCEPT !.pc = "finish", !.result = result, !.token = token]
<1>5. token \in Nat \cup {None} /\ (result = "fresh" => token = provider'[g]) BY <1>1, <1>3 DEF Job
<1>6. req' = [req EXCEPT ![p] = x] BY <1>4
<1> HIDE DEF token
<1>7. /\ x \in Job /\ x.grant = g /\ x.pc = "finish" /\ x.result = result /\ x.token = token /\ x.op = req[p].op
  BY <1>1, <1>5 DEF Job
<1> HIDE DEF x
<1>8. /\ req' \in [Replica -> {Agents!Idle} \cup Consenting \cup Job] /\ req'[p] = x
      /\ \A q \in Replica \ {p} : req'[q] = req[q]
  BY <1>6, <1>7 DEF AgentInv, AgentShape
<1>9. AgentShape'
  <2>1. \A q \in Replica : Sane(req'[q]) BY <1>7, <1>8 DEF AgentInv, AgentShape, Sane
  <2> QED BY <1>2, <1>3, <1>8, <2>1 DEF AgentInv, AgentShape, Sane
<1>10. EndsKept' BY <1>2 DEF AgentInv, EndsKept
<1>11. TokensKept'
  <2>1. \A h \in Made : stored[h] <= provider'[h] BY <1>0, <1>3
  <2> QED BY <1>2, <2>1 DEF AgentInv, TokensKept
<1>12. LeasesKept'
  <2> SUFFICES ASSUME NEW q \in Replica, Storing(q)' PROVE Newest(q)' BY DEF LeasesKept
  <2>1. CASE q = p
    <3>1. result = "fresh" BY <1>7, <1>8, <2>1 DEF Storing
    <3>2. token \in Nat /\ token <= provider'[g] /\ stored[g] <= token BY <1>0, <1>3, <1>5, <3>1
    <3> QED BY <1>2, <1>7, <1>8, <2>1, <3>2 DEF Newest
  <2>2. CASE q # p
    <3>1. req'[q] = req[q] BY <1>8, <2>2
    <3>2. Storing(q) BY <3>1 DEF Storing
    <3>3. Newest(q) BY <3>2 DEF AgentInv, LeasesKept
    <3>4. req[q].grant \in Made BY <3>2 DEF Storing, AgentInv, AgentShape, Sane
    <3>5. PICK old \in Nat, new \in Nat : /\ old = provider[req[q].grant] /\ new = provider'[req[q].grant]
                                         /\ old <= new
      BY <1>0, <1>3, <3>4
    <3>6. req[q].token \in Nat /\ req[q].token <= old BY <3>3, <3>5 DEF Newest
    <3>7. req[q].token <= new BY <3>5, <3>6
    <3> QED BY <1>2, <3>1, <3>3, <3>5, <3>7 DEF Newest
  <2> QED BY <2>1, <2>2
<1>13. ASSUME NEW h \in Made PROVE OneChain(h)'
  <2>1. OneChain(h) BY DEF AgentInv
  <2>2. Agents!Replacing(h)' \subseteq Agents!Replacing(h) BY <1>1, <1>7, <1>8 DEF Agents!Replacing
  <2>3. Agents!Spendable(h)' = Agents!Spendable(h) BY <1>2 DEF Agents!Spendable
  <2> HIDE DEF Agents!Replacing, Agents!Spendable
  <2> QED BY <2>1, <2>2, <2>3 DEF OneChain
<1> QED BY <1>2, <1>9, <1>10, <1>11, <1>12, <1>13 DEF AgentInv

\* A consent becomes a connection with one code.
LEMMA ConsentCommitInv ==
  ASSUME AgentInv, NEW p \in Replica, Agents!ConsentCommit(p)
  PROVE  AgentInv'
<1>0. /\ Len(grants) \in Nat /\ DOMAIN grants = Made /\ grants \in Seq(Connection)
      /\ \A h \in Made : grants[h] \in Connection /\ provider[h] \in Nat /\ stored[h] \in Nat
      /\ Len(creds) \in Nat /\ DOMAIN creds = 1..Len(creds) /\ creds \in Seq(Credential)
      /\ \A d \in 1..Len(creds) : creds[d] \in Credential /\ creds[d].grant \in Made
  BY Connections, Credentials DEF AgentInv, AgentShape
<1>n. PICK n \in Nat : n = Len(grants) + 1 BY <1>0
<1>1. PICK h \in Nat, u \in Account : h = req[p].handle /\ u = req[p].uid
  <2>1. req[p] \in {Agents!Idle} \cup Consenting \cup Job /\ req[p].pc = "consent"
    BY DEF AgentInv, AgentShape, Agents!ConsentCommit
  <2>2. req[p] \in Consenting BY <2>1 DEF Agents!Idle, Job
  <2> QED BY <2>2 DEF Consenting
<1> DEFINE r == Agents!NewGrant(u, h)
<1> DEFINE x == [kind |-> "code", grant |-> n, used |-> FALSE, late |-> FALSE]
<1>2. /\ pending' = [pending EXCEPT ![h] = "used"] /\ grants' = Append(grants, r)
      /\ creds' = Append(creds, x) /\ provider' = Append(provider, 1)
      /\ Agents!NoteEnded /\ Agents!NoteStored /\ Agents!Done(p)
  BY <1>n, <1>1 DEF Agents!ConsentCommit
<1>3. /\ r \in Connection /\ r.revoked = FALSE /\ r.life = "live" /\ r.token = 1 /\ r.lease = None
  BY DEF Agents!NewGrant, Connection
<1>4. x \in Credential /\ x.grant = n /\ x.late = FALSE BY <1>0 DEF Credential
<1> HIDE DEF r, x
<1>5. /\ grants' \in Seq(Connection) /\ Len(grants') = n /\ DOMAIN grants' = 1..n /\ grants'[n] = r
      /\ \A g \in Made : grants'[g] = grants[g]
  BY <1>n, <1>0, <1>2, <1>3 DEF Made
<1>6. /\ creds' \in Seq(Credential) /\ Len(creds') = Len(creds) + 1 /\ creds'[Len(creds) + 1] = x
      /\ DOMAIN creds' = 1..(Len(creds) + 1) /\ \A d \in 1..Len(creds) : creds'[d] = creds[d]
  BY <1>0, <1>2, <1>4
<1>7. /\ provider' \in Seq(Nat) /\ Len(provider') = n /\ provider'[n] = 1
      /\ \A g \in Made : provider'[g] = provider[g]
  <2>1. provider \in Seq(Nat) /\ Len(provider) = Len(grants) BY DEF AgentInv, AgentShape
  <2>2. /\ Append(provider, 1) \in Seq(Nat) /\ Len(Append(provider, 1)) = Len(provider) + 1
        /\ Append(provider, 1)[Len(provider) + 1] = 1
        /\ \A g \in 1..Len(provider) : Append(provider, 1)[g] = provider[g]
    BY <2>1
  <2> QED BY <1>n, <1>2, <2>1, <2>2 DEF Made
<1>8. Made' = 1..n /\ Made' = Made \cup {n} /\ n \notin Made BY <1>n, <1>0, <1>5 DEF Made
<1>9. \A g \in Made : grants[g].token = (IF grants[g].revoked THEN None ELSE stored[g]) /\ stored[g] <= provider[g]
  BY DEF AgentInv, TokensKept
<1>10. stored'[n] = 1 /\ \A g \in Made : stored'[g] = stored[g]
  <2>1. None \notin Nat BY AgentsAssumption DEF Agents!AgentAssumption
  <2>2. \A g \in 1..n : stored'[g] =
          LET before == IF g \in Made THEN stored[g] ELSE 0
              now == grants'[g].token
          IN  IF now # None /\ now > before THEN now ELSE before
    BY <1>0, <1>2, <1>5 DEF Agents!NoteStored, Agents!Grants
  <2>3. stored'[n] = 1 BY <1>3, <1>5, <1>8, <2>1, <2>2
  <2>4. ASSUME NEW g \in Made PROVE stored'[g] = stored[g]
    <3>1. grants'[g].token = None \/ grants'[g].token = stored[g] BY <1>5, <1>9
    <3>2. g \in 1..n BY <1>8
    <3>3. stored'[g] = IF grants'[g].token # None /\ grants'[g].token > stored[g] THEN grants'[g].token ELSE stored[g]
      BY <2>2, <3>2
    <3> QED BY <1>0, <3>1, <3>3
  <2> QED BY <2>3, <2>4
<1>11. stored' \in [Made' -> Nat]
  <2>1. ASSUME NEW g \in Made' PROVE stored'[g] \in Nat
    <3>1. CASE g = n BY <1>10, <3>1
    <3>2. CASE g \in Made BY <1>0, <1>10, <3>2
    <3> QED BY <1>8, <3>1, <3>2
  <2>2. stored' = [g \in Made' |-> stored'[g]] BY <1>2, <1>5, <1>8 DEF Agents!NoteStored
  <2> QED BY <2>1, <2>2
<1>12. ended' \subseteq Made' /\ \A g \in ended' : Over(grants'[g])
  <2>1. ended' = ended \cup {g \in Made' : Over(grants'[g])} BY <1>2, <1>5, <1>8 DEF Agents!NoteEnded, Over
  <2>2. ended \subseteq Made /\ \A g \in ended : Over(grants[g]) BY DEF AgentInv, AgentShape, EndsKept
  <2>3. \A g \in ended : Over(grants'[g]) BY <1>5, <2>2
  <2> HIDE DEF Over
  <2> QED BY <1>8, <2>1, <2>2, <2>3
<1>13. Quiet BY <1>2, DoneQuiet DEF AgentInv
<1>14. /\ req'[p] = Agents!Idle /\ \A q \in Replica \ {p} : req'[q] = req[q]
  BY <1>2 DEF Agents!Done, AgentInv, AgentShape
<1>15. AgentShape'
  <2>1. \A d \in 1..Len(creds') : creds'[d].grant \in Made' BY <1>0, <1>4, <1>6, <1>8
  <2>2. \A q \in Replica : Sane(req[q])'
    <3>1. \A q \in Replica : Sane(req'[q]) BY <1>13, QuietShape DEF AgentInv
    <3> QED BY <1>8, <3>1 DEF Sane
  <2>3. pending' \in Seq({"open", "used", "expired"})
    <3>1. pending \in Seq({"open", "used", "expired"}) /\ pending' = [pending EXCEPT ![h] = "used"]
      BY <1>2 DEF AgentInv, AgentShape
    <3>2. CASE h \in DOMAIN pending BY <3>1, <3>2
    <3>3. CASE h \notin DOMAIN pending
      <4>1. pending' = pending BY <3>1, <3>3
      <4> QED BY <3>1, <4>1
    <3> QED BY <3>2, <3>3
  <2> QED BY <1>5, <1>6, <1>7, <1>8, <1>11, <1>12, <1>13, <2>1, <2>2, <2>3 DEF AgentShape, Quiet
<1>16. EndsKept' BY <1>0, <1>4, <1>6, <1>12 DEF AgentInv, EndsKept
<1>17. TokensKept'
  <2> SUFFICES ASSUME NEW g \in Made'
               PROVE  /\ grants'[g].token = IF grants'[g].revoked THEN None ELSE stored'[g]
                      /\ stored'[g] <= provider'[g]
    BY DEF TokensKept
  <2>1. CASE g = n BY <1>3, <1>5, <1>7, <1>10, <2>1
  <2>2. CASE g \in Made BY <1>5, <1>7, <1>9, <1>10, <2>2
  <2> QED BY <1>8, <2>1, <2>2
<1>18. LeasesKept'
  <2> SUFFICES ASSUME NEW q \in Replica, Storing(q)' PROVE Newest(q)' BY DEF LeasesKept
  <2>1. req'[q] = req[q] BY <1>13 DEF Quiet
  <2>2. Storing(q) BY <2>1 DEF Storing
  <2>3. req[q].grant \in Made /\ Newest(q) BY <2>2 DEF Storing, AgentInv, AgentShape, Sane, LeasesKept
  <2> QED BY <1>5, <1>7, <1>10, <2>1, <2>3 DEF Newest
<1>19. ASSUME NEW g \in Made' PROVE OneChain(g)'
  <2>1. CASE g = n
    <3>1. Agents!Spendable(g)' \subseteq {Len(creds) + 1} BY <1>0, <1>6, <1>8, <2>1 DEF Agents!Spendable
    <3>2. Agents!Replacing(g)' = {}
      BY <1>8, <1>14, <2>1, JobOf DEF AgentInv, Agents!Replacing, Agents!Idle
    <3> HIDE DEF Agents!Replacing, Agents!Spendable
    <3> QED BY <3>1, <3>2 DEF OneChain
  <2>2. CASE g \in Made
    <3>1. OneChain(g) BY <2>2 DEF AgentInv
    <3>2. Agents!Spendable(g)' \subseteq Agents!Spendable(g) BY <1>0, <1>4, <1>6, <1>8, <2>2 DEF Agents!Spendable
    <3>3. Agents!Replacing(g)' \subseteq Agents!Replacing(g) BY <1>14 DEF Agents!Replacing, Agents!Idle
    <3> HIDE DEF Agents!Replacing, Agents!Spendable
    <3> QED BY <3>1, <3>2, <3>3 DEF OneChain
  <2> QED BY <1>8, <2>1, <2>2
<1> QED BY <1>15, <1>16, <1>17, <1>18, <1>19 DEF AgentInv

-----------------------------------------------------------------------------
(* The theorems about connections *)

\* Nothing is made at the start.
LEMMA AgentInitInv == Agents!Init => AgentInv
<1> SUFFICES ASSUME Agents!Init PROVE AgentInv OBVIOUS
<1>1. Made = {} /\ Len(creds) = 0 /\ Len(grants) = 0 /\ Len(provider) = 0 BY DEF Made, Agents!Init
<1>2. \A p \in Replica : req[p] = Agents!Idle /\ req[p] \notin Job BY DEF Agents!Init, Agents!Idle, Job
<1>3. AgentShape
  <2>1. stored \in [Made -> Nat] BY <1>1 DEF Agents!Init
  <2> QED BY <1>1, <1>2, <2>1 DEF Agents!Init, AgentShape, Sane
<1>4. EndsKept /\ TokensKept BY <1>1 DEF Agents!Init, EndsKept, TokensKept
<1>5. LeasesKept BY <1>2 DEF LeasesKept, Storing
<1> QED BY <1>1, <1>3, <1>4, <1>5 DEF AgentInv

\* Every step of every replica, of the provider and of maintenance keeps the invariant.
LEMMA AgentNextInv ==
  ASSUME AgentInv, [Agents!Next]_Agents!vars
  PROVE  AgentInv'
<1>0. Agents!Grants = Made /\ Len(creds) \in Nat BY Connections, Credentials DEF AgentInv
<1>1. CASE UNCHANGED Agents!vars
  <2>1. Quiet /\ UNCHANGED <<pending, grants, creds, provider, ended, stored>>
    BY <1>1, StillQuiet DEF AgentInv, Agents!vars
  <2>2. pending' \in Seq({"open", "used", "expired"}) BY <2>1 DEF AgentInv, AgentShape
  <2> QED BY <2>1, <2>2, CalmStep
<1>2. CASE Agents!Authorize BY <1>2, AuthorizeInv
<1>3. CASE \E h \in DOMAIN pending : Agents!PendingExpires(h) \/ Agents!Deny(h) BY <1>3, PageInv
<1>4. CASE \E p \in Replica, h \in DOMAIN pending, u \in Account : Agents!ConsentCheck(p, h, u)
  BY <1>4, ConsentCheckInv
<1>5. CASE \E p \in Replica : \/ Agents!ConsentCommit(p) \/ Agents!TokenIssue(p) \/ Agents!TokenGiveUp(p)
                              \/ Agents!AcquireLease(p) \/ Agents!DecryptFails(p) \/ Agents!Exchange(p)
                              \/ Agents!Finish(p)
  BY <1>5, ConsentCommitInv, TokenIssueInv, TokenGiveUpInv, AcquireLeaseInv, DecryptFailsInv, ExchangeInv, FinishInv
<1>6. CASE \E p \in Replica :
         \/ Agents!AcquireInvalid(p) \/ Agents!AcquireCached(p) \/ Agents!AcquireBusy(p)
         \/ Agents!FinishInvalid(p) \/ Agents!Touch(p) \/ Agents!Fails(p) \/ Agents!Crash(p)
  BY <1>6, CallInv
<1>7. CASE \E p \in Replica, c \in DOMAIN creds : Agents!TokenReplay(p, c) \/ Agents!TokenUse(p, c)
  BY <1>7, TokenReplayInv, TokenUseInv
<1>8. CASE \E c \in DOMAIN creds : Agents!MaintainCredential(c) BY <1>8, MaintainCredentialInv
<1>9. CASE \E g \in Agents!Grants : \/ Agents!RevokeToken(g) \/ Agents!LeaseExpires(g) \/ Agents!GrantAges(g)
                                    \/ Agents!MaintainGrant(g)
  BY <1>0, <1>9, RevokeTokenInv, LeaseExpiresInv, GrantAgesInv, MaintainGrantInv
<1>10. CASE \E g \in Agents!Grants, p \in Replica : \/ Agents!DeleteGrant(p, g) \/ Agents!Gateway(p, g)
                                                   \/ Agents!SessionExpires(p, g)
  BY <1>0, <1>10, DeleteGrantInv, GatewayInv, SessionExpiresInv
<1> QED BY <1>1, <1>2, <1>3, <1>4, <1>5, <1>6, <1>7, <1>8, <1>9, <1>10 DEF Agents!Next

\* The invariant holds in every state of every behaviour.
LEMMA AgentInvariance == Agents!Spec => []AgentInv
<1>1. Agents!Init => AgentInv BY AgentInitInv
<1>2. AgentInv /\ [Agents!Next]_Agents!vars => AgentInv' BY AgentNextInv
<1> QED BY <1>1, <1>2, PTL DEF Agents!Spec

\* A connection that ended never becomes live again, a revoked one keeps no
\* provider token, and none gets a credential after its end, whatever closing or
\* issuing transaction was under way at the time.
THEOREM EndedForGood == Agents!Spec => []EndedStaysEnded
<1>1. AgentInv => EndedStaysEnded
  <2> SUFFICES ASSUME AgentInv PROVE Agents!EndedStaysEnded BY DEF EndedStaysEnded
  <2>1. \A g \in ended : ~Agents!Live(g) BY DEF AgentInv, EndsKept, Over, Agents!Live
  <2>2. \A g \in ended : grants[g].revoked => grants[g].token = None
    BY DEF AgentInv, AgentShape, TokensKept
  <2>3. \A c \in DOMAIN creds : ~creds[c].late BY Credentials DEF AgentInv, EndsKept
  <2> QED BY <2>1, <2>2, <2>3 DEF Agents!EndedStaysEnded
<1> QED BY <1>1, AgentInvariance, PTL

\* Counting in AgentAuth is counting.
LEMMA SameCount == ASSUME NEW S PROVE Agents!Cardinality(S) = Cardinality(S)
  BY DEF Cardinality, Agents!Cardinality

\* A set whose elements are all the same has at most one.
LEMMA AtMostOne ==
  ASSUME NEW S, \A x, y \in S : x = y
  PROVE  Cardinality(S) \in {0, 1} /\ (S = {} => Cardinality(S) = 0)
<1>1. CASE S = {} BY <1>1, FS_EmptySet
<1>2. CASE S # {}
  <2>1. PICK x \in S : TRUE BY <1>2
  <2>2. S = {x} BY <2>1
  <2>3. Cardinality({x}) = 1 BY FS_Singleton
  <2> QED BY <1>2, <2>2, <2>3
<1> QED BY <1>1, <1>2

\* At every moment a live connection has at most one code or refresh token that is
\* unspent or being replaced, and the provider token it stores is the newest ever
\* stored, whichever replicas work on it and whichever commits were reported as errors.
THEOREM RotationsExact == Agents!Spec => []RotationExact
<1>1. AgentInv => RotationExact
  <2> SUFFICES ASSUME AgentInv, NEW g \in Agents!Grants, Agents!Live(g)
               PROVE  /\ Agents!Cardinality(Agents!Spendable(g)) + Agents!Cardinality(Agents!Replacing(g)) <= 1
                      /\ grants[g].token = stored[g]
    BY DEF RotationExact, Agents!RotationExact
  <2>1. g \in Made BY Connections DEF AgentInv
  <2>2. grants[g].token = stored[g] BY <2>1 DEF AgentInv, TokensKept, Agents!Live
  <2>3. OneChain(g) BY <2>1 DEF AgentInv
  <2> HIDE DEF Agents!Spendable, Agents!Replacing
  <2>4. /\ Cardinality(Agents!Spendable(g)) \in {0, 1} /\ Cardinality(Agents!Replacing(g)) \in {0, 1}
        /\ Cardinality(Agents!Spendable(g)) = 0 \/ Cardinality(Agents!Replacing(g)) = 0
    BY <2>3, AtMostOne DEF OneChain
  <2> QED BY <2>2, <2>4, SameCount
<1> QED BY <1>1, AgentInvariance, PTL

-----------------------------------------------------------------------------
(* The lists of connections *)

LiveOf(u) == {g \in owners[u] : ~Over(grants[g])}

\* A list names present connections of its account, and all of the live ones.
ListsRight ==
    /\ owners \in [Account -> SUBSET Made]
    /\ \A u \in Account : \A g \in owners[u] : grants[g].life # "gone" /\ grants[g].uid = u
    /\ \A g \in Made : ~Over(grants[g]) => g \in owners[grants[g].uid]
    /\ \A u \in Account : Cardinality(LiveOf(u)) <= Quota

\* A connection came from a consent that is used, and from none other's.
ConsentsUsed ==
    /\ \A g \in Made : grants[g].by \in 1..Len(pending) /\ pending[grants[g].by] = "used"
    /\ \A g, k \in Made : g # k => grants[g].by # grants[k].by
    /\ \A p \in Replica : req[p].pc = "consent" => req[p].handle \in 1..Len(pending)

ListInv == ListsRight /\ ConsentsUsed

\* No request comes to a consent.
Settles == \A p \in Replica : req'[p] = req[p] \/ req'[p].pc # "consent"

\* Lists are finite.
LEMMA LiveFinite ==
  ASSUME AgentShape, ListsRight, NEW u \in Account
  PROVE  IsFiniteSet(LiveOf(u)) /\ Cardinality(LiveOf(u)) \in Nat
<1>1. PICK n \in Int : n = Len(grants) BY Connections
<1>2. IsFiniteSet(1..n) BY FS_Interval
<1>3. LiveOf(u) \subseteq 1..n BY <1>1 DEF LiveOf, ListsRight, Made
<1> QED BY <1>2, <1>3, NoLarger

\* A step that adds no connection, brings none back and deletes none.
LEMMA ListFrame ==
  ASSUME AgentInv, ListInv, Settles, Made' = Made, owners' = owners, 
         \A g \in Made : /\ grants'[g].uid = grants[g].uid /\ grants'[g].by = grants[g].by
                         /\ Over(grants[g]) => Over(grants'[g])
                         /\ grants'[g].life = "gone" => grants[g].life = "gone",
         Len(pending') \in Nat, Len(pending) <= Len(pending'),
         \A h \in 1..Len(pending) : pending[h] = "used" => pending'[h] = "used"
  PROVE  ListInv'
<1>1. ListsRight'
  <2>1. \A u \in Account : owners[u] \subseteq Made BY DEF ListInv, ListsRight
  <2>2. \A u \in Account : \A g \in owners[u] : grants'[g].life # "gone" /\ grants'[g].uid = u
    BY <2>1 DEF ListInv, ListsRight
  <2>3. \A g \in Made : ~Over(grants'[g]) => g \in owners[grants'[g].uid] BY DEF ListInv, ListsRight
  <2>4. ASSUME NEW u \in Account PROVE Cardinality(LiveOf(u)') <= Quota
    <3>1. LiveOf(u)' \subseteq LiveOf(u) BY <2>1 DEF LiveOf
    <3>2. IsFiniteSet(LiveOf(u)) BY LiveFinite DEF AgentInv, ListInv
    <3>3. /\ Cardinality(LiveOf(u)') <= Cardinality(LiveOf(u)) /\ Cardinality(LiveOf(u)') \in Nat
          /\ Cardinality(LiveOf(u)) \in Nat
      BY <3>1, <3>2, NoLarger
    <3>4. Cardinality(LiveOf(u)) <= Quota /\ Quota \in Nat
      BY AgentsAssumption DEF ListInv, ListsRight, Agents!AgentAssumption
    <3> QED BY <3>3, <3>4
  <2> QED BY <2>2, <2>3, <2>4 DEF ListInv, ListsRight
<1>2. ConsentsUsed'
  <2>1. Len(pending) \in Nat BY DEF AgentInv, AgentShape
  <2>2. 1..Len(pending) \subseteq 1..Len(pending') BY <2>1
  <2>3. \A p \in Replica : req'[p].pc = "consent" => req'[p].handle \in 1..Len(pending')
    BY <2>2 DEF Settles, ListInv, ConsentsUsed
  <2> QED BY <2>2, <2>3 DEF ListInv, ConsentsUsed
<1> QED BY <1>1, <1>2 DEF ListInv

\* A transaction that writes one connection, and neither lists nor consents.
LEMMA ListWrite ==
  ASSUME AgentInv, ListInv, Settles, NEW g \in Made, NEW r,
         r.uid = grants[g].uid, r.by = grants[g].by, Over(grants[g]) => Over(r), r.life # "gone" \/ grants[g].life = "gone",
         Agents!SetGrants([grants EXCEPT ![g] = r])
  PROVE  ListInv'
<1>1. /\ grants' = [grants EXCEPT ![g] = r] /\ owners' = owners /\ pending' = pending BY DEF Agents!SetGrants
<1>2. grants \in Seq(Connection) /\ Len(grants) \in Nat /\ DOMAIN grants = Made BY Connections DEF AgentInv, AgentShape
<1>3. grants'[g] = r /\ \A h \in Made \ {g} : grants'[h] = grants[h] BY <1>1, <1>2
<1>4. Made' = Made BY <1>1, <1>2 DEF Made
<1>5. Len(pending) \in Nat BY DEF AgentInv, AgentShape
<1>6. \A h \in Made : /\ grants'[h].uid = grants[h].uid /\ grants'[h].by = grants[h].by
                      /\ Over(grants[h]) => Over(grants'[h])
                      /\ grants'[h].life = "gone" => grants[h].life = "gone"
  <2> SUFFICES ASSUME NEW h \in Made
               PROVE  /\ grants'[h].uid = grants[h].uid /\ grants'[h].by = grants[h].by
                      /\ Over(grants[h]) => Over(grants'[h])
                      /\ grants'[h].life = "gone" => grants[h].life = "gone"
    OBVIOUS
  <2>1. CASE h = g BY <1>3, <2>1
  <2>2. CASE h # g
    <3>1. grants'[h] = grants[h] BY <1>3, <2>2
    <3> QED BY <3>1
  <2> QED BY <2>1, <2>2
<1> QED BY <1>1, <1>4, <1>5, <1>6, ListFrame

\* A step that writes no connection, list or consent.
LEMMA ListCalm ==
  ASSUME AgentInv, ListInv, Settles, UNCHANGED <<pending, grants, owners>>
  PROVE  ListInv'
<1>1. Made' = Made BY DEF Made
<1>2. Len(pending) \in Nat BY DEF AgentInv, AgentShape
<1> QED BY <1>1, <1>2, ListFrame

\* A connection is revoked.
LEMMA ListRevoke ==
  ASSUME AgentInv, ListInv, Settles, NEW g \in Made, Agents!SetGrants([grants EXCEPT ![g] = Agents!Revoked(@)])
  PROVE  ListInv'
<1> DEFINE r == Agents!Revoked(grants[g])
<1>1. grants[g] \in Connection BY Connections DEF AgentInv
<1>2. r.revoked = TRUE /\ r.uid = grants[g].uid /\ r.by = grants[g].by /\ r.life = grants[g].life
  BY <1>1 DEF Agents!Revoked, Connection
<1>3. Agents!SetGrants([grants EXCEPT ![g] = r]) OBVIOUS
<1> HIDE DEF r
<1>4. Over(r) BY <1>2 DEF Over
<1> QED BY <1>2, <1>3, <1>4, ListWrite

\* Requests that end, go on or fail are at no consent.
LEMMA DoneSettles == ASSUME AgentShape, NEW p \in Replica, Agents!Done(p) PROVE Settles
<1>1. req' = [req EXCEPT ![p] = Agents!Idle] /\ req \in [Replica -> {Agents!Idle} \cup Consenting \cup Job]
  BY DEF Agents!Done, AgentShape
<1>2. req'[p] = Agents!Idle /\ \A q \in Replica \ {p} : req'[q] = req[q] BY <1>1
<1> QED BY <1>2 DEF Settles, Agents!Idle

LEMMA GoSettles ==
  ASSUME AgentShape, NEW p \in Replica, NEW pc, pc # "consent", Agents!Go(p, pc),
         req[p].pc \notin {"idle", "consent"}
  PROVE  Settles
<1>1. req[p] \in Job BY JobOf
<1>2. req' = [req EXCEPT ![p] = [req[p] EXCEPT !.pc = pc]] /\ req \in [Replica -> {Agents!Idle} \cup Consenting \cup Job]
  BY DEF Agents!Go, AgentShape
<1>3. [req[p] EXCEPT !.pc = pc].pc = pc BY <1>1 DEF Job
<1>4. req'[p].pc = pc /\ \A q \in Replica \ {p} : req'[q] = req[q] BY <1>2, <1>3
<1> QED BY <1>4 DEF Settles

LEMMA FailedSettles ==
  ASSUME AgentShape, NEW p \in Replica, Agents!Failed(p), req[p].pc \notin {"idle", "consent"}
  PROVE  Settles
<1>1. CASE Agents!Forced(p) BY <1>1, GoSettles DEF Agents!Failed
<1>2. CASE ~Agents!Forced(p) BY <1>2, DoneSettles DEF Agents!Failed
<1> QED BY <1>1, <1>2

LEMMA NoneSettles == ASSUME UNCHANGED req PROVE Settles
  BY DEF Settles

\* A request that is set to a step other than consent.
LEMMA SetSettles ==
  ASSUME AgentShape, NEW p \in Replica, NEW x, x.pc # "consent", req' = [req EXCEPT ![p] = x]
  PROVE  Settles
<1>1. req \in [Replica -> {Agents!Idle} \cup Consenting \cup Job] BY DEF AgentShape
<1>2. req'[p] = x /\ \A q \in Replica \ {p} : req'[q] = req[q] BY <1>1
<1> QED BY <1>2 DEF Settles

-----------------------------------------------------------------------------
\* Consent pages are opened, expire and are denied.
LEMMA PageList ==
  ASSUME AgentInv, ListInv,
         Agents!Authorize \/ \E h \in DOMAIN pending : Agents!PendingExpires(h) \/ Agents!Deny(h)
  PROVE  ListInv'
<1>1. pending \in Seq({"open", "used", "expired"}) /\ Len(pending) \in Nat BY DEF AgentInv, AgentShape
<1>2. UNCHANGED <<grants, owners, req>> BY DEF Agents!Authorize, Agents!PendingExpires, Agents!Deny
<1>3. Made' = Made /\ Settles BY <1>2, NoneSettles DEF Made
<1>4. /\ Len(pending') \in Nat /\ Len(pending) <= Len(pending')
      /\ \A h \in 1..Len(pending) : pending[h] = "used" => pending'[h] = "used"
  <2>1. CASE Agents!Authorize
    <3>1. pending' = Append(pending, "open") BY <2>1 DEF Agents!Authorize
    <3> QED BY <1>1, <3>1
  <2>2. CASE \E h \in DOMAIN pending : Agents!PendingExpires(h) \/ Agents!Deny(h)
    <3>1. PICK h \in DOMAIN pending, v \in {"used", "expired"} : pending[h] = "open" /\ pending' = [pending EXCEPT ![h] = v]
      BY <2>2 DEF Agents!PendingExpires, Agents!Deny
    <3>2. Len(pending') = Len(pending) /\ \A k \in 1..Len(pending) : k # h => pending'[k] = pending[k]
      BY <1>1, <3>1
    <3> QED BY <1>1, <3>1, <3>2
  <2> QED BY <2>1, <2>2
<1> QED BY <1>2, <1>3, <1>4, ListFrame

\* A consent begins on a page that was opened.
LEMMA ConsentCheckList ==
  ASSUME AgentInv, ListInv, NEW p \in Replica, NEW h \in DOMAIN pending, NEW u \in Account,
         Agents!ConsentCheck(p, h, u)
  PROVE  ListInv'
<1> DEFINE x == [pc |-> "consent", handle |-> h, uid |-> u]
<1>1. req' = [req EXCEPT ![p] = x] /\ UNCHANGED <<pending, grants, owners>> BY DEF Agents!ConsentCheck
<1>2. x.handle = h /\ h \in 1..Len(pending) BY DEF AgentInv, AgentShape
<1> HIDE DEF x
<1>3. req'[p] = x /\ \A q \in Replica \ {p} : req'[q] = req[q] BY <1>1 DEF AgentInv, AgentShape
<1>4. ListsRight' BY <1>1 DEF ListInv, ListsRight, Made, LiveOf
<1>5. \A q \in Replica : req'[q].pc = "consent" => req'[q].handle \in 1..Len(pending)
  BY <1>2, <1>3 DEF ListInv, ConsentsUsed
<1>6. ConsentsUsed' BY <1>1, <1>5 DEF ListInv, ConsentsUsed, Made
<1> QED BY <1>4, <1>6 DEF ListInv

\* A consent becomes a connection: its page was open, so no connection has it, and
\* the list it is added to had room.
LEMMA ConsentCommitList ==
  ASSUME AgentInv, ListInv, NEW p \in Replica, Agents!ConsentCommit(p)
  PROVE  ListInv'
<1>0. /\ Len(grants) \in Nat /\ DOMAIN grants = Made /\ grants \in Seq(Connection)
      /\ \A h \in Made : grants[h] \in Connection
      /\ pending \in Seq({"open", "used", "expired"}) /\ Len(pending) \in Nat
  BY Connections DEF AgentInv, AgentShape
<1>1. PICK n \in Nat : n = Len(grants) + 1 BY <1>0
<1>2. PICK h \in 1..Len(pending), u \in Account : h = req[p].handle /\ u = req[p].uid
  <2>1. req[p] \in {Agents!Idle} \cup Consenting \cup Job /\ req[p].pc = "consent"
    BY DEF AgentInv, AgentShape, Agents!ConsentCommit
  <2>2. req[p] \in Consenting BY <2>1 DEF Agents!Idle, Job
  <2> QED BY <2>1, <2>2 DEF Consenting, ListInv, ConsentsUsed
<1> DEFINE r == Agents!NewGrant(u, h)
<1>3. /\ pending[h] = "open" /\ pending' = [pending EXCEPT ![h] = "used"] /\ grants' = Append(grants, r)
      /\ owners' = [owners EXCEPT ![u] = LiveOf(u) \cup {n}] /\ Agents!Done(p)
      /\ Agents!Cardinality(LiveOf(u)) < Quota
  BY <1>1, <1>2 DEF Agents!ConsentCommit, Agents!StillPending, LiveOf, Over, Agents!Live
<1>4. r \in Connection /\ r.uid = u /\ r.by = h /\ r.life = "live" /\ ~Over(r)
  BY <1>0, <1>2 DEF Agents!NewGrant, Connection, Over
<1> HIDE DEF r
<1>5. /\ grants'[n] = r /\ \A g \in Made : grants'[g] = grants[g]
      /\ Made' = Made \cup {n} /\ n \notin Made
  BY <1>0, <1>1, <1>3, <1>4 DEF Made
<1>6. /\ Len(pending') = Len(pending) /\ pending'[h] = "used"
      /\ \A k \in 1..Len(pending) : k # h => pending'[k] = pending[k]
  BY <1>0, <1>3
<1>7. /\ owners \in [Account -> SUBSET Made]
      /\ owners'[u] = LiveOf(u) \cup {n} /\ \A v \in Account \ {u} : owners'[v] = owners[v]
      /\ owners' \in [Account -> SUBSET Made']
  <2>1. owners \in [Account -> SUBSET Made] BY DEF ListInv, ListsRight
  <2>2. LiveOf(u) \cup {n} \subseteq Made' BY <1>5, <2>1 DEF LiveOf
  <2> QED BY <1>3, <1>5, <2>1, <2>2
<1>8. ListsRight'
  <2>1. ASSUME NEW v \in Account, NEW g \in owners'[v] PROVE grants'[g].life # "gone" /\ grants'[g].uid = v
    <3>1. CASE g = n
      <4>1. v = u BY <1>5, <1>7, <3>1
      <4> QED BY <1>4, <1>5, <3>1, <4>1
    <3>2. CASE g # n
      <4>1. g \in owners[v] BY <1>7, <2>1, <3>2 DEF LiveOf
      <4> QED BY <1>5, <1>7, <4>1 DEF ListInv, ListsRight
    <3> QED BY <3>1, <3>2
  <2>2. ASSUME NEW g \in Made', ~Over(grants'[g]) PROVE g \in owners'[grants'[g].uid]
    <3>1. CASE g = n BY <1>4, <1>5, <1>7, <3>1
    <3>2. CASE g \in Made
      <4>1. grants'[g] = grants[g] BY <1>5, <3>2
      <4>2. g \in owners[grants[g].uid] /\ grants[g].uid \in Account
        BY <1>0, <2>2, <3>2, <4>1 DEF ListInv, ListsRight, Connection
      <4>3. CASE grants[g].uid = u BY <1>7, <2>2, <4>1, <4>2, <4>3 DEF LiveOf
      <4>4. CASE grants[g].uid # u BY <1>7, <4>1, <4>2, <4>4
      <4> QED BY <4>3, <4>4
    <3> QED BY <1>5, <3>1, <3>2
  <2>3. ASSUME NEW v \in Account PROVE Cardinality(LiveOf(v)') <= Quota
    <3>0. IsFiniteSet(LiveOf(v)) /\ Cardinality(LiveOf(v)) \in Nat /\ Quota \in Nat /\ Cardinality(LiveOf(v)) <= Quota
      BY LiveFinite, AgentsAssumption DEF AgentInv, ListInv, ListsRight, Agents!AgentAssumption
    <3>1. CASE v = u
      <4>1. LiveOf(v)' \subseteq LiveOf(v) \cup {n} BY <1>7, <3>1 DEF LiveOf
      <4>2. Cardinality(LiveOf(v)) < Quota BY <1>3, <3>1, SameCount
      <4>3. Cardinality(LiveOf(v)') \in Nat /\ Cardinality(LiveOf(v)') <= Cardinality(LiveOf(v)) + 1
        BY <3>0, <4>1, OneMore
      <4> QED BY <3>0, <4>2, <4>3
    <3>2. CASE v # u
      <4>1. LiveOf(v)' = LiveOf(v) BY <1>5, <1>7, <3>2 DEF LiveOf
      <4> QED BY <3>0, <4>1
    <3> QED BY <3>1, <3>2
  <2> QED BY <1>7, <2>1, <2>2, <2>3 DEF ListsRight
<1>9. ConsentsUsed'
  <2>1. \A g \in Made : grants[g].by # h /\ grants[g].by \in 1..Len(pending) /\ pending[grants[g].by] = "used"
    BY <1>3 DEF ListInv, ConsentsUsed
  <2>2. \A g \in Made' : grants'[g].by \in 1..Len(pending') /\ pending'[grants'[g].by] = "used"
    BY <1>4, <1>5, <1>6, <2>1
  <2>3. \A g, k \in Made' : g # k => grants'[g].by # grants'[k].by
    BY <1>4, <1>5, <2>1 DEF ListInv, ConsentsUsed
  <2>4. Settles BY <1>3, DoneSettles DEF AgentInv
  <2>5. \A q \in Replica : req'[q].pc = "consent" => req'[q].handle \in 1..Len(pending')
    BY <1>6, <2>4 DEF Settles, ListInv, ConsentsUsed
  <2> QED BY <2>2, <2>3, <2>5 DEF ConsentsUsed
<1> QED BY <1>8, <1>9 DEF ListInv

\* Maintenance revokes what ended, and deletes a retired connection with its place in the list.
LEMMA MaintainGrantList ==
  ASSUME AgentInv, ListInv, NEW g \in Made, Agents!MaintainGrant(g)
  PROVE  ListInv'
<1>0. Settles BY NoneSettles DEF Agents!MaintainGrant
<1>1. CASE Agents!SetGrants([grants EXCEPT ![g] = Agents!Revoked(@)]) BY <1>0, <1>1, ListRevoke
<1>2. CASE /\ grants[g].life = "retired"
           /\ grants' = [grants EXCEPT ![g] = [Agents!Revoked(@) EXCEPT !.life = "gone"]]
           /\ owners' = [owners EXCEPT ![grants[g].uid] = @ \ {g}]
           /\ UNCHANGED <<pending, creds, cache, provider, req>>
  <2> DEFINE r == [Agents!Revoked(grants[g]) EXCEPT !.life = "gone"]
             u == grants[g].uid
  <2>1. grants[g] \in Connection /\ grants \in Seq(Connection) /\ DOMAIN grants = Made /\ Len(grants) \in Nat
    BY Connections DEF AgentInv, AgentShape
  <2>2. r.revoked = TRUE /\ r.by = grants[g].by /\ r.uid = u /\ u \in Account
    BY <2>1 DEF Agents!Revoked, Connection
  <2>3. grants' = [grants EXCEPT ![g] = r] /\ pending' = pending /\ owners' = [owners EXCEPT ![u] = owners[u] \ {g}]
    BY <1>2
  <2> HIDE DEF r, u
  <2>4. grants'[g] = r /\ Made' = Made /\ \A h \in Made \ {g} : grants'[h] = grants[h] BY <2>1, <2>3 DEF Made
  <2>5. Over(r) BY <2>2 DEF Over
  <2>6. /\ owners \in [Account -> SUBSET Made] /\ owners' \in [Account -> SUBSET Made]
        /\ owners'[u] = owners[u] \ {g} /\ \A v \in Account \ {u} : owners'[v] = owners[v]
    BY <2>2, <2>3 DEF ListInv, ListsRight
  <2>7. \A v \in Account : g \notin owners'[v] /\ owners'[v] \subseteq owners[v]
    BY <2>6 DEF ListInv, ListsRight, u
  <2>8. ListsRight'
    <3>1. \A v \in Account : \A h \in owners'[v] : grants'[h].life # "gone" /\ grants'[h].uid = v
      BY <2>4, <2>6, <2>7 DEF ListInv, ListsRight
    <3>2. ASSUME NEW h \in Made, ~Over(grants'[h]) PROVE h \in owners'[grants'[h].uid]
      <4>1. h # g /\ grants'[h] = grants[h] BY <2>4, <2>5, <3>2
      <4>2. h \in owners[grants[h].uid] /\ grants[h].uid \in Account
        BY <3>2, <4>1, Connections DEF AgentInv, ListInv, ListsRight, Connection
      <4> QED BY <2>6, <4>1, <4>2
    <3>3. ASSUME NEW v \in Account PROVE Cardinality(LiveOf(v)') <= Quota
      <4>1. LiveOf(v)' \subseteq LiveOf(v) BY <2>4, <2>6, <2>7 DEF LiveOf
      <4>2. IsFiniteSet(LiveOf(v)) /\ Cardinality(LiveOf(v)) \in Nat /\ Quota \in Nat /\ Cardinality(LiveOf(v)) <= Quota
        BY LiveFinite, AgentsAssumption DEF AgentInv, ListInv, ListsRight, Agents!AgentAssumption
      <4>3. Cardinality(LiveOf(v)') \in Nat /\ Cardinality(LiveOf(v)') <= Cardinality(LiveOf(v)) BY <4>1, <4>2, NoLarger
      <4> QED BY <4>2, <4>3
    <3> QED BY <2>4, <2>6, <3>1, <3>2, <3>3 DEF ListsRight
  <2>9. ConsentsUsed'
    <3>1. \A h \in Made : grants'[h].by = grants[h].by BY <2>2, <2>4
    <3> QED BY <1>0, <2>3, <2>4, <3>1 DEF ListInv, ConsentsUsed, Settles
  <2> QED BY <2>8, <2>9 DEF ListInv
<1> QED BY <1>1, <1>2 DEF Agents!MaintainGrant
\* The ways a connection is revoked.
LEMMA RevocationsList ==
  ASSUME AgentInv, ListInv,
         \/ \E p \in Replica, c \in DOMAIN creds : Agents!TokenReplay(p, c)
         \/ \E p \in Replica : Agents!TokenGiveUp(p) \/ Agents!DecryptFails(p)
         \/ \E g \in Made : Agents!RevokeToken(g) \/ \E p \in Replica : Agents!DeleteGrant(p, g)
  PROVE  ListInv'
<1>0. AgentShape BY DEF AgentInv
<1>1. ASSUME NEW p \in Replica, NEW c \in DOMAIN creds, Agents!TokenReplay(p, c) PROVE ListInv'
  <2>1. PICK g \in Made : g = creds[c].grant BY <1>0, Credentials
  <2>2. Settles BY <1>1, NoneSettles DEF Agents!TokenReplay
  <2> QED BY <1>1, <2>1, <2>2, ListRevoke DEF Agents!TokenReplay
<1>2. ASSUME NEW p \in Replica, Agents!TokenGiveUp(p) PROVE ListInv'
  <2>1. PICK g \in Made : g = req[p].grant BY <1>0, <1>2, JobOf DEF Agents!TokenGiveUp
  <2>2. Settles BY <1>0, <1>2, DoneSettles DEF Agents!TokenGiveUp
  <2> QED BY <1>2, <2>1, <2>2, ListRevoke DEF Agents!TokenGiveUp
<1>3. ASSUME NEW p \in Replica, Agents!DecryptFails(p) PROVE ListInv'
  <2>1. PICK g \in Made : g = req[p].grant BY <1>0, <1>3, JobOf DEF Agents!DecryptFails
  <2>2. Settles BY <1>0, <1>3, DoneSettles DEF Agents!DecryptFails
  <2>3. CASE Agents!SetGrants([grants EXCEPT ![g] = Agents!Revoked(@)]) BY <2>2, <2>3, ListRevoke
  <2>4. CASE UNCHANGED <<pending, grants, owners, creds, ended, stored>> BY <2>2, <2>4, ListCalm
  <2> QED BY <1>3, <2>1, <2>3, <2>4 DEF Agents!DecryptFails
<1>4. ASSUME NEW g \in Made, Agents!RevokeToken(g) PROVE ListInv'
  BY <1>4, NoneSettles, ListRevoke DEF Agents!RevokeToken
<1>5. ASSUME NEW g \in Made, NEW p \in Replica, Agents!DeleteGrant(p, g) PROVE ListInv'
  BY <1>5, NoneSettles, ListRevoke DEF Agents!DeleteGrant
<1> QED BY <1>1, <1>2, <1>3, <1>4, <1>5

\* Leases are taken and given back, and time passes: no connection comes back by it.
LEMMA LeaseList ==
  ASSUME AgentInv, ListInv,
         \/ \E p \in Replica : Agents!AcquireLease(p) \/ Agents!Finish(p)
         \/ \E g \in Made : Agents!LeaseExpires(g) \/ Agents!GrantAges(g)
  PROVE  ListInv'
<1>0. AgentShape BY DEF AgentInv
<1>1. \A g \in Made : grants[g] \in Connection BY <1>0, Connections
<1>2. ASSUME NEW p \in Replica, Agents!AcquireLease(p) PROVE ListInv'
  <2>1. PICK g \in Made : g = req[p].grant BY <1>0, <1>2, JobOf DEF Agents!AcquireLease
  <2> DEFINE r == [grants[g] EXCEPT !.lease = p, !.held = TRUE]
  <2>2. /\ r.uid = grants[g].uid /\ r.by = grants[g].by /\ r.life = grants[g].life /\ r.revoked = grants[g].revoked
    BY <1>1 DEF Connection
  <2>3. Agents!SetGrants([grants EXCEPT ![g] = r]) BY <1>2, <2>1 DEF Agents!AcquireLease
  <2> HIDE DEF r
  <2>4. Settles
    <3>0. req[p] \in Job /\ req[p].pc = "acquire" BY <1>0, <1>2, JobOf DEF Agents!AcquireLease
    <3>1. CASE req' = [req EXCEPT ![p].pc = "exchange", ![p].token = grants[g].token]
      <4> DEFINE x == [req[p] EXCEPT !.pc = "exchange", !.token = grants[g].token]
      <4>1. x.pc = "exchange" BY <3>0 DEF Job
      <4>2. req' = [req EXCEPT ![p] = x] BY <3>1
      <4> HIDE DEF x
      <4> QED BY <1>0, <4>1, <4>2, SetSettles
    <3>2. CASE Agents!Failed(p) BY <1>0, <3>0, <3>2, FailedSettles
    <3> QED BY <1>2, <2>1, <3>1, <3>2 DEF Agents!AcquireLease
  <2>5. Over(grants[g]) => Over(r) BY <2>2 DEF Over
  <2> QED BY <2>2, <2>3, <2>4, <2>5, ListWrite
<1>3. ASSUME NEW p \in Replica, Agents!Finish(p) PROVE ListInv'
  <2>1. PICK g \in Made : g = req[p].grant BY <1>0, <1>3, JobOf DEF Agents!Finish
  <2> DEFINE r == Agents!Closed(p, g)
  <2> DEFINE released == [grants[g] EXCEPT !.lease = None, !.held = FALSE]
  <2>2. /\ released \in Connection /\ released.uid = grants[g].uid /\ released.by = grants[g].by
        /\ released.life = grants[g].life
    BY <1>1 DEF Connection
  <2> HIDE DEF released
  <2>3. r.uid = grants[g].uid /\ r.by = grants[g].by /\ r.life = grants[g].life
    <3>1. CASE req[p].result = "refused"
      <4>1. r = Agents!Revoked(released) BY <3>1 DEF Agents!Closed, released
      <4> QED BY <2>2, <4>1 DEF Agents!Revoked, Connection
    <3>2. CASE req[p].result = "unavailable"
      <4>1. r = released BY <3>2 DEF Agents!Closed, released
      <4> QED BY <2>2, <4>1
    <3>3. CASE req[p].result \notin {"refused", "unavailable"}
      <4>1. r = [released EXCEPT !.token = req[p].token] BY <3>3 DEF Agents!Closed, released
      <4> QED BY <2>2, <4>1 DEF Connection
    <3> QED BY <3>1, <3>2, <3>3
  <2>4. Agents!SetGrants([grants EXCEPT ![g] = r]) /\ ~Over(grants[g])
    BY <1>3, <2>1 DEF Agents!Finish, Agents!Live, Over
  <2> HIDE DEF r
  <2>5. Settles
    <3>0. req[p].pc = "finish" BY <1>3 DEF Agents!Finish
    <3>1. CASE Agents!Done(p) BY <1>0, <3>1, DoneSettles
    <3>2. CASE Agents!Failed(p) BY <1>0, <3>0, <3>2, FailedSettles
    <3>3. CASE Agents!Go(p, Agents!Returned(p)) BY <1>0, <3>0, <3>3, GoSettles DEF Agents!Returned
    <3>4. Agents!Done(p) \/ Agents!Failed(p) \/ Agents!Go(p, Agents!Returned(p)) BY <1>3 DEF Agents!Finish
    <3> QED BY <3>1, <3>2, <3>3, <3>4
  <2> QED BY <2>3, <2>4, <2>5, ListWrite
<1>4. ASSUME NEW g \in Made, Agents!LeaseExpires(g) PROVE ListInv'
  <2> DEFINE r == [grants[g] EXCEPT !.held = FALSE]
  <2>2. /\ r.uid = grants[g].uid /\ r.by = grants[g].by /\ r.life = grants[g].life /\ r.revoked = grants[g].revoked
    BY <1>1 DEF Connection
  <2>3. Agents!SetGrants([grants EXCEPT ![g] = r]) /\ Settles BY <1>4, NoneSettles DEF Agents!LeaseExpires
  <2> HIDE DEF r
  <2>5. Over(grants[g]) => Over(r) BY <2>2 DEF Over
  <2> QED BY <2>2, <2>3, <2>5, ListWrite
<1>5. ASSUME NEW g \in Made, Agents!GrantAges(g) PROVE ListInv'
  <2> DEFINE r == [grants[g] EXCEPT !.life = IF grants[g].life = "live" THEN "lapsed" ELSE "retired"]
  <2>2. r.uid = grants[g].uid /\ r.by = grants[g].by /\ r.life \in {"lapsed", "retired"}
    BY <1>1 DEF Connection
  <2>3. Agents!SetGrants([grants EXCEPT ![g] = r]) /\ Settles BY <1>5, NoneSettles DEF Agents!GrantAges
  <2> HIDE DEF r
  <2>5. Over(r) BY <2>2 DEF Over
  <2> QED BY <2>2, <2>3, <2>5, ListWrite
<1> QED BY <1>2, <1>3, <1>4, <1>5

\* Steps that write neither connections nor lists nor consents.
LEMMA CallList ==
  ASSUME AgentInv, ListInv,
         \/ \E p \in Replica : \/ Agents!TokenIssue(p) \/ Agents!AcquireInvalid(p) \/ Agents!AcquireCached(p)
                               \/ Agents!AcquireBusy(p) \/ Agents!Exchange(p) \/ Agents!FinishInvalid(p)
                               \/ Agents!Touch(p) \/ Agents!Fails(p) \/ Agents!Crash(p)
         \/ \E p \in Replica, c \in DOMAIN creds : Agents!TokenUse(p, c)
         \/ \E c \in DOMAIN creds : Agents!MaintainCredential(c)
         \/ \E g \in Made, p \in Replica : Agents!Gateway(p, g) \/ Agents!SessionExpires(p, g)
  PROVE  ListInv'
<1>0. AgentShape BY DEF AgentInv
<1>1. UNCHANGED <<pending, grants, owners>>
  BY DEF Agents!TokenIssue, Agents!AcquireInvalid, Agents!AcquireCached, Agents!AcquireBusy, Agents!Exchange,
         Agents!FinishInvalid, Agents!Touch, Agents!Fails, Agents!Crash, Agents!TokenUse,
         Agents!MaintainCredential, Agents!Gateway, Agents!SessionExpires
<1>2. ASSUME NEW p \in Replica,
             \/ Agents!TokenIssue(p) \/ Agents!AcquireInvalid(p) \/ Agents!FinishInvalid(p)
             \/ Agents!Touch(p) \/ Agents!Crash(p)
      PROVE  Settles
  <2>1. Agents!Done(p)
    BY <1>2 DEF Agents!TokenIssue, Agents!AcquireInvalid, Agents!FinishInvalid, Agents!Touch, Agents!Crash
  <2> QED BY <1>0, <2>1, DoneSettles
<1>3. ASSUME NEW p \in Replica, Agents!AcquireCached(p) PROVE Settles
  BY <1>0, <1>3, GoSettles DEF Agents!AcquireCached, Agents!Returned
<1>4. ASSUME NEW p \in Replica, Agents!AcquireBusy(p) PROVE Settles
  BY <1>0, <1>4, FailedSettles DEF Agents!AcquireBusy
<1>5. ASSUME NEW p \in Replica, Agents!Fails(p) PROVE Settles
  BY <1>0, <1>5, DoneSettles, FailedSettles DEF Agents!Fails
<1>6. ASSUME NEW p \in Replica, Agents!Exchange(p) PROVE Settles
  <2>1. req[p] \in Job BY <1>0, <1>6, JobOf DEF Agents!Exchange
  <2>2. PICK result : \E g : req' = [req EXCEPT ![p].pc = "finish", ![p].result = result,
                                                ![p].token = IF result = "fresh" THEN provider'[g] ELSE @]
    BY <1>6 DEF Agents!Exchange
  <2>3. PICK token : req' = [req EXCEPT ![p] = [req[p] EXCEPT !.pc = "finish", !.result = result, !.token = token]]
    BY <2>2
  <2> DEFINE x == [req[p] EXCEPT !.pc = "finish", !.result = result, !.token = token]
  <2>4. x.pc = "finish" BY <2>1 DEF Job
  <2>5. req' = [req EXCEPT ![p] = x] BY <2>3
  <2> HIDE DEF x
  <2> QED BY <1>0, <2>4, <2>5, SetSettles
<1>7. ASSUME NEW p \in Replica, NEW c \in DOMAIN creds, Agents!TokenUse(p, c) PROVE Settles
  <2>1. CASE UNCHANGED req BY <2>1, NoneSettles
  <2>2. CASE \E g : req' = [req EXCEPT ![p] =
              [pc |-> IF creds[c].kind = "code" THEN "issue" ELSE "acquire",
               op |-> "token", grant |-> g, token |-> None, result |-> None]]
    <3>1. PICK g : req' = [req EXCEPT ![p] =
              [pc |-> IF creds[c].kind = "code" THEN "issue" ELSE "acquire",
               op |-> "token", grant |-> g, token |-> None, result |-> None]]
      BY <2>2
    <3> DEFINE x == [pc |-> IF creds[c].kind = "code" THEN "issue" ELSE "acquire",
                     op |-> "token", grant |-> g, token |-> None, result |-> None]
    <3>2. x.pc # "consent" /\ req' = [req EXCEPT ![p] = x] BY <3>1
    <3> HIDE DEF x
    <3> QED BY <1>0, <3>2, SetSettles
  <2> QED BY <1>7, <2>1, <2>2 DEF Agents!TokenUse
<1>8. ASSUME NEW g \in Made, NEW p \in Replica, Agents!Gateway(p, g) PROVE Settles
  <2> DEFINE x == [pc |-> "acquire", op |-> "gateway", grant |-> g, token |-> None, result |-> None]
  <2>1. x.pc # "consent" /\ req' = [req EXCEPT ![p] = x] BY <1>8 DEF Agents!Gateway
  <2> HIDE DEF x
  <2> QED BY <1>0, <2>1, SetSettles
<1>9. ASSUME NEW g \in Made, NEW p \in Replica, Agents!SessionExpires(p, g) PROVE Settles
  BY <1>9, NoneSettles DEF Agents!SessionExpires
<1>10. ASSUME NEW c \in DOMAIN creds, Agents!MaintainCredential(c) PROVE Settles
  BY <1>10, NoneSettles DEF Agents!MaintainCredential
<1>11. Settles BY <1>2, <1>3, <1>4, <1>5, <1>6, <1>7, <1>8, <1>9, <1>10
<1> QED BY <1>1, <1>11, ListCalm

\* Nobody is connected at the start.
LEMMA ListInit == ASSUME Agents!Init PROVE ListInv
<1>1. Made = {} BY DEF Made, Agents!Init
<1>2. \A u \in Account : owners[u] = {} BY DEF Agents!Init
<1>3. \A u \in Account : LiveOf(u) = {} BY <1>2 DEF LiveOf
<1>4. \A u \in Account : Cardinality(LiveOf(u)) = 0 BY <1>3, FS_EmptySet
<1>5. Quota \in Nat BY AgentsAssumption DEF Agents!AgentAssumption
<1>6. owners \in [Account -> SUBSET Made] BY DEF Agents!Init
<1>7. ListsRight BY <1>1, <1>2, <1>4, <1>5, <1>6 DEF ListsRight
<1>8. ConsentsUsed BY <1>1 DEF ConsentsUsed, Agents!Init, Agents!Idle
<1> QED BY <1>7, <1>8 DEF ListInv

\* Every step keeps the lists right.
LEMMA ListNext ==
  ASSUME AgentInv, ListInv, [Agents!Next]_Agents!vars
  PROVE  ListInv'
<1>0. Agents!Grants = Made BY Connections DEF AgentInv
<1>1. CASE UNCHANGED Agents!vars BY <1>1, NoneSettles, ListCalm DEF Agents!vars
<1>2. CASE Agents!Authorize \/ \E h \in DOMAIN pending : Agents!PendingExpires(h) \/ Agents!Deny(h)
  BY <1>2, PageList
<1>3. CASE \E p \in Replica, h \in DOMAIN pending, u \in Account : Agents!ConsentCheck(p, h, u)
  BY <1>3, ConsentCheckList
<1>4. CASE \E p \in Replica : Agents!ConsentCommit(p) BY <1>4, ConsentCommitList
<1>5. CASE \E g \in Made : Agents!MaintainGrant(g) BY <1>5, MaintainGrantList
<1>6. CASE \/ \E p \in Replica, c \in DOMAIN creds : Agents!TokenReplay(p, c)
           \/ \E p \in Replica : Agents!TokenGiveUp(p) \/ Agents!DecryptFails(p)
           \/ \E g \in Made : Agents!RevokeToken(g) \/ \E p \in Replica : Agents!DeleteGrant(p, g)
  BY <1>6, RevocationsList
<1>7. CASE \/ \E p \in Replica : Agents!AcquireLease(p) \/ Agents!Finish(p)
           \/ \E g \in Made : Agents!LeaseExpires(g) \/ Agents!GrantAges(g)
  BY <1>7, LeaseList
<1>8. CASE \/ \E p \in Replica : \/ Agents!TokenIssue(p) \/ Agents!AcquireInvalid(p) \/ Agents!AcquireCached(p)
                                 \/ Agents!AcquireBusy(p) \/ Agents!Exchange(p) \/ Agents!FinishInvalid(p)
                                 \/ Agents!Touch(p) \/ Agents!Fails(p) \/ Agents!Crash(p)
           \/ \E p \in Replica, c \in DOMAIN creds : Agents!TokenUse(p, c)
           \/ \E c \in DOMAIN creds : Agents!MaintainCredential(c)
           \/ \E g \in Made, p \in Replica : Agents!Gateway(p, g) \/ Agents!SessionExpires(p, g)
  BY <1>8, CallList
<1> QED BY <1>0, <1>1, <1>2, <1>3, <1>4, <1>5, <1>6, <1>7, <1>8 DEF Agents!Next

\* A consent becomes at most one connection, every live connection is in the list
\* its owner can disconnect it from, the list names only records that exist, and no
\* account has more live connections than its quota.
THEOREM ConnectionsStayListed == Agents!Spec => []Agents!ConnectionsListed
<1>1. Agents!Init => AgentInv /\ ListInv BY AgentInitInv, ListInit
<1>2. AgentInv /\ ListInv /\ [Agents!Next]_Agents!vars => AgentInv' /\ ListInv' BY AgentNextInv, ListNext
<1>3. AgentInv /\ ListInv => Agents!ConnectionsListed
  <2> SUFFICES ASSUME AgentInv, ListInv PROVE Agents!ConnectionsListed OBVIOUS
  <2>0. Agents!Grants = Made /\ \A g \in Made : grants[g] \in Connection BY Connections DEF AgentInv
  <2>1. \A u \in Account : \A g \in owners[u] : Agents!Present(g) BY DEF ListInv, ListsRight, Agents!Present
  <2>2. \A g \in Made : Agents!Live(g) => g \in owners[grants[g].uid]
    BY DEF ListInv, ListsRight, Agents!Live, Over
  <2>3. ASSUME NEW u \in Account
        PROVE  Agents!Cardinality({g \in Made : grants[g].uid = u /\ Agents!Live(g)}) <= Quota
    <3>1. {g \in Made : grants[g].uid = u /\ Agents!Live(g)} = LiveOf(u)
      <4>1. owners[u] \subseteq Made /\ \A g \in owners[u] : grants[g].uid = u BY DEF ListInv, ListsRight
      <4>2. \A g : Agents!Live(g) <=> ~Over(grants[g]) BY DEF Agents!Live, Over
      <4> QED BY <2>2, <4>1, <4>2 DEF LiveOf
    <3>2. Cardinality(LiveOf(u)) <= Quota BY DEF ListInv, ListsRight
    <3> QED BY <3>1, <3>2, SameCount
  <2>4. \A g, k \in Made : g # k => grants[g].by # grants[k].by BY DEF ListInv, ConsentsUsed
  <2> QED BY <2>0, <2>1, <2>2, <2>3, <2>4 DEF Agents!ConnectionsListed
<1> QED BY <1>1, <1>2, <1>3, PTL DEF Agents!Spec

-----------------------------------------------------------------------------
(* All limits together *)

\* Sessions created and rotated a minute, attempts at a password a minute and the
\* connections of an account keep to their limits, whatever interleaves.
THEOREM LimitsKept == Spec /\ Unlocking!Spec /\ Agents!Spec => []BudgetsKept
<1>1. BudgetsHold /\ Unlocking!BudgetsExact /\ Agents!ConnectionsListed => BudgetsKept BY DEF BudgetsKept
<1> QED BY <1>1, SessionBudgetsHold, AttemptsLimited, ConnectionsStayListed, PTL
=============================================================================
