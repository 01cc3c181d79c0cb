------------------------ MODULE AuthorityLeaseProofs ------------------------
(***************************************************************************)
(* Proofs about AuthorityLease for any number of voters, any quorums that  *)
(* intersect, any window and any timeout that is not shorter.              *)
(*                                                                         *)
(* Elections: votes of one term are apart, and a leader keeps a quorum     *)
(* that has voted for it or moved on to a later term.  Windows: whoever    *)
(* has answered a round in time still refuses to vote, so no candidate of  *)
(* a later term has its vote, and a quorum of answers leaves no quorum to  *)
(* a later leader.  Staleness: a leader that was outvoted before a round   *)
(* began gets no quorum for it, so that a window is never younger than the *)
(* time for which its leader has been superseded.                          *)
(***************************************************************************)
EXTENDS AuthorityLease, TLAPS

\* The time since an anchor on the clock of n that does not misbehave.
Real(n, a) == IF fault[n] = "suspend" THEN a.wall ELSE a.mono

-----------------------------------------------------------------------------
(* Elections *)

VotesCast ==
    \A c \in Node : \A v \in votes[c] :
        term[v] > term[c] \/ (term[v] = term[c] /\ votedFor[v] = c)

VotesApart ==
    \A c, d \in Node : c # d /\ term[c] = term[d] => votes[c] \cap votes[d] = {}

\* Q has elected m: its members have voted for m, or moved on, and for nobody else in that term.
ElectedBy(m, Q) ==
    \A v \in Q :
        /\ term[v] > term[m] \/ (term[v] = term[m] /\ votedFor[v] = m)
        /\ \A c \in Node : c # m /\ term[c] = term[m] => v \notin votes[c]

Elected == \A m \in Node : leads[m] => \E Q \in Quorum : ElectedBy(m, Q)

OneLeader == \A m, n \in Node : leads[m] /\ leads[n] /\ term[m] = term[n] => m = n

-----------------------------------------------------------------------------
(* Anchors: of windows and of rounds *)

\* An anchor of n was made in a term that n has reached.
Made(n, a) == a.term <= term[n] /\ Real(n, a) >= 0

AnchorsMade ==
    \A n \in Node :
        /\ lease[n] # None => Made(n, lease[n])
        /\ \A s \in Source : proof[n][s] # None => Made(n, proof[n][s])

\* Until a voter forgets, a leader stays one as long as its term lasts.
LeaderStays ==
    ~forgot => \A n \in Node :
        /\ ~boosted[n]
        /\ lease[n] # None /\ lease[n].term = term[n] => leads[n]
        /\ \A s \in Source : proof[n][s] # None /\ proof[n][s].term = term[n] => leads[n]

\* The voters of A still refuse to vote, and no later candidate has their votes.
Refusing(n, a, A) ==
    \A v \in A :
        /\ v = n \/ refuses[v] + Real(n, a) >= Timeout
        /\ \A c \in Node : term[c] > a.term => v \notin votes[c]

\* A quorum outside A has moved on to a later term than n's.
Outvoted(n, A) == \E Q \in Quorum : Q \cap A = {} /\ \A v \in Q : term[v] > term[n]

\* The anchor is of the present term and its time is not over.
Open(n, a) == a.term = term[n] /\ Real(n, a) < Window

LaterLeader(n) == \E m \in Node : leads[m] /\ term[m] > term[n]

RoundsRefuse ==
    ~forgot => \A n \in Node, s \in Source : LET p == proof[n][s] IN
        p # None /\ Open(n, p) =>
            /\ Refusing(n, p, p.acks)
            /\ LaterLeader(n) => Outvoted(n, p.acks)

WindowsRefuse ==
    ~forgot => \A n \in Node : LET a == lease[n] IN
        a # None /\ Open(n, a) =>
            /\ \E Q \in Quorum : Refusing(n, a, Q)
            /\ ~LaterLeader(n)

-----------------------------------------------------------------------------
(* Staleness *)

StaleOutvoted == \A n \in Node : leads[n] /\ stale[n] > 0 => Outvoted(n, {})

RoundsOlder ==
    \A n \in Node, s \in Source : LET p == proof[n][s] IN
        p # None /\ p.term = term[n] => Outvoted(n, p.acks) \/ stale[n] <= Real(n, p)

WindowsOlder ==
    \A n \in Node : LET a == lease[n] IN a # None /\ a.term = term[n] => stale[n] <= Real(n, a)

Elections == VotesCast /\ VotesApart /\ Elected /\ OneLeader
Windows   == LeaderStays /\ RoundsRefuse /\ WindowsRefuse
Ages      == StaleOutvoted /\ RoundsOlder /\ WindowsOlder

Inv == TypeOK /\ Elections /\ AnchorsMade /\ Windows /\ Ages

-----------------------------------------------------------------------------
(* The shape of the state *)

\* An aged elapsed time is one (saturating at the window).
LEMMA PlusType == ASSUME NEW e \in Elapsed, NEW d \in {-1, 0, 1} PROVE Plus(e, d) \in Elapsed
  BY WindowAssumption DEF Plus, Elapsed

\* Ageing keeps what kind of anchor it is, its term and its acknowledgements.
LEMMA AgeType ==
  ASSUME NEW m \in {0, 1}, NEW w \in {-1, 1}
  PROVE  /\ \A a \in Anchor \cup {None} : Age(a, m, w) \in Anchor \cup {None}
         /\ \A a \in Round \cup {None} : Age(a, m, w) \in Round \cup {None}
<1>1. \A e \in Elapsed : Plus(e, m) \in Elapsed /\ Plus(e, w) \in Elapsed BY PlusType
<1>2. ASSUME NEW a \in Anchor PROVE [a EXCEPT !.mono = Plus(@, m), !.wall = Plus(@, w)] \in Anchor
  BY <1>1 DEF Anchor
<1>3. ASSUME NEW a \in Round PROVE [a EXCEPT !.mono = Plus(@, m), !.wall = Plus(@, w)] \in Round
  BY <1>1 DEF Round
<1> QED BY <1>2, <1>3 DEF Age

\* The initial state has the right shape.
LEMMA TypeInit == ASSUME Init PROVE TypeOK
<1>1. 0 \in 0..Timeout /\ 0 \in 0..Window /\ 0 \in Nat BY WindowAssumption
<1>2. /\ refuses \in [Node -> 0..Timeout] /\ stale \in [Node -> 0..Window] /\ term \in [Node -> Nat]
      /\ proof \in [Node -> [Source -> Round \cup {None}]] /\ lease \in [Node -> Anchor \cup {None}]
  BY <1>1 DEF Init
<1>3. /\ leads \in [Node -> BOOLEAN] /\ boosted \in [Node -> BOOLEAN] /\ failed \in [Node -> BOOLEAN]
      /\ forgot \in BOOLEAN
  BY DEF Init
<1> QED BY <1>2, <1>3 DEF Init, TypeOK

\* Time keeps the shape of the state: ages and refusals stay in their ranges.
LEMMA TypeTick == ASSUME TypeOK, Tick PROVE TypeOK'
<1>1. PICK asleep \in SUBSET {n \in Node : fault[n] = "suspend"},
           stepped \in SUBSET {n \in Node : fault[n] = "step"} :
        /\ lease' = [n \in Node |-> Age(lease[n], IF n \in asleep THEN 0 ELSE 1,
                                                  IF n \in stepped THEN -1 ELSE 1)]
        /\ proof' = [n \in Node |-> [s \in Source |->
                        Age(proof[n][s], IF n \in asleep THEN 0 ELSE 1, IF n \in stepped THEN -1 ELSE 1)]]
  BY DEF Tick
<1>2. lease' \in [Node -> Anchor \cup {None}]
  <2> SUFFICES ASSUME NEW n \in Node
               PROVE Age(lease[n], IF n \in asleep THEN 0 ELSE 1, IF n \in stepped THEN -1 ELSE 1)
                        \in Anchor \cup {None}
    BY <1>1
  <2>1. lease[n] \in Anchor \cup {None} BY DEF TypeOK
  <2> QED BY <2>1, AgeType
<1>3. proof' \in [Node -> [Source -> Round \cup {None}]]
  <2> SUFFICES ASSUME NEW n \in Node, NEW s \in Source
               PROVE Age(proof[n][s], IF n \in asleep THEN 0 ELSE 1, IF n \in stepped THEN -1 ELSE 1)
                        \in Round \cup {None}
    BY <1>1
  <2>1. proof[n][s] \in Round \cup {None} BY DEF TypeOK
  <2> QED BY <2>1, AgeType
<1>4. refuses' \in [Node -> 0..Timeout]
  <2>1. refuses' = [n \in Node |-> IF refuses[n] = 0 THEN 0 ELSE refuses[n] - 1] BY DEF Tick
  <2>2. refuses \in [Node -> 0..Timeout] BY DEF TypeOK
  <2>3. \A e \in 0..Timeout : (IF e = 0 THEN 0 ELSE e - 1) \in 0..Timeout BY WindowAssumption
  <2> QED BY <2>1, <2>2, <2>3
<1>5. stale' \in [Node -> 0..Window]
  <2>1. \A e \in 0..Window : Plus(e, 1) \in 0..Window BY WindowAssumption DEF Plus
  <2>2. stale' = [n \in Node |-> IF leads[n] /\ Superseded(n) THEN Plus(stale[n], 1) ELSE 0] BY DEF Tick
  <2>3. stale \in [Node -> 0..Window] /\ 0 \in 0..Window BY WindowAssumption DEF TypeOK
  <2> QED BY <2>1, <2>2, <2>3
<1> QED BY <1>2, <1>3, <1>4, <1>5 DEF TypeOK, Tick

\* Raft's steps keep the shape of the state.
LEMMA TypeRaft ==
  ASSUME TypeOK, NEW n \in Node, NEW m \in Node,
         \/ StartElection(n) \/ BecomeLeader(n) \/ StepDown(n) \/ Restart(n)
         \/ GrantVote(n, m) \/ Contact(n, m)
  PROVE  TypeOK'
<1>1. CASE StartElection(n) BY <1>1 DEF TypeOK, StartElection, Campaign, codeVars
<1>2. CASE BecomeLeader(n) BY <1>2, WindowAssumption DEF TypeOK, BecomeLeader, codeVars
<1>3. CASE StepDown(n) BY <1>3 DEF TypeOK, StepDown, codeVars
<1>4. CASE Restart(n)
  <2>1. forgot' \in BOOLEAN BY <1>4 DEF Restart
  <2> QED BY <1>4, <2>1, WindowAssumption DEF TypeOK, Restart
<1>5. CASE GrantVote(n, m) BY <1>5 DEF TypeOK, GrantVote, codeVars
<1>6. CASE Contact(n, m)
  <2> DEFINE P == [s \in Source |-> IF proof[n][s] # None /\ proof[n][s].term = term[n]
                                    THEN [proof[n][s] EXCEPT !.acks = @ \cup {m}] ELSE proof[n][s]]
  <2>1. P \in [Source -> Round \cup {None}]
    <3>1. ASSUME NEW p \in Round PROVE [p EXCEPT !.acks = @ \cup {m}] \in Round BY DEF Round
    <3>2. \A s \in Source : proof[n][s] \in Round \cup {None} BY DEF TypeOK
    <3> QED BY <3>1, <3>2
  <2>2. proof' \in [Node -> [Source -> Round \cup {None}]]
    <3>1. proof' = [proof EXCEPT ![n] = P] BY <1>6 DEF Contact
    <3> HIDE DEF P
    <3> QED BY <2>1, <3>1 DEF TypeOK
  <2> QED BY <1>6, <2>2, WindowAssumption DEF TypeOK, Contact
<1> QED BY <1>1, <1>2, <1>3, <1>4, <1>5, <1>6

\* The code's steps keep the shape of the state.
LEMMA TypeCode ==
  ASSUME TypeOK, NEW n \in Node, NEW m \in Node, NEW s \in Source,
         \/ StartProof(n, s) \/ FinishProof(n, s) \/ AbortProof(n, s)
         \/ WriterFails(n) \/ HeartbeatSeesFailed(n) \/ LeadershipTransfer(n, m)
  PROVE  TypeOK'
<1>1. CASE StartProof(n, s)
  <2>1. [mono |-> 0, wall |-> 0, term |-> term[n], acks |-> {n}] \in Round
    BY WindowAssumption DEF Round, Elapsed, TypeOK
  <2> QED BY <1>1, <2>1 DEF TypeOK, StartProof, raftVars
<1>2. CASE FinishProof(n, s)
  <2>1. proof[n][s] \in Round BY <1>2 DEF TypeOK, FinishProof
  <2>2. LeaseAnchor(proof[n][s]) \in Anchor BY <2>1 DEF LeaseAnchor, Anchor, Round
  <2> QED BY <1>2, <2>2 DEF TypeOK, FinishProof, raftVars
<1>3. CASE AbortProof(n, s) BY <1>3 DEF TypeOK, AbortProof, raftVars
<1>4. CASE WriterFails(n) BY <1>4 DEF TypeOK, WriterFails, raftVars
<1>5. CASE HeartbeatSeesFailed(n) BY <1>5 DEF TypeOK, HeartbeatSeesFailed, raftVars
<1>6. CASE LeadershipTransfer(n, m) BY <1>6 DEF TypeOK, LeadershipTransfer, Campaign
<1> QED BY <1>1, <1>2, <1>3, <1>4, <1>5, <1>6

-----------------------------------------------------------------------------
(* Elections: what each step of Raft does to votes, terms and leaders *)

\* A campaign in a new term takes back the candidate's old votes.
LEMMA CampaignElections ==
  ASSUME TypeOK, Elections, NEW k \in Node, NEW b, ~leads[k], Campaign(k, b), leads' = leads
  PROVE  Elections'
<1> USE DEF Elections, Campaign
<1>1. /\ \A x \in Node : x # k => term'[x] = term[x] /\ votes'[x] = votes[x] /\ votedFor'[x] = votedFor[x]
      /\ term'[k] = term[k] + 1 /\ votes'[k] = {k} /\ votedFor'[k] = k
      /\ \A x \in Node : term[x] \in Nat /\ votes[x] \subseteq Node
  BY DEF TypeOK
<1>2. VotesCast' BY <1>1 DEF VotesCast
<1>3. VotesApart'
  <2>1. \A c \in Node : c # k /\ term[c] = term'[k] => k \notin votes[c] BY <1>1 DEF VotesCast
  <2> QED BY <1>1, <2>1 DEF VotesApart
<1>4. Elected'
  <2> SUFFICES ASSUME NEW m \in Node, leads[m] PROVE \E Q \in Quorum : ElectedBy(m, Q)'
    BY DEF Elected
  <2>1. PICK Q \in Quorum : ElectedBy(m, Q) BY DEF Elected
  <2>2. Q \subseteq Node BY QuorumAssumption
  <2>3. m # k /\ term'[m] = term[m] BY <1>1
  <2>4. ASSUME NEW v \in Q
        PROVE  /\ term'[v] > term'[m] \/ (term'[v] = term'[m] /\ votedFor'[v] = m)
               /\ \A c \in Node : c # m /\ term'[c] = term'[m] => v \notin votes'[c]
    BY <2>1, <2>2, <2>3, <1>1 DEF ElectedBy
  <2> QED BY <2>4 DEF ElectedBy
<1>5. OneLeader' BY <1>1 DEF OneLeader
<1> QED BY <1>2, <1>3, <1>4, <1>5

\* A voter votes once per term.
LEMMA GrantVoteElections ==
  ASSUME TypeOK, Elections, NEW v \in Node, NEW c \in Node, GrantVote(v, c)
  PROVE  Elections'
<1> USE DEF Elections, GrantVote
<1>1. /\ \A x \in Node : x # v => term'[x] = term[x] /\ votedFor'[x] = votedFor[x] /\ leads'[x] = leads[x]
      /\ \A x \in Node : x # v /\ x # c => votes'[x] = votes[x]
      /\ term'[v] = term[c] /\ term[v] <= term[c] /\ votedFor'[v] = c /\ leads'[v] = FALSE
      /\ votes'[v] = {} /\ votes'[c] = votes[c] \cup {v} /\ v # c /\ ~leads[c]
      /\ term[v] < term[c] \/ votedFor[v] = None
      /\ \A x \in Node : term[x] \in Nat /\ votes[x] \subseteq Node
  BY DEF TypeOK
<1>2. \A d \in Node : term[d] = term[c] => v \notin votes[d]
  BY <1>1, NoneAssumption DEF VotesCast
<1> HIDE DEF GrantVote
<1>3. VotesCast'
  <2>1. \A d \in Node : d # c /\ d # v => \A u \in votes[d] : u # v \/ term[c] > term[d]
    BY <1>1, <1>2 DEF VotesCast
  <2>2. \A d \in Node : d # c => \A u \in votes'[d] :
            term'[u] > term'[d] \/ (term'[u] = term'[d] /\ votedFor'[u] = d)
    BY <1>1, <2>1 DEF VotesCast
  <2>3. \A u \in votes'[c] : term'[u] > term'[c] \/ (term'[u] = term'[c] /\ votedFor'[u] = c)
    BY <1>1 DEF VotesCast
  <2> QED BY <2>2, <2>3 DEF VotesCast
<1>4. VotesApart'
  <2> SUFFICES ASSUME NEW d \in Node, NEW e \in Node, d # e, term'[d] = term'[e], NEW u \in votes'[d],
                      u \in votes'[e]
               PROVE  FALSE
    BY DEF VotesApart
  <2>1. d # v /\ e # v /\ term[d] = term[e] BY <1>1
  <2> QED BY <1>1, <1>2, <2>1 DEF VotesApart
<1>5. Elected'
  <2> SUFFICES ASSUME NEW m \in Node, leads'[m] PROVE \E Q \in Quorum : ElectedBy(m, Q)'
    BY DEF Elected
  <2>1. leads[m] /\ m # v /\ m # c /\ term'[m] = term[m] BY <1>1
  <2>2. PICK Q \in Quorum : ElectedBy(m, Q) BY <2>1 DEF Elected
  <2>3. Q \subseteq Node BY QuorumAssumption
  <2>4. v \in Q /\ term[m] = term[c] => FALSE BY <1>1, <2>1, <2>2, NoneAssumption DEF ElectedBy
  <2>5. ASSUME NEW u \in Q
        PROVE  /\ term'[u] > term'[m] \/ (term'[u] = term'[m] /\ votedFor'[u] = m)
               /\ \A d \in Node : d # m /\ term'[d] = term'[m] => u \notin votes'[d]
    BY <1>1, <2>1, <2>2, <2>3, <2>4 DEF ElectedBy
  <2> QED BY <2>5 DEF ElectedBy
<1>6. OneLeader' BY <1>1 DEF OneLeader
<1> QED BY <1>3, <1>4, <1>5, <1>6

\* The voters of a new leader are those of no other of its term.
LEMMA BecomeLeaderElections ==
  ASSUME TypeOK, Elections, NEW n \in Node, BecomeLeader(n)
  PROVE  Elections'
<1> USE DEF Elections, BecomeLeader
<1>1. /\ \A x \in Node : x # n => votes'[x] = votes[x] /\ leads'[x] = leads[x]
      /\ votes'[n] = {} /\ term' = term /\ votedFor' = votedFor
      /\ \A x \in Node : term[x] \in Nat /\ votes[x] \subseteq Node
  BY DEF TypeOK
<1>2. PICK Q \in Quorum : Q \subseteq votes[n] OBVIOUS
<1>3. ElectedBy(n, Q)' BY <1>1, <1>2 DEF VotesCast, VotesApart, ElectedBy
<1>4. VotesCast' BY <1>1 DEF VotesCast
<1>5. VotesApart' BY <1>1 DEF VotesApart
<1>6. \A m \in Node, R \in Quorum : ElectedBy(m, R) => ElectedBy(m, R)'
  BY <1>1 DEF ElectedBy
<1>7. Elected' BY <1>1, <1>3, <1>6 DEF Elected
<1>8. \A m \in Node : leads[m] /\ m # n => term[m] # term[n]
  <2> SUFFICES ASSUME NEW m \in Node, leads[m], m # n, term[m] = term[n] PROVE FALSE OBVIOUS
  <2>1. PICK R \in Quorum : ElectedBy(m, R) BY DEF Elected
  <2>2. PICK v \in Q : v \in R BY QuorumAssumption
  <2> QED BY <1>2, <2>1, <2>2 DEF ElectedBy
<1>9. OneLeader' BY <1>1, <1>8 DEF OneLeader
<1> QED BY <1>4, <1>5, <1>7, <1>9

\* A node that only moves on, or gives up votes and leadership, elects nobody.
LEMMA FollowElections ==
  ASSUME TypeOK, Elections, NEW k \in Node, NEW t \in Nat, t >= term[k], NEW u,
         term' = [term EXCEPT ![k] = t], votes' = [votes EXCEPT ![k] = {}],
         leads' = [leads EXCEPT ![k] = FALSE],
         votedFor' = [votedFor EXCEPT ![k] = u], t = term[k] => u = votedFor[k]
  PROVE  Elections'
<1> USE DEF Elections
<1>1. /\ \A x \in Node : x # k => /\ term'[x] = term[x] /\ votedFor'[x] = votedFor[x]
                                  /\ leads'[x] = leads[x] /\ votes'[x] = votes[x]
      /\ term'[k] = t /\ votedFor'[k] = u /\ leads'[k] = FALSE /\ votes'[k] = {}
      /\ \A x \in Node : term[x] \in Nat /\ votes[x] \subseteq Node
  BY DEF TypeOK
<1>2. VotesCast' BY <1>1 DEF VotesCast
<1>3. VotesApart' BY <1>1 DEF VotesApart
<1>4. Elected'
  <2> SUFFICES ASSUME NEW m \in Node, leads'[m] PROVE \E Q \in Quorum : ElectedBy(m, Q)'
    BY DEF Elected
  <2>1. leads[m] /\ m # k /\ term'[m] = term[m] BY <1>1
  <2>2. PICK Q \in Quorum : ElectedBy(m, Q) BY <2>1 DEF Elected
  <2>3. Q \subseteq Node BY QuorumAssumption
  <2>4. ASSUME NEW v \in Q
        PROVE  /\ term'[v] > term'[m] \/ (term'[v] = term'[m] /\ votedFor'[v] = m)
               /\ \A d \in Node : d # m /\ term'[d] = term'[m] => v \notin votes'[d]
    BY <1>1, <2>1, <2>2, <2>3 DEF ElectedBy
  <2> QED BY <2>4 DEF ElectedBy
<1>5. OneLeader' BY <1>1 DEF OneLeader
<1> QED BY <1>2, <1>3, <1>4, <1>5

-----------------------------------------------------------------------------
(* The invariants after a step, stated for one window or round at a time *)

\* AnchorsMade after a step.
LEMMA AnchorsMadeIf ==
  ASSUME TypeOK',
         \A n \in Node, a \in Anchor : lease'[n] = a => Made(n, a)',
         \A n \in Node, s \in Source, q \in Round : proof'[n][s] = q => Made(n, q)'
  PROVE  AnchorsMade'
<1>1. ASSUME NEW n \in Node, lease'[n] # None PROVE Made(n, lease[n])'
  <2>1. PICK a \in Anchor : lease'[n] = a BY <1>1 DEF TypeOK
  <2> QED BY <2>1 DEF Made, Real
<1>2. ASSUME NEW n \in Node, NEW s \in Source, proof'[n][s] # None PROVE Made(n, proof[n][s])'
  <2>1. PICK q \in Round : proof'[n][s] = q BY <1>2 DEF TypeOK
  <2> QED BY <2>1 DEF Made, Real
<1> QED BY <1>1, <1>2 DEF AnchorsMade

\* RoundsRefuse after a step.
LEMMA RoundsRefuseIf ==
  ASSUME TypeOK',
         \A n \in Node, s \in Source, q \in Round :
            ~forgot' /\ proof'[n][s] = q /\ Open(n, q)' =>
                Refusing(n, q, q.acks)' /\ (LaterLeader(n)' => Outvoted(n, q.acks)')
  PROVE  RoundsRefuse'
<1>1. ASSUME ~forgot', NEW n \in Node, NEW s \in Source, proof'[n][s] # None, Open(n, proof[n][s])'
      PROVE  \E q \in Round : proof'[n][s] = q /\ Open(n, q)'
  <2>1. PICK q \in Round : proof'[n][s] = q BY <1>1 DEF TypeOK
  <2> QED BY <1>1, <2>1 DEF Open, Real
<1>2. ASSUME NEW n \in Node, NEW s \in Source, NEW q \in Round, proof'[n][s] = q,
             Refusing(n, q, q.acks)' /\ (LaterLeader(n)' => Outvoted(n, q.acks)')
      PROVE  /\ Refusing(n, proof[n][s], proof[n][s].acks)'
             /\ LaterLeader(n)' => Outvoted(n, proof[n][s].acks)'
  BY <1>2 DEF Refusing, Real, Outvoted
<1> QED BY <1>1, <1>2 DEF RoundsRefuse

\* WindowsRefuse after a step.
LEMMA WindowsRefuseIf ==
  ASSUME TypeOK',
         \A n \in Node, a \in Anchor :
            ~forgot' /\ lease'[n] = a /\ Open(n, a)' =>
                (\E Q \in Quorum : Refusing(n, a, Q)') /\ ~LaterLeader(n)'
  PROVE  WindowsRefuse'
<1>1. ASSUME ~forgot', NEW n \in Node, lease'[n] # None, Open(n, lease[n])'
      PROVE  \E a \in Anchor : lease'[n] = a /\ Open(n, a)'
  <2>1. PICK a \in Anchor : lease'[n] = a BY <1>1 DEF TypeOK
  <2> QED BY <1>1, <2>1 DEF Open, Real
<1>2. ASSUME NEW n \in Node, NEW a \in Anchor, lease'[n] = a, NEW Q \in Quorum, Refusing(n, a, Q)'
      PROVE  Refusing(n, lease[n], Q)'
  BY <1>2 DEF Refusing, Real
<1> QED BY <1>1, <1>2 DEF WindowsRefuse

\* RoundsOlder and WindowsOlder after a step.
LEMMA OlderIf ==
  ASSUME TypeOK',
         \A n \in Node, a \in Anchor : lease'[n] = a /\ a.term = term'[n] => stale'[n] <= Real(n, a)',
         \A n \in Node, s \in Source, q \in Round :
            proof'[n][s] = q /\ q.term = term'[n] => Outvoted(n, q.acks)' \/ stale'[n] <= Real(n, q)'
  PROVE  RoundsOlder' /\ WindowsOlder'
<1>1. ASSUME NEW n \in Node, lease'[n] # None, lease'[n].term = term'[n]
      PROVE  stale'[n] <= Real(n, lease[n])'
  <2>1. PICK a \in Anchor : lease'[n] = a BY <1>1 DEF TypeOK
  <2> QED BY <1>1, <2>1 DEF Real
<1>2. ASSUME NEW n \in Node, NEW s \in Source, proof'[n][s] # None, proof'[n][s].term = term'[n]
      PROVE  Outvoted(n, proof[n][s].acks)' \/ stale'[n] <= Real(n, proof[n][s])'
  <2>1. PICK q \in Round : proof'[n][s] = q BY <1>2 DEF TypeOK
  <2> QED BY <1>2, <2>1 DEF Real, Outvoted
<1> QED BY <1>1, <1>2 DEF RoundsOlder, WindowsOlder

-----------------------------------------------------------------------------
(* Windows and rounds in steps in which no new leader appears *)

\* Terms only grow, and a leader is one that was already leading its term.
Steady ==
    /\ fault' = fault /\ stale' = stale
    /\ \A x \in Node : term'[x] >= term[x] /\ (leads'[x] => leads[x] /\ term'[x] = term[x])

\* No voter forgets: only one without a leader votes or campaigns.
Loyal ==
    /\ ~forgot
    /\ \A v \in Node :
        /\ refuses'[v] >= refuses[v] /\ ~boosted'[v]
        /\ leads[v] /\ term'[v] = term[v] => leads'[v]
        /\ \A c \in Node : v \in votes'[c] =>
            (v \in votes[c] /\ term'[c] = term[c]) \/ (~leads[v] /\ refuses[v] = 0)

\* Windows and rounds are the old ones; who newly answers a round has just heard from its leader.
AnchorsKept ==
    \A n \in Node :
        /\ lease'[n] # None => lease'[n] = lease[n]
        /\ \A s \in Source : proof'[n][s] # None => LET p == proof[n][s]
                                                        q == proof'[n][s] IN
            /\ p # None /\ q.mono = p.mono /\ q.wall = p.wall /\ q.term = p.term
            /\ \A v \in q.acks : v \in p.acks \/
                /\ refuses'[v] = Timeout /\ term[v] <= term[n] /\ p.term = term[n]
                /\ \A c \in Node : v \in votes'[c] => v \in votes[c] /\ term'[c] = term[c]

\* The real time of an anchor is a number.
LEMMA RealType ==
  ASSUME TypeOK, NEW n \in Node, NEW a \in Anchor \cup Round
  PROVE  Real(n, a) \in Int /\ Real(n, a) <= Window /\ a.term \in Nat
  BY WindowAssumption DEF Real, Anchor, Round, Elapsed

\* An open anchor after a steady step was open before; what made it safe still does.
LEMMA SteadyAnchor ==
  ASSUME TypeOK, TypeOK', Steady, NEW n \in Node, NEW a \in Anchor \cup Round, Made(n, a)
  PROVE  /\ Made(n, a)' /\ Real(n, a)' = Real(n, a)
         /\ a.term = term'[n] => a.term = term[n]
         /\ Open(n, a)' => Open(n, a)
         /\ a.term = term'[n] /\ LaterLeader(n)' => LaterLeader(n)
         /\ \A A : a.term = term'[n] /\ Outvoted(n, A) => Outvoted(n, A)'
<1> USE DEF Steady
<1>0. term[n] \in Nat /\ term'[n] \in Nat /\ term'[n] >= term[n] BY DEF TypeOK
<1>1. Real(n, a)' = Real(n, a) BY DEF Real
<1>2. a.term <= term[n] /\ Real(n, a) >= 0 /\ a.term \in Nat BY RealType DEF Made
<1>3. Made(n, a)' BY <1>0, <1>1, <1>2 DEF Made
<1>4. a.term = term'[n] => a.term = term[n] BY <1>0, <1>2
<1>5. Open(n, a)' => Open(n, a) BY <1>1, <1>4 DEF Open
<1>6. a.term = term'[n] /\ LaterLeader(n)' => LaterLeader(n) BY <1>4 DEF LaterLeader
<1>7. ASSUME NEW A, a.term = term'[n], Outvoted(n, A) PROVE Outvoted(n, A)'
  <2>1. PICK Q \in Quorum : Q \cap A = {} /\ \A v \in Q : term[v] > term[n] BY <1>7 DEF Outvoted
  <2>2. \A v \in Q : term[v] \in Nat /\ term'[v] \in Nat /\ term'[v] >= term[v]
    BY QuorumAssumption DEF TypeOK
  <2>3. \A v \in Q : term'[v] > term'[n] BY <1>0, <1>4, <1>7, <2>1, <2>2
  <2> QED BY <2>1, <2>3 DEF Outvoted
<1> QED BY <1>1, <1>3, <1>4, <1>5, <1>6, <1>7

\* Voters that refuse go on refusing.
LEMMA LoyalAnchor ==
  ASSUME TypeOK, TypeOK', Steady, Loyal, NEW n \in Node, NEW a \in Anchor \cup Round, Made(n, a),
         Open(n, a)', leads[n], NEW A \in SUBSET Node, Refusing(n, a, A)
  PROVE  Refusing(n, a, A)'
<1>1. Real(n, a)' = Real(n, a) /\ Real(n, a) < Window /\ Real(n, a) \in Int
  BY SteadyAnchor, RealType DEF Open
<1> SUFFICES ASSUME NEW v \in A
             PROVE  /\ v = n \/ refuses'[v] + Real(n, a) >= Timeout
                    /\ \A c \in Node : term'[c] > a.term => v \notin votes'[c]
  BY <1>1 DEF Refusing
<1>2. refuses[v] \in Nat /\ refuses'[v] \in Nat /\ refuses'[v] >= refuses[v] /\ v \in Node
  BY WindowAssumption DEF TypeOK, Loyal
<1>3. v = n \/ refuses[v] + Real(n, a) >= Timeout BY DEF Refusing
<1>4. leads[v] \/ refuses[v] > 0 BY <1>1, <1>2, <1>3, WindowAssumption
<1>5. \A c \in Node : v \in votes'[c] => v \in votes[c] /\ term'[c] = term[c]
  BY <1>2, <1>4 DEF Loyal
<1> QED BY <1>1, <1>2, <1>3, <1>5, WindowAssumption DEF Refusing

\* Steps that elect nobody keep all that is known about windows and rounds.
LEMMA SteadyInv ==
  ASSUME Inv, TypeOK', Steady, ~forgot' => Loyal, AnchorsKept
  PROVE  AnchorsMade' /\ Windows' /\ Ages'
<1> USE DEF Inv, Windows, Ages
<1>0. TypeOK OBVIOUS
<1>1. ASSUME NEW n \in Node, NEW a \in Anchor, lease'[n] = a
      PROVE  /\ lease[n] = a /\ Made(n, a) /\ Made(n, a)'
             /\ a.term = term'[n] => a.term = term[n]
  <2>1. lease[n] = a /\ lease[n] # None BY <1>1, NoneAssumption DEF AnchorsKept
  <2>2. Made(n, a) BY <2>1 DEF AnchorsMade
  <2> QED BY <2>1, <2>2, SteadyAnchor
<1>2. ASSUME NEW n \in Node, NEW s \in Source, NEW q \in Round, proof'[n][s] = q
      PROVE  \E p \in Round :
                /\ proof[n][s] = p /\ q.mono = p.mono /\ q.wall = p.wall /\ q.term = p.term
                /\ Made(n, p) /\ Made(n, q)
                /\ \A v \in q.acks : v \in p.acks \/
                    /\ refuses'[v] = Timeout /\ term[v] <= term[n] /\ p.term = term[n]
                    /\ \A c \in Node : v \in votes'[c] => v \in votes[c] /\ term'[c] = term[c]
  <2>1. q # None BY NoneAssumption
  <2>2. PICK p \in Round : p = proof[n][s] BY <1>2, <2>1 DEF AnchorsKept, TypeOK
  <2>3. Made(n, p) BY <2>2, NoneAssumption DEF AnchorsMade
  <2>4. q.mono = p.mono /\ q.wall = p.wall /\ q.term = p.term BY <1>2, <2>1, <2>2 DEF AnchorsKept
  <2>5. Made(n, q) BY <2>3, <2>4 DEF Made, Real
  <2> QED BY <1>2, <2>1, <2>2, <2>3, <2>4, <2>5 DEF AnchorsKept
<1>3. AnchorsMade'
  <2>1. ASSUME NEW n \in Node, NEW s \in Source, NEW q \in Round, proof'[n][s] = q PROVE Made(n, q)'
    BY <1>0, <1>2, <2>1, SteadyAnchor
  <2> QED BY <1>1, <2>1, AnchorsMadeIf
<1>4. LeaderStays'
  <2> SUFFICES ASSUME ~forgot', NEW n \in Node
               PROVE  /\ ~boosted'[n]
                      /\ lease'[n] # None /\ lease'[n].term = term'[n] => leads'[n]
                      /\ \A s \in Source : proof'[n][s] # None /\ proof'[n][s].term = term'[n] => leads'[n]
    BY DEF LeaderStays
  <2>1. term'[n] \in Nat /\ term[n] \in Nat BY DEF TypeOK
  <2>2. ASSUME lease'[n] # None, lease'[n].term = term'[n] PROVE leads'[n]
    <3>1. PICK a \in Anchor : lease'[n] = a BY <2>2 DEF TypeOK
    <3>2. lease[n] = a /\ a.term = term[n] BY <1>1, <2>2, <3>1
    <3> QED BY <2>2, <3>1, <3>2, NoneAssumption DEF Loyal, LeaderStays
  <2>3. ASSUME NEW s \in Source, proof'[n][s] # None, proof'[n][s].term = term'[n] PROVE leads'[n]
    <3>1. PICK q \in Round : proof'[n][s] = q BY <2>3 DEF TypeOK
    <3>2. PICK p \in Round : proof[n][s] = p /\ q.term = p.term /\ Made(n, p) BY <1>2, <3>1
    <3>3. p.term = term[n] BY <1>0, <2>3, <3>1, <3>2, SteadyAnchor
    <3> QED BY <2>3, <3>1, <3>2, <3>3, NoneAssumption DEF Loyal, LeaderStays
  <2> QED BY <2>2, <2>3 DEF Loyal
<1>5. RoundsRefuse'
  <2> SUFFICES ASSUME ~forgot', NEW n \in Node, NEW s \in Source, NEW q \in Round, proof'[n][s] = q,
                      Open(n, q)'
               PROVE  Refusing(n, q, q.acks)' /\ (LaterLeader(n)' => Outvoted(n, q.acks)')
    BY RoundsRefuseIf
  <2>1. PICK p \in Round :
            /\ proof[n][s] = p /\ q.mono = p.mono /\ q.wall = p.wall /\ q.term = p.term
            /\ Made(n, p) /\ Made(n, q)
            /\ \A v \in q.acks : v \in p.acks \/
                /\ refuses'[v] = Timeout /\ term[v] <= term[n] /\ p.term = term[n]
                /\ \A c \in Node : v \in votes'[c] => v \in votes[c] /\ term'[c] = term[c]
    BY <1>2
  <2>2. /\ Made(n, q)' /\ Real(n, q)' = Real(n, q) /\ q.term = term'[n] /\ q.term = term[n]
        /\ Open(n, q) /\ (LaterLeader(n)' => LaterLeader(n))
        /\ \A A : Outvoted(n, A) => Outvoted(n, A)'
    BY <2>1, <1>0, SteadyAnchor DEF Open
  <2>3. Open(n, p) /\ p # None BY <2>1, <2>2, NoneAssumption DEF Open, Real
  <2>4. Loyal /\ ~forgot BY DEF Loyal
  <2>5. leads[n] BY <2>1, <2>2, <2>3, <2>4 DEF LeaderStays
  <2>6. Refusing(n, p, p.acks) /\ (LaterLeader(n) => Outvoted(n, p.acks))
    BY <2>1, <2>3, <2>4 DEF RoundsRefuse
  <2>7. Refusing(n, q, p.acks)' 
    <3>1. Refusing(n, q, p.acks) BY <2>1, <2>6 DEF Refusing, Real
    <3>2. p.acks \in SUBSET Node BY DEF Round
    <3> QED BY <1>0, <2>1, <2>4, <2>5, <3>1, <3>2, LoyalAnchor
  <2>8. Refusing(n, q, q.acks)'
    <3> SUFFICES ASSUME NEW v \in q.acks, v \notin p.acks
                 PROVE  /\ refuses'[v] + Real(n, q)' >= Timeout
                        /\ \A c \in Node : term'[c] > q.term => v \notin votes'[c]
      BY <2>7 DEF Refusing
    <3>1. v \in Node /\ term[v] \in Nat /\ term[n] \in Nat BY DEF Round, TypeOK
    <3>2. refuses'[v] = Timeout /\ term[v] <= term[n] BY <2>1
    <3>3. Real(n, q)' >= 0 /\ Real(n, q)' \in Int BY <2>1, <2>2, RealType DEF Made
    <3>4. ASSUME NEW c \in Node, term'[c] > q.term PROVE v \notin votes'[c]
      <4>1. term[c] \in Nat /\ term'[c] \in Nat BY DEF TypeOK
      <4> QED BY <2>1, <2>2, <3>1, <3>2, <3>4, <4>1 DEF Elections, VotesCast
    <3> QED BY <3>2, <3>3, <3>4, WindowAssumption
  <2>9. LaterLeader(n)' => Outvoted(n, q.acks)'
    <3> SUFFICES ASSUME LaterLeader(n)' PROVE Outvoted(n, q.acks) BY <2>2
    <3>1. PICK Q \in Quorum : Q \cap p.acks = {} /\ \A v \in Q : term[v] > term[n]
      BY <2>2, <2>6 DEF Outvoted
    <3>2. \A v \in Q : term[v] \in Nat BY QuorumAssumption DEF TypeOK
    <3>3. term[n] \in Nat BY DEF TypeOK
    <3> QED BY <2>1, <3>1, <3>2, <3>3 DEF Outvoted
  <2> QED BY <2>8, <2>9
<1>6. WindowsRefuse'
  <2> SUFFICES ASSUME ~forgot', NEW n \in Node, NEW a \in Anchor, lease'[n] = a, Open(n, a)'
               PROVE  (\E Q \in Quorum : Refusing(n, a, Q)') /\ ~LaterLeader(n)'
    BY WindowsRefuseIf
  <2>1. lease[n] = a /\ Made(n, a) /\ a # None BY <1>1, NoneAssumption
  <2>2. Open(n, a) /\ a.term = term'[n] /\ (LaterLeader(n)' => LaterLeader(n))
    BY <1>0, <2>1, SteadyAnchor DEF Open
  <2>3. Loyal /\ ~forgot BY DEF Loyal
  <2>4. leads[n] BY <2>1, <2>2, <2>3 DEF LeaderStays, Open
  <2>5. PICK Q \in Quorum : Refusing(n, a, Q) BY <2>1, <2>2, <2>3 DEF WindowsRefuse
  <2>6. ~LaterLeader(n) BY <2>1, <2>2, <2>3 DEF WindowsRefuse
  <2>7. Q \in SUBSET Node BY QuorumAssumption
  <2>8. Refusing(n, a, Q)' BY <1>0, <2>1, <2>3, <2>4, <2>5, <2>7, LoyalAnchor
  <2> QED BY <2>2, <2>6, <2>8
<1>7. StaleOutvoted'
  <2> SUFFICES ASSUME NEW n \in Node, leads'[n], stale'[n] > 0 PROVE Outvoted(n, {})'
    BY DEF StaleOutvoted
  <2>1. leads[n] /\ term'[n] = term[n] /\ stale[n] > 0 BY DEF Steady
  <2>2. PICK Q \in Quorum : \A v \in Q : term[v] > term[n] BY <2>1 DEF StaleOutvoted, Outvoted
  <2>3. \A v \in Q : term[v] \in Nat /\ term'[v] \in Nat /\ term'[v] >= term[v]
    BY QuorumAssumption DEF TypeOK, Steady
  <2>4. term[n] \in Nat BY DEF TypeOK
  <2> QED BY <2>1, <2>2, <2>3, <2>4 DEF Outvoted
<1>8. ASSUME NEW n \in Node, NEW a \in Anchor, lease'[n] = a, a.term = term'[n]
      PROVE  stale'[n] <= Real(n, a)'
  <2>1. lease[n] = a /\ Made(n, a) /\ a # None /\ a.term = term[n] BY <1>1, <1>8, NoneAssumption
  <2>2. stale'[n] = stale[n] /\ Real(n, a)' = Real(n, a) BY <1>0, <2>1, SteadyAnchor DEF Steady
  <2> QED BY <2>1, <2>2 DEF WindowsOlder
<1>9. ASSUME NEW n \in Node, NEW s \in Source, NEW q \in Round, proof'[n][s] = q, q.term = term'[n]
      PROVE  Outvoted(n, q.acks)' \/ stale'[n] <= Real(n, q)'
  <2>1. PICK p \in Round :
            /\ proof[n][s] = p /\ q.mono = p.mono /\ q.wall = p.wall /\ q.term = p.term /\ Made(n, q)
            /\ \A v \in q.acks : v \in p.acks \/ term[v] <= term[n]
    BY <1>2, <1>9
  <2>2. /\ Real(n, q)' = Real(n, q) /\ q.term = term[n] /\ stale'[n] = stale[n]
        /\ \A A : Outvoted(n, A) => Outvoted(n, A)'
    BY <2>1, <1>0, <1>9, SteadyAnchor DEF Steady
  <2>3. Outvoted(n, p.acks) \/ stale[n] <= Real(n, p) BY <2>1, <2>2, NoneAssumption DEF RoundsOlder
  <2>4. ASSUME Outvoted(n, p.acks) PROVE Outvoted(n, q.acks)
    <3>1. PICK Q \in Quorum : Q \cap p.acks = {} /\ \A v \in Q : term[v] > term[n]
      BY <2>4 DEF Outvoted
    <3>2. \A v \in Q : term[v] \in Nat BY QuorumAssumption DEF TypeOK
    <3>3. term[n] \in Nat BY DEF TypeOK
    <3> QED BY <2>1, <3>1, <3>2, <3>3 DEF Outvoted
  <2>5. Real(n, p) = Real(n, q) BY <2>1 DEF Real
  <2> QED BY <2>2, <2>3, <2>4, <2>5
<1>10. RoundsOlder' /\ WindowsOlder' BY <1>8, <1>9, OlderIf
<1> QED BY <1>3, <1>4, <1>5, <1>6, <1>7, <1>10

-----------------------------------------------------------------------------
(* The steady steps *)

\* Windows and rounds that no step touches are kept.
LEMMA UntouchedAnchors == ASSUME lease' = lease, proof' = proof PROVE AnchorsKept
  BY DEF AnchorsKept

\* Two states with the same votes, terms and leaders have the same elections.
LEMMA SameElections ==
  ASSUME Elections, term' = term, leads' = leads, votedFor' = votedFor, votes' = votes
  PROVE  Elections'
  BY DEF Elections, VotesCast, VotesApart, Elected, ElectedBy, OneLeader

\* Who campaigns has no leader, and is in no quorum that still refuses.
LEMMA StartElectionInv == ASSUME Inv, NEW n \in Node, StartElection(n) PROVE Inv'
<1> USE DEF Inv
<1>1. TypeOK' BY TypeRaft
<1>2. Elections' BY CampaignElections DEF StartElection
<1>3. Steady BY DEF StartElection, Campaign, TypeOK, Steady
<1>4. ASSUME ~forgot' PROVE Loyal
  <2>1. ~forgot BY <1>4 DEF StartElection
  <2>2. /\ refuses' = refuses /\ leads' = leads /\ ~leads[n] /\ refuses[n] = 0
        /\ \A x \in Node : x # n => votes'[x] = votes[x] /\ term'[x] = term[x] /\ boosted'[x] = boosted[x]
        /\ votes'[n] = {n} /\ boosted'[n] = FALSE
        /\ \A x \in Node : ~boosted[x] /\ refuses[x] \in Nat
    BY <2>1, WindowAssumption DEF StartElection, Campaign, TypeOK, Windows, LeaderStays
  <2> QED BY <2>1, <2>2 DEF Loyal
<1>5. AnchorsKept BY UntouchedAnchors DEF StartElection, codeVars
<1> QED BY <1>1, <1>2, <1>3, <1>4, <1>5, SteadyInv

\* Who votes has no leader, and is in no quorum that still refuses.
LEMMA GrantVoteInv == ASSUME Inv, NEW v \in Node, NEW c \in Node, GrantVote(v, c) PROVE Inv'
<1> USE DEF Inv
<1>1. TypeOK' BY TypeRaft
<1>2. Elections' BY GrantVoteElections
<1>3. Steady BY DEF GrantVote, TypeOK, Steady
<1>4. ASSUME ~forgot' PROVE Loyal
  <2>1. ~forgot BY <1>4 DEF GrantVote
  <2>2. ~boosted[c] /\ ~leads[v] /\ refuses[v] = 0 BY <2>1 DEF GrantVote, Windows, LeaderStays
  <2>3. /\ refuses' = refuses /\ v # c
        /\ \A x \in Node : x # v => term'[x] = term[x] /\ leads'[x] = leads[x] /\ boosted'[x] = boosted[x]
        /\ \A x \in Node : x # v /\ x # c => votes'[x] = votes[x]
        /\ votes'[v] = {} /\ votes'[c] = votes[c] \cup {v} /\ boosted'[v] = FALSE
        /\ \A x \in Node : ~boosted[x] /\ refuses[x] \in Nat
    BY <2>1, WindowAssumption DEF GrantVote, TypeOK, Windows, LeaderStays
  <2> QED BY <2>1, <2>2, <2>3 DEF Loyal
<1>5. AnchorsKept BY UntouchedAnchors DEF GrantVote, codeVars
<1> QED BY <1>1, <1>2, <1>3, <1>4, <1>5, SteadyInv

\* Who hears from a leader begins to refuse, and has voted for no later candidate.
LEMMA ContactInv == ASSUME Inv, NEW l \in Node, NEW v \in Node, Contact(l, v) PROVE Inv'
<1> USE DEF Inv
<1>1. TypeOK' BY TypeRaft
<1>2. /\ \A x \in Node : x # v => /\ term'[x] = term[x] /\ leads'[x] = leads[x] /\ votes'[x] = votes[x]
                                  /\ boosted'[x] = boosted[x] /\ refuses'[x] = refuses[x]
      /\ term'[v] = term[l] /\ leads'[v] = FALSE /\ votes'[v] = {} /\ boosted'[v] = FALSE
      /\ refuses'[v] = Timeout /\ term[v] <= term[l] /\ leads[l] /\ l # v
      /\ \A x \in Node : term[x] \in Nat /\ refuses[x] \in 0..Timeout
  BY DEF Contact, TypeOK
<1>3. Elections'
  <2> DEFINE u == IF term[v] < term[l] THEN None ELSE votedFor[v]
  <2>1. /\ term' = [term EXCEPT ![v] = term[l]] /\ votes' = [votes EXCEPT ![v] = {}]
        /\ leads' = [leads EXCEPT ![v] = FALSE] /\ votedFor' = [votedFor EXCEPT ![v] = u]
    BY DEF Contact
  <2>2. term[l] \in Nat /\ term[l] >= term[v] /\ (term[l] = term[v] => u = votedFor[v]) BY <1>2
  <2> HIDE DEF u
  <2> QED BY <2>1, <2>2, FollowElections
<1>4. Steady BY <1>2 DEF Contact, Steady
<1>5. ASSUME ~forgot' PROVE Loyal
  <2>1. ~forgot BY <1>5 DEF Contact
  <2>2. leads[v] => term'[v] # term[v] BY <1>2 DEF Elections, OneLeader
  <2>3. \A x \in Node : ~boosted[x] BY <2>1 DEF Windows, LeaderStays
  <2> QED BY <1>2, <2>1, <2>2, <2>3, WindowAssumption DEF Loyal
<1>6. AnchorsKept
  <2>1. lease' = lease BY DEF Contact
  <2>2. \A n \in Node : n # l => proof'[n] = proof[n] BY DEF Contact, TypeOK
  <2>3. ASSUME NEW s \in Source
        PROVE  proof'[l][s] = IF proof[l][s] # None /\ proof[l][s].term = term[l]
                              THEN [proof[l][s] EXCEPT !.acks = @ \cup {v}] ELSE proof[l][s]
    BY DEF Contact, TypeOK
  <2>4. ASSUME NEW p \in Round
        PROVE  LET q == [p EXCEPT !.acks = @ \cup {v}] IN
               q.mono = p.mono /\ q.wall = p.wall /\ q.term = p.term /\ q.acks = p.acks \cup {v}
    BY DEF Round
  <2>5. ASSUME NEW s \in Source, proof'[l][s] # None
        PROVE  LET p == proof[l][s]
                   q == proof'[l][s] IN
               /\ p # None /\ q.mono = p.mono /\ q.wall = p.wall /\ q.term = p.term
               /\ \A u \in q.acks : u \in p.acks \/
                    /\ refuses'[u] = Timeout /\ term[u] <= term[l] /\ p.term = term[l]
                    /\ \A c \in Node : u \in votes'[c] => u \in votes[c] /\ term'[c] = term[c]
    <3>1. CASE proof[l][s] # None /\ proof[l][s].term = term[l]
      <4>1. proof[l][s] \in Round BY <3>1 DEF TypeOK
      <4>2. \A c \in Node : v \in votes'[c] => v \in votes[c] /\ term'[c] = term[c] BY <1>2
      <4>3. LET q == proof'[l][s] IN /\ q.mono = proof[l][s].mono /\ q.wall = proof[l][s].wall
                                     /\ q.term = proof[l][s].term /\ q.acks = proof[l][s].acks \cup {v}
        BY <2>3, <2>4, <3>1, <4>1
      <4>4. refuses'[v] = Timeout /\ term[v] <= term[l] BY <1>2
      <4> QED BY <3>1, <4>2, <4>3, <4>4
    <3>2. CASE ~(proof[l][s] # None /\ proof[l][s].term = term[l]) BY <2>3, <2>5, <3>2
    <3> QED BY <3>1, <3>2
  <2> QED BY <2>1, <2>2, <2>5 DEF AnchorsKept
<1> QED BY <1>1, <1>3, <1>4, <1>5, <1>6, SteadyInv

\* A leader that steps down moves on to a later term, which closes its window.
LEMMA StepDownInv == ASSUME Inv, NEW n \in Node, StepDown(n) PROVE Inv'
<1> USE DEF Inv
<1>1. TypeOK' BY TypeRaft
<1>2. PICK t \in Nat : t > term[n] /\ term' = [term EXCEPT ![n] = t]
  <2>1. \A m \in Node : term[m] \in Nat BY DEF TypeOK
  <2>2. \E t \in {term[m] : m \in Node} : t > term[n] /\ term' = [term EXCEPT ![n] = t] BY DEF StepDown
  <2> QED BY <2>1, <2>2
<1>3. /\ \A x \in Node : x # n => term'[x] = term[x] /\ leads'[x] = leads[x] /\ votes'[x] = votes[x]
      /\ term'[n] = t /\ leads'[n] = FALSE /\ votes'[n] = {} /\ boosted' = boosted /\ refuses' = refuses
      /\ \A x \in Node : term[x] \in Nat /\ refuses[x] \in Nat
  BY <1>2, WindowAssumption DEF StepDown, TypeOK
<1>4. Elections'
  <2>1. t >= term[n] /\ (t = term[n] => None = votedFor[n]) BY <1>2, <1>3
  <2> QED BY <1>2, <2>1, FollowElections DEF StepDown
<1>5. Steady BY <1>2, <1>3 DEF StepDown, Steady
<1>6. ASSUME ~forgot' PROVE Loyal
  <2>1. ~forgot BY <1>6 DEF StepDown
  <2>2. \A x \in Node : ~boosted[x] BY <2>1 DEF Windows, LeaderStays
  <2> QED BY <1>2, <1>3, <2>1, <2>2 DEF Loyal
<1>7. AnchorsKept BY UntouchedAnchors DEF StepDown, codeVars
<1> QED BY <1>1, <1>4, <1>5, <1>6, <1>7, SteadyInv

\* A restart closes the windows of its own node; it either forgets a refusal or had none.
LEMMA RestartInv == ASSUME Inv, NEW n \in Node, Restart(n) PROVE Inv'
<1> USE DEF Inv
<1>1. TypeOK' BY TypeRaft
<1>2. /\ \A x \in Node : x # n => /\ leads'[x] = leads[x] /\ votes'[x] = votes[x]
                                  /\ boosted'[x] = boosted[x] /\ refuses'[x] = refuses[x]
                                  /\ lease'[x] = lease[x] /\ proof'[x] = proof[x]
      /\ term' = term /\ leads'[n] = FALSE /\ votes'[n] = {} /\ boosted'[n] = FALSE /\ refuses'[n] = 0
      /\ lease'[n] = None /\ \A s \in Source : proof'[n][s] = None
      /\ \A x \in Node : term[x] \in Nat /\ refuses[x] \in Nat
  BY WindowAssumption DEF Restart, TypeOK
<1>3. Elections'
  <2>1. /\ term' = [term EXCEPT ![n] = term[n]] /\ votedFor' = [votedFor EXCEPT ![n] = votedFor[n]]
        /\ votes' = [votes EXCEPT ![n] = {}] /\ leads' = [leads EXCEPT ![n] = FALSE]
    BY DEF Restart, TypeOK
  <2>2. term[n] \in Nat /\ term[n] >= term[n] BY <1>2
  <2> QED BY <2>1, <2>2, FollowElections
<1>4. Steady BY <1>2 DEF Restart, Steady
<1>5. ASSUME ~forgot' PROVE Loyal
  <2>1. ~forgot /\ ~leads[n] /\ ~(refuses[n] > 0) BY <1>5 DEF Restart
  <2>2. refuses[n] = 0 BY <1>2, <2>1
  <2>3. \A x \in Node : ~boosted[x] BY <2>1 DEF Windows, LeaderStays
  <2> QED BY <1>2, <2>1, <2>2, <2>3 DEF Loyal
<1>6. AnchorsKept BY <1>2 DEF AnchorsKept
<1> QED BY <1>1, <1>3, <1>4, <1>5, <1>6, SteadyInv

\* A transfer makes a voter forget.
LEMMA TransferInv == ASSUME Inv, NEW n \in Node, NEW m \in Node, LeadershipTransfer(n, m) PROVE Inv'
<1> USE DEF Inv
<1>1. TypeOK' BY SMT DEF TypeOK, LeadershipTransfer, Campaign
<1>2. Elections' BY CampaignElections DEF LeadershipTransfer
<1>3. Steady BY DEF LeadershipTransfer, Campaign, TypeOK, Steady
<1>4. forgot' BY DEF LeadershipTransfer
<1>5. AnchorsKept BY UntouchedAnchors DEF LeadershipTransfer
<1> QED BY <1>1, <1>2, <1>3, <1>4, <1>5, SteadyInv

\* Steps that change neither Raft's state nor a window, and forget no round but their own.
LEMMA QuietInv ==
  ASSUME Inv, TypeOK', fault' = fault, UNCHANGED raftVars, lease' = lease, stale' = stale, forgot' = forgot,
         \A n \in Node, s \in Source : proof'[n][s] \in {proof[n][s], None}
  PROVE  Inv'
<1> USE DEF Inv, raftVars
<1>1. Elections' BY SameElections
<1>2. Steady BY DEF Steady, TypeOK
<1>3. ASSUME ~forgot' PROVE Loyal
  <2>1. \A x \in Node : ~boosted[x] BY <1>3 DEF Windows, LeaderStays
  <2>2. \A x \in Node : refuses[x] \in Nat BY WindowAssumption DEF TypeOK
  <2> QED BY <1>3, <2>1, <2>2 DEF Loyal
<1>4. AnchorsKept BY DEF AnchorsKept
<1> QED BY <1>1, <1>2, <1>3, <1>4, SteadyInv

-----------------------------------------------------------------------------
(* Time, elections won, rounds begun and finished *)

\* Time passes on the clock that does not misbehave, whatever the other one does.
LEMMA AgeReal ==
  ASSUME TypeOK, NEW n \in Node, NEW m \in {0, 1}, NEW w \in {-1, 1}, NEW a \in Anchor \cup Round,
         fault[n] = "suspend" => w = 1, fault[n] = "step" => m = 1
  PROVE  LET b == Age(a, m, w) IN
         /\ Real(n, b) = Plus(Real(n, a), 1) /\ b.term = a.term
         /\ a \in Round => b.acks = a.acks
<1>1. fault[n] \in {"suspend", "step"} BY BoundsAssumption DEF TypeOK
<1>2. a # None BY NoneAssumption
<1>3. CASE a \in Anchor BY <1>1, <1>2, <1>3 DEF Age, Real, Anchor
<1>4. CASE a \in Round BY <1>1, <1>2, <1>4 DEF Age, Real, Round
<1> QED BY <1>2, <1>3, <1>4, NoneAssumption DEF Anchor, Round

\* A refusal loses a tick when its window ages by one; the superseded grow no older than windows.
LEMMA TickInv == ASSUME Inv, Tick PROVE Inv'
<1> USE DEF Inv, Windows, Ages
<1>1. TypeOK' BY TypeTick
<1>2. /\ fault' = fault /\ term' = term /\ leads' = leads /\ votedFor' = votedFor /\ votes' = votes
      /\ boosted' = boosted /\ forgot' = forgot
      /\ \A x \in Node : term[x] \in Nat /\ refuses[x] \in Nat /\ stale[x] \in 0..Window
      /\ \A x \in Node : refuses'[x] = IF refuses[x] = 0 THEN 0 ELSE refuses[x] - 1
      /\ \A x \in Node : stale'[x] = IF leads[x] /\ Superseded(x) THEN Plus(stale[x], 1) ELSE 0
  BY WindowAssumption DEF Tick, TypeOK
<1>3. Elections' BY <1>2, SameElections
<1>4. PICK asleep \in SUBSET {n \in Node : fault[n] = "suspend"},
           stepped \in SUBSET {n \in Node : fault[n] = "step"} :
        /\ lease' = [n \in Node |-> Age(lease[n], IF n \in asleep THEN 0 ELSE 1,
                                                  IF n \in stepped THEN -1 ELSE 1)]
        /\ proof' = [n \in Node |-> [s \in Source |->
                        Age(proof[n][s], IF n \in asleep THEN 0 ELSE 1, IF n \in stepped THEN -1 ELSE 1)]]
  BY DEF Tick
<1>5. ASSUME NEW n \in Node, NEW b \in Anchor, lease'[n] = b
      PROVE  \E a \in Anchor : /\ lease[n] = a /\ a # None /\ b.term = a.term
                               /\ Real(n, b) = Plus(Real(n, a), 1) /\ Made(n, a)
  <2>1. b = Age(lease[n], IF n \in asleep THEN 0 ELSE 1, IF n \in stepped THEN -1 ELSE 1) BY <1>4, <1>5
  <2>2. lease[n] # None BY <2>1, NoneAssumption DEF Age
  <2>3. lease[n] \in Anchor BY <2>2 DEF TypeOK
  <2>4. Made(n, lease[n]) BY <2>2 DEF AnchorsMade
  <2> QED BY <2>1, <2>2, <2>3, <2>4, AgeReal
<1>6. ASSUME NEW n \in Node, NEW s \in Source, NEW q \in Round, proof'[n][s] = q
      PROVE  \E p \in Round : /\ proof[n][s] = p /\ p # None /\ q.term = p.term /\ q.acks = p.acks
                              /\ Real(n, q) = Plus(Real(n, p), 1) /\ Made(n, p)
  <2>1. q = Age(proof[n][s], IF n \in asleep THEN 0 ELSE 1, IF n \in stepped THEN -1 ELSE 1) BY <1>4, <1>6
  <2>2. proof[n][s] # None BY <2>1, NoneAssumption DEF Age
  <2>3. proof[n][s] \in Round BY <2>2 DEF TypeOK
  <2>4. Made(n, proof[n][s]) BY <2>2 DEF AnchorsMade
  <2> QED BY <2>1, <2>2, <2>3, <2>4, AgeReal
<1>7. \A n \in Node, a \in Anchor \cup Round : Real(n, a)' = Real(n, a) BY <1>2 DEF Real
<1>8. ASSUME NEW n \in Node, NEW a \in Anchor \cup Round, NEW b \in Anchor \cup Round,
             Real(n, b) = Plus(Real(n, a), 1), b.term = a.term, Made(n, a)
      PROVE  /\ Made(n, b)' /\ (Open(n, b)' => Open(n, a))
             /\ \A A \in SUBSET Node : Open(n, b)' /\ Refusing(n, a, A) => Refusing(n, b, A)'
             /\ \A e \in 0..Window : e <= Real(n, a) => Plus(e, 1) <= Real(n, b)
  <2>1. Real(n, a) \in Int /\ Real(n, a) <= Window /\ Real(n, a) >= 0 BY <1>8, RealType DEF Made
  <2>2. /\ Real(n, b) \in Int /\ Real(n, b) >= 0 /\ Real(n, b) <= Real(n, a) + 1
        /\ Real(n, b) < Window => Real(n, b) = Real(n, a) + 1
        /\ \A e \in 0..Window : e <= Real(n, a) => Plus(e, 1) <= Real(n, b)
    BY <2>1, <1>8, WindowAssumption DEF Plus
  <2>3. Made(n, b)' BY <1>2, <1>7, <1>8, <2>2 DEF Made
  <2>4. ASSUME Open(n, b)' PROVE Open(n, a)
    <3>1. a.term = term[n] /\ Real(n, b) < Window BY <1>2, <1>7, <1>8, <2>4 DEF Open
    <3>2. Real(n, a) < Window BY <2>1, <2>2, <3>1, WindowAssumption
    <3> QED BY <3>1, <3>2 DEF Open
  <2>5. ASSUME NEW A \in SUBSET Node, Open(n, b)', Refusing(n, a, A) PROVE Refusing(n, b, A)'
    <3>1. Real(n, b) = Real(n, a) + 1 BY <2>2, <2>5, <1>7 DEF Open
    <3> SUFFICES ASSUME NEW v \in A
                 PROVE  /\ v = n \/ refuses'[v] + Real(n, b) >= Timeout
                        /\ \A c \in Node : term[c] > b.term => v \notin votes[c]
      BY <1>2, <1>7 DEF Refusing
    <3>2. v = n \/ refuses[v] + Real(n, a) >= Timeout BY <2>5 DEF Refusing
    <3>3. \A c \in Node : term[c] > b.term => v \notin votes[c] BY <1>8, <2>5 DEF Refusing
    <3>4. refuses[v] \in Nat /\ (refuses'[v] = IF refuses[v] = 0 THEN 0 ELSE refuses[v] - 1) BY <1>2
    <3> QED BY <2>1, <3>1, <3>2, <3>3, <3>4, WindowAssumption
  <2> QED BY <2>2, <2>3, <2>4, <2>5
<1>9. /\ \A n \in Node : LaterLeader(n)' <=> LaterLeader(n)
      /\ \A n \in Node : \A A : Outvoted(n, A)' <=> Outvoted(n, A)
  BY <1>2 DEF LaterLeader, Outvoted
<1>10. AnchorsMade'
  <2>1. ASSUME NEW n \in Node, NEW b \in Anchor, lease'[n] = b PROVE Made(n, b)' BY <1>5, <1>8, <2>1
  <2>2. ASSUME NEW n \in Node, NEW s \in Source, NEW q \in Round, proof'[n][s] = q PROVE Made(n, q)'
    BY <1>6, <1>8, <2>2
  <2> QED BY <1>1, <2>1, <2>2, AnchorsMadeIf
<1>11. LeaderStays'
  <2> SUFFICES ASSUME ~forgot, NEW n \in Node
               PROVE  /\ ~boosted[n]
                      /\ lease'[n] # None /\ lease'[n].term = term[n] => leads[n]
                      /\ \A s \in Source : proof'[n][s] # None /\ proof'[n][s].term = term[n] => leads[n]
    BY <1>2 DEF LeaderStays
  <2>1. ASSUME lease'[n] # None, lease'[n].term = term[n] PROVE leads[n]
    <3>1. PICK b \in Anchor : lease'[n] = b BY <1>1, <2>1 DEF TypeOK
    <3> QED BY <1>5, <2>1, <3>1 DEF LeaderStays
  <2>2. ASSUME NEW s \in Source, proof'[n][s] # None, proof'[n][s].term = term[n] PROVE leads[n]
    <3>1. PICK q \in Round : proof'[n][s] = q BY <1>1, <2>2 DEF TypeOK
    <3> QED BY <1>6, <2>2, <3>1 DEF LeaderStays
  <2>3. ~boosted[n] BY DEF LeaderStays
  <2> QED BY <2>1, <2>2, <2>3
<1>12. RoundsRefuse'
  <2> SUFFICES ASSUME ~forgot', NEW n \in Node, NEW s \in Source, NEW q \in Round, proof'[n][s] = q,
                      Open(n, q)'
               PROVE  Refusing(n, q, q.acks)' /\ (LaterLeader(n)' => Outvoted(n, q.acks)')
    BY <1>1, RoundsRefuseIf
  <2>1. PICK p \in Round : /\ proof[n][s] = p /\ p # None /\ q.term = p.term /\ q.acks = p.acks
                           /\ Real(n, q) = Plus(Real(n, p), 1) /\ Made(n, p)
    BY <1>6
  <2>2. Open(n, p) BY <1>8, <2>1
  <2>3. Refusing(n, p, p.acks) /\ (LaterLeader(n) => Outvoted(n, p.acks)) BY <1>2, <2>1, <2>2 DEF RoundsRefuse
  <2>4. p.acks \in SUBSET Node BY DEF Round
  <2>5. Refusing(n, q, p.acks)' BY <1>8, <2>1, <2>3, <2>4
  <2> QED BY <1>9, <2>1, <2>3, <2>5
<1>13. WindowsRefuse'
  <2> SUFFICES ASSUME ~forgot', NEW n \in Node, NEW b \in Anchor, lease'[n] = b, Open(n, b)'
               PROVE  (\E Q \in Quorum : Refusing(n, b, Q)') /\ ~LaterLeader(n)'
    BY <1>1, WindowsRefuseIf
  <2>1. PICK a \in Anchor : /\ lease[n] = a /\ a # None /\ b.term = a.term
                            /\ Real(n, b) = Plus(Real(n, a), 1) /\ Made(n, a)
    BY <1>5
  <2>2. Open(n, a) BY <1>8, <2>1
  <2>3. PICK Q \in Quorum : Refusing(n, a, Q) BY <1>2, <2>1, <2>2 DEF WindowsRefuse
  <2>4. Q \in SUBSET Node BY QuorumAssumption
  <2>5. Refusing(n, b, Q)' BY <1>8, <2>1, <2>3, <2>4
  <2>6. ~LaterLeader(n) BY <1>2, <2>1, <2>2 DEF WindowsRefuse
  <2> QED BY <1>9, <2>5, <2>6
<1>14. StaleOutvoted'
  <2> SUFFICES ASSUME NEW n \in Node, leads[n], stale'[n] > 0 PROVE Outvoted(n, {})
    BY <1>2, <1>9 DEF StaleOutvoted
  <2>1. stale'[n] = IF leads[n] /\ Superseded(n) THEN Plus(stale[n], 1) ELSE 0 BY <1>2
  <2>2. ~Superseded(n) => stale'[n] = 0 BY <2>1
  <2> QED BY <2>2 DEF Superseded, Outvoted
<1>15. ASSUME NEW n \in Node, NEW a \in Anchor \cup Round, NEW b \in Anchor \cup Round,
              Real(n, b) = Plus(Real(n, a), 1), b.term = a.term, Made(n, a), stale[n] <= Real(n, a)
       PROVE  stale'[n] <= Real(n, b)'
  <2>1. Plus(stale[n], 1) <= Real(n, b) BY <1>2, <1>8, <1>15
  <2>2. Real(n, b)' >= 0 BY <1>8, <1>15 DEF Made
  <2> QED BY <1>2, <1>7, <2>1, <2>2
<1>16. RoundsOlder' /\ WindowsOlder'
  <2>1. ASSUME NEW n \in Node, NEW b \in Anchor, lease'[n] = b, b.term = term'[n]
        PROVE  stale'[n] <= Real(n, b)'
    <3>1. PICK a \in Anchor : /\ lease[n] = a /\ a # None /\ b.term = a.term
                              /\ Real(n, b) = Plus(Real(n, a), 1) /\ Made(n, a)
      BY <1>5, <2>1
    <3>2. stale[n] <= Real(n, a) BY <1>2, <2>1, <3>1 DEF WindowsOlder
    <3> QED BY <1>15, <3>1, <3>2
  <2>2. ASSUME NEW n \in Node, NEW s \in Source, NEW q \in Round, proof'[n][s] = q, q.term = term'[n]
        PROVE  Outvoted(n, q.acks)' \/ stale'[n] <= Real(n, q)'
    <3>1. PICK p \in Round : /\ proof[n][s] = p /\ p # None /\ q.term = p.term /\ q.acks = p.acks
                             /\ Real(n, q) = Plus(Real(n, p), 1) /\ Made(n, p)
      BY <1>6, <2>2
    <3>2. Outvoted(n, p.acks) \/ stale[n] <= Real(n, p) BY <1>2, <2>2, <3>1 DEF RoundsOlder
    <3> QED BY <1>9, <1>15, <3>1, <3>2
  <2> QED BY <1>1, <2>1, <2>2, OlderIf
<1> QED BY <1>1, <1>3, <1>10, <1>11, <1>12, <1>13, <1>14, <1>16

\* A new leader's voters had not answered any round that is still open.
LEMMA BecomeLeaderInv == ASSUME Inv, NEW m \in Node, BecomeLeader(m) PROVE Inv'
<1> USE DEF Inv, Windows, Ages
<1>1. TypeOK' BY TypeRaft
<1>2. Elections' BY BecomeLeaderElections
<1>3. /\ fault' = fault /\ term' = term /\ refuses' = refuses /\ lease' = lease /\ proof' = proof
      /\ forgot' = forgot /\ ~leads[m] /\ votes'[m] = {} /\ boosted'[m] = FALSE /\ stale'[m] = 0
      /\ \A x \in Node : x # m => /\ leads'[x] = leads[x] /\ votes'[x] = votes[x] /\ stale'[x] = stale[x]
                                  /\ boosted'[x] = boosted[x]
      /\ leads'[m] = TRUE
      /\ \A x \in Node : term[x] \in Nat /\ votes[x] \in SUBSET Node
  BY DEF BecomeLeader, TypeOK, codeVars
<1>4. PICK V \in Quorum : V \subseteq votes[m] BY DEF BecomeLeader
<1>5. /\ \A n \in Node, a \in Anchor \cup Round : Real(n, a)' = Real(n, a)
      /\ \A n \in Node, a \in Anchor \cup Round : Open(n, a)' <=> Open(n, a)
      /\ \A n \in Node : \A A : Outvoted(n, A)' <=> Outvoted(n, A)
  BY <1>3 DEF Real, Open, Outvoted
<1>6. ASSUME NEW n \in Node, NEW a \in Anchor \cup Round, NEW A \in SUBSET Node, Refusing(n, a, A)
      PROVE  Refusing(n, a, A)'
  BY <1>3, <1>5, <1>6 DEF Refusing
<1>7. \A v \in V : term[v] >= term[m] /\ v \in Node BY <1>3, <1>4 DEF Elections, VotesCast
<1>8. ASSUME NEW n \in Node, NEW a \in Anchor \cup Round, a.term = term[n], term[m] > term[n],
             NEW A \in SUBSET Node, Refusing(n, a, A)
      PROVE  V \cap A = {}
  BY <1>4, <1>8 DEF Refusing
<1>9. AnchorsMade' BY <1>3 DEF AnchorsMade, Made, Real
<1>10. LeaderStays' BY <1>3 DEF LeaderStays
<1>11. RoundsRefuse'
  <2> SUFFICES ASSUME ~forgot', NEW n \in Node, NEW s \in Source, NEW p \in Round, proof'[n][s] = p,
                      Open(n, p)'
               PROVE  Refusing(n, p, p.acks)' /\ (LaterLeader(n)' => Outvoted(n, p.acks)')
    BY <1>1, RoundsRefuseIf
  <2>1. proof[n][s] = p /\ p # None /\ Open(n, p) /\ ~forgot /\ p.term = term[n]
    BY <1>3, <1>5, NoneAssumption DEF Open
  <2>2. Refusing(n, p, p.acks) /\ (LaterLeader(n) => Outvoted(n, p.acks)) BY <2>1 DEF RoundsRefuse
  <2>3. p.acks \in SUBSET Node BY DEF Round
  <2>4. ASSUME LaterLeader(n)', ~LaterLeader(n) PROVE Outvoted(n, p.acks)
    <3>1. term[m] > term[n] BY <1>3, <2>4 DEF LaterLeader
    <3>2. V \cap p.acks = {} BY <1>8, <2>1, <2>2, <2>3, <3>1
    <3>3. \A v \in V : term[v] > term[n] BY <1>3, <1>7, <3>1
    <3> QED BY <3>2, <3>3 DEF Outvoted
  <2> QED BY <1>5, <1>6, <2>2, <2>3, <2>4
<1>12. WindowsRefuse'
  <2> SUFFICES ASSUME ~forgot', NEW n \in Node, NEW a \in Anchor, lease'[n] = a, Open(n, a)'
               PROVE  (\E Q \in Quorum : Refusing(n, a, Q)') /\ ~LaterLeader(n)'
    BY <1>1, WindowsRefuseIf
  <2>1. lease[n] = a /\ a # None /\ Open(n, a) /\ ~forgot /\ a.term = term[n]
    BY <1>3, <1>5, NoneAssumption DEF Open
  <2>2. PICK Q \in Quorum : Refusing(n, a, Q) BY <2>1 DEF WindowsRefuse
  <2>3. ~LaterLeader(n) BY <2>1 DEF WindowsRefuse
  <2>4. Q \in SUBSET Node /\ V \cap Q # {} BY QuorumAssumption
  <2>5. ~(term[m] > term[n]) BY <1>8, <2>1, <2>2, <2>4
  <2>6. ~LaterLeader(n)' BY <1>3, <2>3, <2>5 DEF LaterLeader
  <2> QED BY <1>6, <2>2, <2>4, <2>6
<1>13. StaleOutvoted' BY <1>3, <1>5 DEF StaleOutvoted
<1>14. RoundsOlder' /\ WindowsOlder'
  <2>1. ASSUME NEW n \in Node, NEW a \in Anchor, lease'[n] = a, a.term = term'[n]
        PROVE  stale'[n] <= Real(n, a)'
    <3>1. lease[n] = a /\ a # None /\ a.term = term[n] BY <1>3, <2>1, NoneAssumption
    <3>2. Real(n, a) >= 0 BY <3>1 DEF AnchorsMade, Made
    <3>3. stale[n] <= Real(n, a) BY <3>1 DEF WindowsOlder
    <3> QED BY <1>3, <1>5, <3>2, <3>3
  <2>2. ASSUME NEW n \in Node, NEW s \in Source, NEW p \in Round, proof'[n][s] = p, p.term = term'[n]
        PROVE  Outvoted(n, p.acks)' \/ stale'[n] <= Real(n, p)'
    <3>1. proof[n][s] = p /\ p # None /\ p.term = term[n] BY <1>3, <2>2, NoneAssumption
    <3>2. Real(n, p) >= 0 BY <3>1 DEF AnchorsMade, Made
    <3>3. Outvoted(n, p.acks) \/ stale[n] <= Real(n, p) BY <3>1 DEF RoundsOlder
    <3> QED BY <1>3, <1>5, <3>2, <3>3
  <2> QED BY <1>1, <2>1, <2>2, OlderIf
<1> QED BY <1>1, <1>2, <1>9, <1>10, <1>11, <1>12, <1>13, <1>14

\* What a step that leaves Raft's state alone leaves as it is.
SameRaft ==
    /\ fault' = fault /\ term' = term /\ leads' = leads /\ votes' = votes /\ boosted' = boosted
    /\ refuses' = refuses /\ stale' = stale /\ forgot' = forgot

\* What is said about windows is said about Raft and the clocks only.
LEMMA SameRaftFacts ==
  ASSUME SameRaft, NEW n \in Node
  PROVE  /\ \A a \in Anchor \cup Round : /\ Real(n, a)' = Real(n, a)
                                         /\ Open(n, a)' <=> Open(n, a)
                                         /\ Made(n, a)' <=> Made(n, a)
         /\ \A A : Outvoted(n, A)' <=> Outvoted(n, A)
         /\ \A a \in Anchor \cup Round, A \in SUBSET Node : Refusing(n, a, A)' <=> Refusing(n, a, A)
         /\ LaterLeader(n)' <=> LaterLeader(n)
  BY DEF SameRaft, Real, Open, Made, Outvoted, Refusing, LaterLeader

\* A round begins with its leader's own answer.
LEMMA StartProofInv == ASSUME Inv, NEW k \in Node, NEW z \in Source, StartProof(k, z) PROVE Inv'
<1> USE DEF Inv, Windows, Ages
<1>1. TypeOK' BY TypeCode
<1>2. SameRaft /\ lease' = lease /\ votedFor' = votedFor /\ leads[k] BY DEF StartProof, SameRaft, raftVars
<1>3. Elections' /\ forgot' = forgot /\ term' = term /\ stale' = stale
  BY <1>2, SameElections DEF SameRaft
<1> DEFINE new == [mono |-> 0, wall |-> 0, term |-> term[k], acks |-> {k}]
<1>4. \A n \in Node, s \in Source : proof'[n][s] = IF n = k /\ s = z THEN new ELSE proof[n][s]
  BY DEF StartProof, TypeOK
<1>5. Real(k, new) = 0 /\ new.term = term[k] /\ new.acks = {k} BY DEF Real
<1>6. term[k] \in Nat /\ \A x \in Node : term[x] \in Nat /\ votes[x] \in SUBSET Node BY DEF TypeOK
<1>7. Made(k, new) BY <1>5, <1>6 DEF Made
<1>8. Refusing(k, new, {k}) BY <1>5, <1>6 DEF Refusing, Elections, VotesCast
<1>9. \A Q \in Quorum : (\A v \in Q : term[v] > term[k]) => Q \cap {k} = {} BY <1>6
<1>10. LaterLeader(k) => Outvoted(k, {k})
  <2> SUFFICES ASSUME NEW m \in Node, leads[m], term[m] > term[k] PROVE Outvoted(k, {k})
    BY DEF LaterLeader
  <2>1. PICK Q \in Quorum : ElectedBy(m, Q) BY DEF Elections, Elected
  <2>2. \A v \in Q : v \in Node BY QuorumAssumption
  <2>3. \A v \in Q : term[v] > term[k] BY <1>6, <2>1, <2>2 DEF ElectedBy
  <2> QED BY <1>9, <2>3 DEF Outvoted
<1>11. Outvoted(k, {k}) \/ stale[k] <= 0
  <2>1. stale[k] \in Nat BY WindowAssumption DEF TypeOK
  <2> QED BY <1>2, <1>9, <2>1 DEF StaleOutvoted, Outvoted
<1>12. new \in Round BY <1>6, WindowAssumption DEF Round, Elapsed
<1> HIDE DEF new
<1>13. AnchorsMade'
  <2>1. ASSUME NEW n \in Node, NEW a \in Anchor, lease'[n] = a PROVE Made(n, a)'
    BY <1>2, <2>1, SameRaftFacts, NoneAssumption DEF AnchorsMade
  <2>2. ASSUME NEW n \in Node, NEW s \in Source, NEW q \in Round, proof'[n][s] = q PROVE Made(n, q)'
    BY <1>2, <1>4, <1>7, <2>2, SameRaftFacts, NoneAssumption DEF AnchorsMade
  <2> QED BY <1>1, <2>1, <2>2, AnchorsMadeIf
<1>14. LeaderStays' BY <1>2, <1>4 DEF LeaderStays, SameRaft
<1>15. RoundsRefuse'
  <2> SUFFICES ASSUME ~forgot', NEW n \in Node, NEW s \in Source, NEW q \in Round, proof'[n][s] = q,
                      Open(n, q)'
               PROVE  Refusing(n, q, q.acks)' /\ (LaterLeader(n)' => Outvoted(n, q.acks)')
    BY <1>1, RoundsRefuseIf
  <2>1. Open(n, q) /\ ~forgot BY <1>2, <1>3, SameRaftFacts
  <2>2. Refusing(n, q, q.acks) /\ (LaterLeader(n) => Outvoted(n, q.acks))
    <3>1. CASE n = k /\ s = z BY <1>4, <1>5, <1>8, <1>10, <3>1
    <3>2. CASE ~(n = k /\ s = z)
      <4>1. proof[n][s] = q /\ q # None BY <1>4, <3>2, NoneAssumption
      <4> QED BY <2>1, <4>1 DEF RoundsRefuse
    <3> QED BY <3>1, <3>2
  <2>3. q.acks \in SUBSET Node BY DEF Round
  <2> QED BY <1>2, <2>2, <2>3, SameRaftFacts
<1>16. WindowsRefuse'
  <2> SUFFICES ASSUME ~forgot', NEW n \in Node, NEW a \in Anchor, lease'[n] = a, Open(n, a)'
               PROVE  (\E Q \in Quorum : Refusing(n, a, Q)') /\ ~LaterLeader(n)'
    BY <1>1, WindowsRefuseIf
  <2>1. Open(n, a) /\ ~forgot /\ lease[n] = a /\ a # None
    BY <1>2, <1>3, SameRaftFacts, NoneAssumption
  <2>2. (\E Q \in Quorum : Refusing(n, a, Q)) /\ ~LaterLeader(n) BY <2>1 DEF WindowsRefuse
  <2>3. \A Q \in Quorum : Q \in SUBSET Node BY QuorumAssumption
  <2> QED BY <1>2, <2>2, <2>3, SameRaftFacts
<1>17. StaleOutvoted' BY <1>2, SameRaftFacts DEF StaleOutvoted, SameRaft
<1>18. RoundsOlder' /\ WindowsOlder'
  <2>1. ASSUME NEW n \in Node, NEW a \in Anchor, lease'[n] = a, a.term = term'[n]
        PROVE  stale'[n] <= Real(n, a)'
    <3>1. lease[n] = a /\ a # None /\ a.term = term[n] BY <1>2, <2>1, NoneAssumption DEF SameRaft
    <3>2. stale[n] <= Real(n, a) BY <3>1 DEF WindowsOlder
    <3> QED BY <1>2, <1>3, <3>2, SameRaftFacts
  <2>2. ASSUME NEW n \in Node, NEW s \in Source, NEW q \in Round, proof'[n][s] = q, q.term = term'[n]
        PROVE  Outvoted(n, q.acks)' \/ stale'[n] <= Real(n, q)'
    <3>1. Outvoted(n, q.acks) \/ stale[n] <= Real(n, q)
      <4>1. CASE n = k /\ s = z BY <1>4, <1>5, <1>11, <2>2, <4>1
      <4>2. CASE ~(n = k /\ s = z)
        <5>1. proof[n][s] = q /\ q # None /\ q.term = term[n]
          BY <1>2, <1>4, <2>2, <4>2, NoneAssumption DEF SameRaft
        <5> QED BY <5>1 DEF RoundsOlder
      <4> QED BY <4>1, <4>2
    <3> QED BY <1>2, <1>3, <3>1, SameRaftFacts
  <2> QED BY <1>1, <2>1, <2>2, OlderIf
<1> QED BY <1>1, <1>3, <1>13, <1>14, <1>15, <1>16, <1>17, <1>18

\* A window rests on the quorum that answered its round.
LEMMA FinishProofInv == ASSUME Inv, NEW k \in Node, NEW z \in Source, FinishProof(k, z) PROVE Inv'
<1> USE DEF Inv, Windows, Ages
<1>1. TypeOK' BY TypeCode
<1>2. SameRaft /\ votedFor' = votedFor BY DEF FinishProof, SameRaft, raftVars
<1>3. Elections' /\ forgot' = forgot /\ term' = term /\ stale' = stale
  BY <1>2, SameElections DEF SameRaft
<1>4. PICK p \in Round : p = proof[k][z] /\ p # None BY NoneAssumption DEF FinishProof, TypeOK
<1>5. PICK C \in Quorum : C \subseteq p.acks BY <1>4 DEF FinishProof
<1> DEFINE new == LeaseAnchor(p)
<1>6. /\ \A n \in Node : lease'[n] = IF n = k THEN new ELSE lease[n]
      /\ \A n \in Node, s \in Source : proof'[n][s] = IF n = k /\ s = z THEN None ELSE proof[n][s]
      /\ leads[k] /\ term[k] = p.term
  BY <1>4 DEF FinishProof, TypeOK
<1>7. /\ new \in Anchor /\ new.term = p.term /\ Real(k, new) = Real(k, p)
      /\ \A A : Refusing(k, p, A) => Refusing(k, new, A)
      /\ Open(k, new) => Open(k, p)
      /\ Made(k, p) => Made(k, new)
  BY DEF LeaseAnchor, Real, Anchor, Round, Refusing, Open, Made
<1>8. Made(k, p) BY <1>4 DEF AnchorsMade
<1>9. ~Outvoted(k, p.acks)
  <2> SUFFICES ASSUME NEW Q \in Quorum, Q \cap p.acks = {} PROVE FALSE BY DEF Outvoted
  <2> QED BY <1>5, QuorumAssumption
<1>10. C \in SUBSET Node BY QuorumAssumption
<1> HIDE DEF new
<1>11. AnchorsMade'
  <2>1. ASSUME NEW n \in Node, NEW a \in Anchor, lease'[n] = a PROVE Made(n, a)'
    BY <1>2, <1>6, <1>7, <1>8, <2>1, SameRaftFacts, NoneAssumption DEF AnchorsMade
  <2>2. ASSUME NEW n \in Node, NEW s \in Source, NEW q \in Round, proof'[n][s] = q PROVE Made(n, q)'
    BY <1>2, <1>6, <2>2, SameRaftFacts, NoneAssumption DEF AnchorsMade
  <2> QED BY <1>1, <2>1, <2>2, AnchorsMadeIf
<1>12. LeaderStays' BY <1>2, <1>6 DEF LeaderStays, SameRaft
<1>13. RoundsRefuse'
  <2> SUFFICES ASSUME ~forgot', NEW n \in Node, NEW s \in Source, NEW q \in Round, proof'[n][s] = q,
                      Open(n, q)'
               PROVE  Refusing(n, q, q.acks)' /\ (LaterLeader(n)' => Outvoted(n, q.acks)')
    BY <1>1, RoundsRefuseIf
  <2>1. Open(n, q) /\ ~forgot BY <1>2, <1>3, SameRaftFacts
  <2>2. proof[n][s] = q /\ q # None BY <1>6, NoneAssumption
  <2>3. Refusing(n, q, q.acks) /\ (LaterLeader(n) => Outvoted(n, q.acks)) BY <2>1, <2>2 DEF RoundsRefuse
  <2>4. q.acks \in SUBSET Node BY DEF Round
  <2> QED BY <1>2, <2>3, <2>4, SameRaftFacts
<1>14. WindowsRefuse'
  <2> SUFFICES ASSUME ~forgot', NEW n \in Node, NEW a \in Anchor, lease'[n] = a, Open(n, a)'
               PROVE  (\E Q \in Quorum : Refusing(n, a, Q)') /\ ~LaterLeader(n)'
    BY <1>1, WindowsRefuseIf
  <2>1. Open(n, a) /\ ~forgot /\ a # None BY <1>2, <1>3, SameRaftFacts, NoneAssumption
  <2>2. (\E Q \in Quorum : Refusing(n, a, Q)) /\ ~LaterLeader(n)
    <3>1. CASE n = k
      <4>1. a = new /\ Open(k, p) BY <1>6, <1>7, <2>1, <3>1
      <4>2. Refusing(k, p, p.acks) /\ ~LaterLeader(k) BY <1>4, <1>9, <2>1, <4>1 DEF RoundsRefuse
      <4>3. Refusing(k, p, C) BY <1>5, <4>2 DEF Refusing
      <4> QED BY <1>7, <3>1, <4>1, <4>2, <4>3
    <3>2. CASE n # k BY <1>6, <2>1, <3>2 DEF WindowsRefuse
    <3> QED BY <3>1, <3>2
  <2>3. \A Q \in Quorum : Q \in SUBSET Node BY QuorumAssumption
  <2> QED BY <1>2, <2>2, <2>3, SameRaftFacts
<1>15. StaleOutvoted' BY <1>2, SameRaftFacts DEF StaleOutvoted, SameRaft
<1>16. RoundsOlder' /\ WindowsOlder'
  <2>1. ASSUME NEW n \in Node, NEW a \in Anchor, lease'[n] = a, a.term = term'[n]
        PROVE  stale'[n] <= Real(n, a)'
    <3>1. stale[n] <= Real(n, a)
      <4>1. CASE n = k BY <1>4, <1>6, <1>7, <1>9, <2>1, <4>1 DEF RoundsOlder
      <4>2. CASE n # k BY <1>3, <1>6, <2>1, <4>2, NoneAssumption DEF WindowsOlder
      <4> QED BY <4>1, <4>2
    <3> QED BY <1>2, <1>3, <3>1, SameRaftFacts
  <2>2. ASSUME NEW n \in Node, NEW s \in Source, NEW q \in Round, proof'[n][s] = q, q.term = term'[n]
        PROVE  Outvoted(n, q.acks)' \/ stale'[n] <= Real(n, q)'
    <3>1. proof[n][s] = q /\ q # None /\ q.term = term[n] BY <1>3, <1>6, <2>2, NoneAssumption
    <3>2. Outvoted(n, q.acks) \/ stale[n] <= Real(n, q) BY <3>1 DEF RoundsOlder
    <3> QED BY <1>2, <1>3, <3>2, SameRaftFacts
  <2> QED BY <1>1, <2>1, <2>2, OlderIf
<1> QED BY <1>1, <1>3, <1>11, <1>12, <1>13, <1>14, <1>15, <1>16

-----------------------------------------------------------------------------
(* The theorems *)

\* Nobody leads, votes or serves at the start.
LEMMA InitInv == ASSUME Init PROVE Inv
<1>1. TypeOK BY TypeInit
<1>2. Elections BY DEF Init, Elections, VotesCast, VotesApart, Elected, OneLeader
<1>3. AnchorsMade /\ Windows
  BY DEF Init, AnchorsMade, Windows, LeaderStays, RoundsRefuse, WindowsRefuse
<1>4. Ages BY DEF Init, Ages, StaleOutvoted, RoundsOlder, WindowsOlder
<1> QED BY <1>1, <1>2, <1>3, <1>4 DEF Inv

\* Every step of Raft, of the clocks and of the code keeps the invariant.
LEMMA NextInv == Inv /\ [Next]_vars => Inv'
<1> SUFFICES ASSUME Inv, [Next]_vars PROVE Inv' OBVIOUS
<1> USE DEF Inv
<1>1. CASE Tick BY <1>1, TickInv
<1>2. ASSUME NEW n \in Node,
             \/ StartElection(n) \/ BecomeLeader(n) \/ StepDown(n) \/ Restart(n)
             \/ WriterFails(n) \/ HeartbeatSeesFailed(n) \/ TransferEnds(n)
      PROVE  Inv'
  <2>1. CASE WriterFails(n)
    <3>1. TypeOK' BY <2>1 DEF TypeOK, WriterFails, raftVars
    <3> QED BY <2>1, <3>1, QuietInv DEF WriterFails
  <2>2. CASE HeartbeatSeesFailed(n)
    <3>1. TypeOK' BY <2>2 DEF TypeOK, HeartbeatSeesFailed, raftVars
    <3> QED BY <2>2, <3>1, QuietInv DEF HeartbeatSeesFailed
  <2>3. CASE TransferEnds(n)
    <3>1. TypeOK' BY <2>3 DEF TypeOK, TransferEnds, raftVars
    <3> QED BY <2>3, <3>1, QuietInv DEF TransferEnds
  <2> QED BY <1>2, <2>1, <2>2, <2>3, StartElectionInv, BecomeLeaderInv, StepDownInv, RestartInv
<1>3. ASSUME NEW n \in Node, NEW m \in Node,
             GrantVote(n, m) \/ Contact(n, m) \/ LeadershipTransfer(n, m)
      PROVE  Inv'
  BY <1>3, GrantVoteInv, ContactInv, TransferInv
<1>4. ASSUME NEW n \in Node, NEW s \in Source,
             StartProof(n, s) \/ FinishProof(n, s) \/ AbortProof(n, s)
      PROVE  Inv'
  <2>1. CASE AbortProof(n, s)
    <3>1. TypeOK' BY <2>1, TypeCode
    <3>2. \A x \in Node, y \in Source : proof'[x][y] \in {proof[x][y], None}
      BY <2>1 DEF AbortProof, TypeOK
    <3> QED BY <2>1, <3>1, <3>2, QuietInv DEF AbortProof
  <2> QED BY <1>4, <2>1, StartProofInv, FinishProofInv
<1>5. CASE UNCHANGED vars
  <2>1. TypeOK' BY <1>5 DEF TypeOK, vars
  <2> QED BY <1>5, <2>1, QuietInv DEF vars, raftVars
<1> QED BY <1>1, <1>2, <1>3, <1>4, <1>5 DEF Next

\* The invariant holds in every reachable state.
LEMMA Invariance == Spec => []Inv
  BY InitInv, NextInv, PTL DEF Spec

\* Every variable keeps its shape: rounds and windows are well formed, ages saturate.
THEOREM TypesHold == Spec => []TypeOK
<1>1. Inv => TypeOK BY DEF Inv
<1> QED BY <1>1, Invariance, PTL

\* While a window of async.go is open no other node leads a newer term, for any
\* quorums that intersect and any window not longer than the voters' refusal.
THEOREM WindowsExclude == Spec => []WindowExcludesElection
<1>1. Inv => WindowExcludesElection
  <2> SUFFICES ASSUME Inv, ~forgot, NEW n \in Node, NEW m \in Node, Authoritative(n), leads[m]
               PROVE  term[m] <= term[n]
    BY DEF WindowExcludesElection
  <2>1. Open(n, lease[n]) /\ lease[n] # None
    BY DEF Authoritative, AuthorityTimeValid, Open, Real
  <2>2. ~LaterLeader(n) BY <2>1 DEF Inv, Windows, WindowsRefuse
  <2>3. term[m] \in Nat /\ term[n] \in Nat BY DEF Inv, TypeOK
  <2> QED BY <2>2, <2>3 DEF LaterLeader
<1> QED BY <1>1, Invariance, PTL

\* A superseded leader stops serving within one window, whichever of its clocks
\* misbehaves and whatever its voters have forgotten (authorityTimeValid).
THEOREM StaleBounded == Spec => []StaleReadsBounded
<1>1. Inv => StaleReadsBounded
  <2> SUFFICES ASSUME Inv, NEW n \in Node, Serving(n) PROVE stale[n] < Window
    BY DEF StaleReadsBounded
  <2>1. lease[n] # None /\ lease[n].term = term[n] /\ Real(n, lease[n]) < Window
    BY DEF Serving, Authoritative, AuthorityTimeValid, Real
  <2>2. lease[n] \in Anchor /\ stale[n] \in Nat BY <2>1, WindowAssumption DEF Inv, TypeOK
  <2>3. Real(n, lease[n]) \in Int BY <2>2, RealType DEF Inv
  <2>4. stale[n] <= Real(n, lease[n]) BY <2>1 DEF Inv, Ages, WindowsOlder
  <2> QED BY <2>1, <2>2, <2>3, <2>4, WindowAssumption
<1> QED BY <1>1, Invariance, PTL
=============================================================================
