------------------------- MODULE AsyncWriterProofs -------------------------
(***************************************************************************)
(* Proofs about AsyncWriter for any number of voters, keys and             *)
(* transaction shapes, and any length of the log.                          *)
(*                                                                         *)
(* The argument: only the node elected in a term issues that term's        *)
(* revisions, in ascending order, and its worker proposes them in that     *)
(* order; a restarted node is elected in another term before it issues     *)
(* again.  So revisions never repeat in the log, the revisions a record    *)
(* carries only grow, and what a caller is told is published lies behind   *)
(* what is committed.  While a security commit waits it is the last one    *)
(* issued, so the view it was made for is still the view it is added to.   *)
(***************************************************************************)
EXTENDS AsyncWriter, FiniteSetTheorems, TLAPS

Typed ==
    /\ elections \in Seq(Node) /\ log \in Seq(Entry)
    /\ hist \in Seq(States) /\ Len(hist) >= 1 /\ Committed <= Len(log)
    /\ applied \in [Node -> Nat] /\ \A n \in Node : applied[n] <= Committed
    /\ believes \in [Node -> Nat] /\ leaseTerm \in [Node -> Nat]
    /\ view \in [Node -> States] /\ wterm \in [Node -> Nat] /\ seq \in [Node -> Nat]
    /\ failed \in [Node -> BOOLEAN]
    /\ queue \in [Node -> Seq(Transaction)]
    /\ worker \in [Node -> Proposal \cup {None}]
    /\ caller \in [Node -> Waiting \cup {None}]
    /\ ackedSec \in [Key -> Rev]

RevLess(a, b) == a[1] < b[1] \/ (a[1] = b[1] /\ a[2] < b[2])

\* A term has one leader, and a leader that may serve leads the present term.
Leaders ==
    \A n \in Node :
        /\ believes[n] # 0 => believes[n] <= Term /\ elections[believes[n]] = n
        /\ wterm[n] # 0 => wterm[n] <= Term /\ elections[wterm[n]] = n
        /\ Authoritative(n) /\ ~failed[n] => believes[n] = Term

\* The proposals node n has not settled.
InQueue(n, c)  == \E j \in 1..Len(queue[n]) : queue[n][j] = c
InWorker(n, c) == worker[n] # None /\ worker[n].cmd = c
Unsent(n, c)   == InQueue(n, c) \/ (InWorker(n, c) /\ worker[n].stage = "propose")

\* r was issued: no leader of its term is about to issue it again.
Used(r) ==
    /\ r[1] # 0 /\ r[1] <= Term
    /\ \A n \in Node : believes[n] = r[1] => wterm[n] = r[1] /\ r[2] <= seq[n]

LogUsed == \A i \in 1..Len(log) : Used(log[i].cmd.rev) /\ log[i].term <= Term

\* What waits at n was issued by n.
PipelineUsed ==
    \A n \in Node : \A c \in Transaction : InQueue(n, c) \/ InWorker(n, c) =>
        Used(c.rev) /\ elections[c.rev[1]] = n

\* The queue is in the order of issue, behind the worker.
QueueOrdered ==
    \A n \in Node :
        /\ \A i, j \in 1..Len(queue[n]) : i < j => RevLess(queue[n][i].rev, queue[n][j].rev)
        /\ worker[n] # None => \A j \in 1..Len(queue[n]) : RevLess(worker[n].cmd.rev, queue[n][j].rev)

\* What was not proposed yet comes after what its term has in the log.
UnsentLater ==
    \A n \in Node : \A c \in Transaction : Unsent(n, c) =>
        \A i \in 1..Len(log) : log[i].cmd.rev[1] = c.rev[1] => log[i].cmd.rev[2] < c.rev[2]

LogOrdered ==
    \A i, j \in 1..Len(log) : i < j =>
        /\ log[i].term <= log[j].term
        /\ log[i].cmd.rev[1] = log[j].cmd.rev[1] => log[i].cmd.rev[2] < log[j].cmd.rev[2]

Issue == LogUsed /\ PipelineUsed /\ QueueOrdered /\ UnsentLater /\ LogOrdered

\* r is the revision of one of the first m entries, one that can be accepted.
ValidIn(r, m) == \E i \in 1..m : log[i].cmd.rev = r /\ log[i].term = r[1]

Last == hist[Len(hist)]

\* The committed states follow from the log, and records only get newer.
History ==
    /\ \A i \in 1..Committed : hist[i + 1] = Apply(hist[i], log[i].cmd, log[i].term)
    /\ \A j \in 1..Len(hist) : \A k \in Key :
        /\ hist[j][k].rev = NoRev \/ ValidIn(hist[j][k].rev, j - 1)
        /\ RevLeq(hist[j][k].rev, Last[k].rev)
    /\ \A k \in Key : RevLeq(ackedSec[k], Last[k].rev)

Quiet(n) == queue[n] = <<>> /\ worker[n] = None

\* While a security commit waits it is the last one issued; told of success, it
\* is committed; and the view it was prepared for is still the view.
CallerKept(n) ==
    LET c == caller[n].cmd
    IN  /\ caller[n].result # "pending" => Quiet(n)
        /\ caller[n].result = "pending" =>
            \/ queue[n] # <<>> /\ queue[n][Len(queue[n])] = c
            \/ queue[n] = <<>> /\ InWorker(n, c)
        /\ caller[n].result = "ok" =>
            /\ \E i \in 1..Committed : log[i].cmd.rev = c.rev
            /\ \A k \in c.writes : RevLeq(c.rev, Last[k].rev)
            /\ wterm[n] = c.rev[1] => ~failed[n]
        /\ InWorker(n, c) /\ worker[n].stage # "failed" /\ wterm[n] = c.rev[1] => ~failed[n]
        /\ caller[n].result # "error" /\ wterm[n] = c.rev[1] /\ ~failed[n] =>
            \A k \in Key : IF k \in c.writes THEN caller[n].preview[k].rev = c.rev
                           ELSE caller[n].preview[k] = view[n][k]

Callers == \A n \in Node : caller[n] # None => CallerKept(n)

\* A proposal that Raft took has a place in the log.
Placed == \A n \in Node : worker[n] # None /\ worker[n].stage = "wait" => worker[n].at >= 1

CommittedRev(r) == r = NoRev \/ \E i \in 1..Committed : log[i].cmd.rev = r

\* Views show committed security state, and the present leader's all that was
\* acknowledged.
Views ==
    \A n \in Node : \A k \in Secure :
        /\ CommittedRev(view[n][k].rev)
        /\ wterm[n] = Term /\ wterm[n] # 0 /\ ~failed[n] => RevLeq(ackedSec[k], view[n][k].rev)

Inv == Typed /\ Leaders /\ Issue /\ History /\ Callers /\ Placed /\ Views

-----------------------------------------------------------------------------
(* Revisions and frames *)

\* A revision is a pair of numbers.
LEMMA RevPair == ASSUME NEW r \in Rev PROVE r[1] \in Nat /\ r[2] \in Nat /\ r = <<r[1], r[2]>>
BY DEF Rev

\* Revisions are ordered.
LEMMA RevOrder ==
  /\ \A a \in Rev : RevLeq(a, a) /\ RevLeq(NoRev, a)
  /\ \A a, b, c \in Rev : RevLeq(a, b) /\ RevLeq(b, c) => RevLeq(a, c)
  /\ \A a, b, c \in Rev : RevLess(a, b) /\ RevLess(b, c) => RevLess(a, c)
<1>1. NoRev = <<0, 0>> /\ NoRev[1] = 0 /\ NoRev[2] = 0 BY DEF NoRev
<1>2. \A a \in Rev : RevLeq(a, a) /\ RevLeq(NoRev, a) BY <1>1, RevPair DEF RevLeq
<1>3. ASSUME NEW a \in Rev, NEW b \in Rev, NEW c \in Rev
      PROVE  /\ RevLeq(a, b) /\ RevLeq(b, c) => RevLeq(a, c)
             /\ RevLess(a, b) /\ RevLess(b, c) => RevLess(a, c)
  <2>1. {a[1], a[2], b[1], b[2], c[1], c[2]} \subseteq Nat BY RevPair
  <2> QED BY <2>1 DEF RevLeq, RevLess
<1> QED BY <1>2, <1>3

\* The parts of the typed state that the proofs need most.
LEMMA Types ==
  ASSUME Typed
  PROVE  /\ Term \in Nat /\ Committed \in Nat /\ Len(log) \in Nat /\ Len(hist) = Committed + 1
         /\ \A i \in 1..Len(log) : log[i] \in Entry /\ log[i].cmd \in Transaction
                                   /\ log[i].cmd.rev \in Rev /\ log[i].term \in Nat
         /\ \A j \in 1..Len(hist) : hist[j] \in States /\ \A k \in Key : hist[j][k].rev \in Rev
         /\ \A k \in Key : Last[k].rev \in Rev /\ ackedSec[k] \in Rev
         /\ \A n \in Node : \A c \in Transaction : c.rev \in Rev
         /\ \A n \in Node : worker[n] # None => worker[n] \in Proposal /\ worker[n].cmd \in Transaction
         /\ \A n \in Node : caller[n] # None => caller[n] \in Waiting /\ caller[n].cmd \in Transaction
         /\ \A n \in Node : queue[n] \in Seq(Transaction)
<1>1. Term \in Nat /\ Committed \in Nat /\ Len(log) \in Nat /\ Len(hist) = Committed + 1
  BY DEF Typed, Term, Committed
<1>2. \A i \in 1..Len(log) : log[i] \in Entry BY DEF Typed
<1>3. \A e \in Entry : e.cmd \in Transaction /\ e.term \in Nat BY DEF Entry
<1>4. \A c \in Transaction : c.rev \in Rev BY DEF Transaction
<1>5. \A j \in 1..Len(hist) : hist[j] \in States BY DEF Typed
<1>6. \A s \in States, k \in Key : s[k].rev \in Rev BY DEF States, Record
<1>7. Len(hist) \in 1..Len(hist) BY <1>1 DEF Typed
<1>8. \A n \in Node : worker[n] # None => worker[n] \in Proposal /\ worker[n].cmd \in Transaction
  BY DEF Typed, Proposal
<1>9. \A n \in Node : caller[n] # None => caller[n] \in Waiting /\ caller[n].cmd \in Transaction
  BY DEF Typed, Waiting
<1>10. \A k \in Key : Last[k].rev \in Rev /\ ackedSec[k] \in Rev BY <1>5, <1>6, <1>7 DEF Last, Typed
<1>11. \A n \in Node : queue[n] \in Seq(Transaction) BY DEF Typed
<1> QED BY <1>1, <1>2, <1>3, <1>4, <1>5, <1>6, <1>8, <1>9, <1>10, <1>11

\* The same of the next state.
LEMMA TypesNext ==
  ASSUME Typed'
  PROVE  /\ Term' \in Nat /\ Committed' \in Nat /\ Len(log') \in Nat /\ Len(hist') = Committed' + 1
         /\ \A k \in Key : Last'[k].rev \in Rev
<1>1. elections' \in Seq(Node) /\ log' \in Seq(Entry) /\ hist' \in Seq(States) /\ Len(hist') >= 1
  BY DEF Typed
<1>2. hist'[Len(hist')] \in States BY <1>1
<1>3. \A s \in States, k \in Key : s[k].rev \in Rev BY DEF States, Record
<1>4. Len(elections') \in Nat /\ Len(log') \in Nat /\ Len(hist') \in Nat BY <1>1
<1> QED BY <1>1, <1>2, <1>3, <1>4 DEF Last, Term, Committed

\* What is used stays used while nobody restarts its term.
LEMMA UsedStays ==
  ASSUME NEW r \in Rev, Used(r), Term \in Nat, Term' \in Nat, Term' >= Term,
         seq \in [Node -> Nat], seq' \in [Node -> Nat],
         \A n \in Node : believes'[n] = r[1] =>
             believes[n] = r[1] /\ (wterm[n] = r[1] => wterm'[n] = r[1] /\ seq'[n] >= seq[n])
  PROVE  Used(r)'
<1>1. r[1] \in Nat /\ r[2] \in Nat BY RevPair
<1>2. r[1] # 0 /\ r[1] <= Term' BY <1>1 DEF Used
<1>3. ASSUME NEW n \in Node, believes'[n] = r[1] PROVE wterm'[n] = r[1] /\ r[2] <= seq'[n]
  <2>1. seq[n] \in Nat /\ seq'[n] \in Nat OBVIOUS
  <2>2. wterm[n] = r[1] /\ r[2] <= seq[n] BY <1>3 DEF Used
  <2> QED BY <1>1, <1>3, <2>1, <2>2
<1> QED BY <1>2, <1>3 DEF Used

\* A step that issues and proposes nothing.
LEMMA IssueKept ==
  ASSUME Inv, Typed', \A r \in Rev : Used(r) => Used(r)', Term' >= Term,
         \A t \in 1..Term : elections'[t] = elections[t],
         Len(log') <= Len(log), \A i \in 1..Len(log') : log'[i] = log[i],
         \A n \in Node : \A c \in Transaction :
             /\ (InQueue(n, c) \/ InWorker(n, c))' => InQueue(n, c) \/ InWorker(n, c)
             /\ Unsent(n, c)' => Unsent(n, c),
         QueueOrdered'
  PROVE  Issue'
<1>1. Typed /\ Issue BY DEF Inv
<1>2. Term \in Nat /\ Term' \in Nat /\ Len(log) \in Nat /\ Len(log') \in Nat
  BY <1>1, Types, TypesNext
<1>3. \A i \in 1..Len(log') : i \in 1..Len(log) /\ log[i].cmd.rev \in Rev /\ log[i].term \in Nat
  BY <1>1, <1>2, Types
<1>4. LogUsed' BY <1>1, <1>2, <1>3 DEF Issue, LogUsed
<1>5. PipelineUsed'
  <2> SUFFICES ASSUME NEW n \in Node, NEW c \in Transaction, (InQueue(n, c) \/ InWorker(n, c))'
               PROVE  Used(c.rev)' /\ elections'[c.rev[1]] = n
    BY DEF PipelineUsed
  <2>1. Used(c.rev) /\ elections[c.rev[1]] = n BY <1>1 DEF Issue, PipelineUsed
  <2>2. c.rev \in Rev BY DEF Transaction
  <2>3. c.rev[1] \in 1..Term BY <1>2, <2>1, <2>2, RevPair DEF Used
  <2> QED BY <2>1, <2>2, <2>3
<1>6. UnsentLater' BY <1>1, <1>3 DEF Issue, UnsentLater
<1>7. LogOrdered' BY <1>1, <1>3 DEF Issue, LogOrdered
<1> QED BY <1>4, <1>5, <1>6, <1>7 DEF Issue

\* The pipeline is left alone.
LEMMA PipelineSame ==
  ASSUME Inv, UNCHANGED <<queue, worker>>
  PROVE  /\ \A n \in Node : \A c \in Transaction :
             /\ (InQueue(n, c) \/ InWorker(n, c))' => InQueue(n, c) \/ InWorker(n, c)
             /\ Unsent(n, c)' => Unsent(n, c)
         /\ QueueOrdered'
BY DEF Inv, Issue, QueueOrdered, InQueue, InWorker, Unsent

\* The committed part of the log and what it amounts to only grow.
Grow ==
    /\ Committed <= Committed'
    /\ \A i \in 1..Committed : log'[i] = log[i]
    /\ \A k \in Key : RevLeq(Last[k].rev, Last'[k].rev)

\* Where the committed states stay.
LEMMA HistoryKept ==
  ASSUME Inv, UNCHANGED <<hist, ackedSec>>, \A i \in 1..Committed : log'[i] = log[i]
  PROVE  History' /\ Grow
<1>1. Typed /\ History BY DEF Inv
<1>2. Committed' = Committed /\ Committed \in Nat /\ Len(hist) = Committed + 1
      /\ Last' = Last
  BY <1>1, Types DEF Committed, Last
<1>3. ASSUME NEW j \in 1..Len(hist), NEW r, ValidIn(r, j - 1) PROVE ValidIn(r, j - 1)'
  BY <1>2, <1>3 DEF ValidIn
<1>4. History' BY <1>1, <1>2, <1>3 DEF History
<1>5. Grow BY <1>1, <1>2, Types, RevOrder DEF Grow
<1> QED BY <1>4, <1>5

\* Nothing concerns the waiting caller of n.
LEMMA CallerFrame ==
  ASSUME Inv, Typed', Grow, NEW n \in Node,
         caller'[n] = caller[n], queue'[n] = queue[n], worker'[n] = worker[n],
         wterm'[n] = wterm[n], failed'[n] = failed[n], view'[n] = view[n]
  PROVE  caller'[n] # None => CallerKept(n)'
<1> SUFFICES ASSUME caller[n] # None PROVE CallerKept(n)' OBVIOUS
<1> DEFINE c == caller[n].cmd
<1>1. Typed /\ CallerKept(n) BY DEF Inv, Callers
<1>2. Committed \in Nat /\ Committed' \in Nat /\ c \in Transaction /\ c.rev \in Rev
  BY <1>1, Types, TypesNext
<1>3. c.writes \subseteq Key BY <1>2 DEF Transaction
<1>4. \A k \in Key : Last[k].rev \in Rev /\ Last'[k].rev \in Rev BY <1>1, Types, TypesNext
<1>5. ASSUME \E i \in 1..Committed : log[i].cmd.rev = c.rev
      PROVE  \E i \in 1..Committed' : log'[i].cmd.rev = c.rev
  <2>1. PICK i \in 1..Committed : log[i].cmd.rev = c.rev BY <1>5
  <2> QED BY <1>2, <2>1 DEF Grow
<1>6. ASSUME \A k \in c.writes : RevLeq(c.rev, Last[k].rev)
      PROVE  \A k \in c.writes : RevLeq(c.rev, Last'[k].rev)
  BY <1>2, <1>3, <1>4, <1>6, RevOrder DEF Grow
<1> QED BY <1>1, <1>5, <1>6 DEF CallerKept, Quiet, InWorker

\* Nothing concerns the view of n.
LEMMA ViewFrame ==
  ASSUME Inv, Typed', Grow, NEW n \in Node, NEW k \in Secure,
         view'[n] = view[n] \/ view'[n][k] = view[n][k],
         wterm'[n] = Term' /\ wterm'[n] # 0 /\ ~failed'[n] =>
            /\ wterm[n] = Term /\ wterm[n] # 0 /\ ~failed[n]
            /\ ackedSec'[k] = ackedSec[k]
  PROVE  /\ CommittedRev(view[n][k].rev)'
         /\ wterm'[n] = Term' /\ wterm'[n] # 0 /\ ~failed'[n] => RevLeq(ackedSec'[k], view'[n][k].rev)
<1>1. Typed /\ Views BY DEF Inv
<1>2. Committed \in Nat /\ Committed' \in Nat BY <1>1, Types, TypesNext
<1>3. CommittedRev(view[n][k].rev) BY <1>1 DEF Views
<1>4. view'[n][k] = view[n][k] OBVIOUS
<1>5. CommittedRev(view[n][k].rev)'
  <2>1. CASE view[n][k].rev = NoRev BY <1>4, <2>1 DEF CommittedRev
  <2>2. CASE view[n][k].rev # NoRev
    <3>1. PICK i \in 1..Committed : log[i].cmd.rev = view[n][k].rev BY <1>3, <2>2 DEF CommittedRev
    <3>2. i \in 1..Committed' /\ log'[i].cmd.rev = view'[n][k].rev BY <1>2, <1>4, <3>1 DEF Grow
    <3> QED BY <3>2 DEF CommittedRev
  <2> QED BY <2>1, <2>2
<1> QED BY <1>1, <1>4, <1>5 DEF Views

-----------------------------------------------------------------------------
(* Raft and the authority window *)

\* A step of terms and windows only.
LEMMA CalmStep ==
  ASSUME Inv, Typed', Leaders',
         UNCHANGED <<elections, log, hist, view, wterm, failed, queue, worker, caller, ackedSec>>,
         \A n \in Node : believes'[n] = believes[n] \/ believes'[n] = 0,
         \A n \in Node : seq'[n] >= seq[n]
  PROVE  Inv'
<1>1. Typed /\ Term \in Nat /\ Term' = Term BY Types DEF Inv, Term
<1>2. ASSUME NEW r \in Rev, Used(r) PROVE Used(r)'
  <2>1. r[1] # 0 /\ seq \in [Node -> Nat] /\ seq' \in [Node -> Nat] BY <1>1, <1>2 DEF Used, Typed
  <2> QED BY <1>1, <1>2, <2>1, UsedStays
<1>3. Issue' BY <1>1, <1>2, IssueKept, PipelineSame
<1>4. History' /\ Grow BY HistoryKept
<1>5. Callers' BY <1>4, CallerFrame DEF Callers
<1>6. Views' BY <1>1, <1>4, ViewFrame DEF Views
<1>7. Placed' BY DEF Inv, Placed
<1> QED BY <1>3, <1>4, <1>5, <1>6, <1>7 DEF Inv

\* Leadership is lost, an entry is applied, a voter joins, the window opens or
\* closes, or nothing happens.
LEMMA CalmActions ==
  ASSUME Inv, NEW n \in Node,
         \/ StepDown(n) \/ FsmApply(n) \/ VoterJoins \/ RenewLease(n) \/ LeaseExpires(n)
         \/ UNCHANGED vars
  PROVE  Inv'
<1>1. Typed /\ Leaders /\ Term \in Nat BY Types DEF Inv
<1>2. CASE StepDown(n)
  <2>1. Typed' BY <1>1, <1>2 DEF StepDown, writerVars, Typed, Committed
  <2>2. Leaders' BY <1>1, <1>2 DEF StepDown, writerVars, Typed, Leaders, Authoritative, Term
  <2>3. /\ UNCHANGED <<elections, log, hist, view, wterm, seq, failed, queue, worker, caller, ackedSec>>
        /\ believes' = [believes EXCEPT ![n] = 0]
    BY <1>1, <1>2 DEF StepDown, writerVars, Typed
  <2>4. \A m \in Node : believes'[m] = believes[m] \/ believes'[m] = 0 BY <1>1, <2>3 DEF Typed
  <2>5. \A m \in Node : seq'[m] >= seq[m] BY <1>1, <2>3 DEF Typed
  <2> QED BY <2>1, <2>2, <2>3, <2>4, <2>5, CalmStep
<1>3. CASE FsmApply(n)
  <2>1. Typed'
    <3>1. Committed \in Nat /\ Committed' = Committed /\ applied[n] + 1 <= Committed
      BY <1>1, <1>3, Types DEF FsmApply, Committed, Typed
    <3>2. applied' \in [Node -> Nat] /\ \A m \in Node : applied'[m] <= Committed'
      BY <1>1, <1>3, <3>1 DEF FsmApply, Typed
    <3> QED BY <1>1, <1>3, <3>1, <3>2 DEF FsmApply, writerVars, Typed
  <2>2. Leaders' BY <1>1, <1>3 DEF FsmApply, writerVars, Leaders, Authoritative, Term
  <2>3. UNCHANGED <<elections, log, hist, believes, view, wterm, seq, failed, queue, worker, caller, ackedSec>>
    BY <1>3 DEF FsmApply, writerVars
  <2>4. \A m \in Node : believes'[m] = believes[m] /\ seq'[m] >= seq[m] BY <1>1, <2>3 DEF Typed
  <2> QED BY <2>1, <2>2, <2>3, <2>4, CalmStep
<1>4. CASE VoterJoins
  <2>1. Typed' BY <1>1, <1>4 DEF VoterJoins, writerVars, Typed, Committed
  <2>2. Leaders' BY <1>1, <1>4 DEF VoterJoins, writerVars, Leaders, Authoritative, Term
  <2>3. UNCHANGED <<elections, log, hist, believes, view, wterm, seq, failed, queue, worker, caller, ackedSec>>
    BY <1>4 DEF VoterJoins, writerVars
  <2>4. \A m \in Node : believes'[m] = believes[m] /\ seq'[m] >= seq[m] BY <1>1, <2>3 DEF Typed
  <2> QED BY <2>1, <2>2, <2>3, <2>4, CalmStep
<1>5. CASE RenewLease(n)
  <2>1. Typed' BY <1>1, <1>5 DEF RenewLease, raftVars, Typed, Committed
  <2>2. Leaders' BY <1>1, <1>5 DEF RenewLease, raftVars, Leaders, Authoritative, Term, Typed
  <2>3. UNCHANGED <<elections, log, hist, believes, view, wterm, seq, failed, queue, worker, caller, ackedSec>>
    BY <1>5 DEF RenewLease, raftVars
  <2>4. \A m \in Node : believes'[m] = believes[m] /\ seq'[m] >= seq[m] BY <1>1, <2>3 DEF Typed
  <2> QED BY <2>1, <2>2, <2>3, <2>4, CalmStep
<1>6. CASE LeaseExpires(n)
  <2>1. Typed' BY <1>1, <1>6 DEF LeaseExpires, raftVars, Typed, Committed
  <2>2. Leaders' BY <1>1, <1>6 DEF LeaseExpires, raftVars, Leaders, Authoritative, Term, Typed
  <2>3. UNCHANGED <<elections, log, hist, believes, view, wterm, seq, failed, queue, worker, caller, ackedSec>>
    BY <1>6 DEF LeaseExpires, raftVars
  <2>4. \A m \in Node : believes'[m] = believes[m] /\ seq'[m] >= seq[m] BY <1>1, <2>3 DEF Typed
  <2> QED BY <2>1, <2>2, <2>3, <2>4, CalmStep
<1>7. CASE UNCHANGED vars
  <2>1. Typed' BY <1>1, <1>7 DEF vars, Typed, Committed
  <2>2. Leaders' BY <1>1, <1>7 DEF vars, Leaders, Authoritative, Term
  <2>3. UNCHANGED <<elections, log, hist, believes, view, wterm, seq, failed, queue, worker, caller, ackedSec>>
    BY <1>7 DEF vars
  <2>4. \A m \in Node : believes'[m] = believes[m] /\ seq'[m] >= seq[m] BY <1>1, <2>3 DEF Typed
  <2> QED BY <2>1, <2>2, <2>3, <2>4, CalmStep
<1> QED BY <1>2, <1>3, <1>4, <1>5, <1>6, <1>7

\* A new term has a new leader.
LEMMA ElectionLeaders ==
  ASSUME Typed, Leaders, NEW m \in Node, Term \in Nat, Term' = Term + 1,
         \A t \in 1..Term : elections'[t] = elections[t], elections'[Term + 1] = m,
         believes' = [believes EXCEPT ![m] = Term + 1], UNCHANGED <<wterm, failed, leaseTerm>>,
         \A n \in Node \ {m} : Authoritative(n) => failed[n]
  PROVE  Leaders'
<1> SUFFICES ASSUME NEW n \in Node
             PROVE  /\ believes'[n] # 0 => believes'[n] <= Term' /\ elections'[believes'[n]] = n
                    /\ wterm'[n] # 0 => wterm'[n] <= Term' /\ elections'[wterm'[n]] = n
                    /\ Authoritative(n)' /\ ~failed'[n] => believes'[n] = Term'
  BY DEF Leaders
<1>1. wterm[n] \in Nat /\ believes[n] \in Nat BY DEF Typed
<1>2. wterm'[n] # 0 => wterm'[n] <= Term' /\ elections'[wterm'[n]] = n
  <2>1. wterm[n] # 0 => wterm[n] \in 1..Term /\ elections[wterm[n]] = n BY <1>1 DEF Leaders
  <2> QED BY <1>1, <2>1
<1>3. CASE n = m
  <2>1. believes'[n] = Term + 1 BY <1>3 DEF Typed
  <2> QED BY <1>2, <1>3, <2>1
<1>4. CASE n # m
  <2>1. believes'[n] = believes[n] BY <1>4 DEF Typed
  <2>2. Authoritative(n)' => Authoritative(n) BY <2>1 DEF Authoritative
  <2>3. believes[n] # 0 => believes[n] \in 1..Term /\ elections[believes[n]] = n BY <1>1 DEF Leaders
  <2>4. believes'[n] # 0 => believes'[n] <= Term' /\ elections'[believes'[n]] = n BY <1>1, <2>1, <2>3
  <2> QED BY <1>2, <1>4, <2>2, <2>4
<1> QED BY <1>3, <1>4

\* m is elected; entries that are not committed may be lost.
LEMMA ElectionStep ==
  ASSUME Inv, NEW m \in Node, NEW k \in Nat, Committed <= k, k <= Len(log),
         log' = SubSeq(log, 1, k),
         elections' = Append(elections, m), believes' = [believes EXCEPT ![m] = Term + 1],
         \A n \in Node \ {m} : Authoritative(n) => failed[n],
         UNCHANGED <<hist, applied, voters, writerVars, ackedSec>>
  PROVE  Inv'
<1>1. Typed /\ Leaders /\ Term \in Nat /\ Len(log) \in Nat BY Types DEF Inv
<1>2. Term' = Term + 1 /\ (\A t \in 1..Term : elections'[t] = elections[t])
      /\ elections'[Term + 1] = m /\ elections' \in Seq(Node)
  BY <1>1 DEF Typed, Term
<1>3. log' \in Seq(Entry) /\ Len(log') = k /\ \A i \in 1..k : log'[i] = log[i]
  BY <1>1 DEF Typed
<1>4. Typed'
  <2>1. UNCHANGED <<hist, applied, view, wterm, seq, leaseTerm, failed, queue, worker, caller, ackedSec>>
    BY DEF writerVars
  <2>2. believes' \in [Node -> Nat] BY <1>1 DEF Typed
  <2>3. Committed' = Committed BY <2>1 DEF Committed
  <2> QED BY <1>1, <1>2, <1>3, <2>1, <2>2, <2>3 DEF Typed
<1>5. Leaders'
  <2>1. UNCHANGED <<wterm, failed, leaseTerm>> BY DEF writerVars
  <2> QED BY <1>1, <1>2, <2>1, ElectionLeaders
<1>6. ASSUME NEW r \in Rev, Used(r) PROVE Used(r)'
  <2>1. r[1] \in Nat /\ r[1] <= Term /\ Term' >= Term /\ Term' \in Nat BY <1>1, <1>2, <1>6, RevPair DEF Used
  <2>2. seq' = seq /\ wterm' = wterm /\ seq \in [Node -> Nat] BY <1>1 DEF writerVars, Typed
  <2>3. ASSUME NEW n \in Node, believes'[n] = r[1] PROVE believes[n] = r[1]
    <3>1. r[1] # Term + 1 BY <1>1, <2>1
    <3>2. believes'[n] = IF n = m THEN Term + 1 ELSE believes[n] BY <1>1 DEF Typed
    <3> QED BY <2>3, <3>1, <3>2
  <2>4. \A n \in Node : seq'[n] >= seq[n] BY <2>2
  <2> QED BY <1>1, <1>6, <2>1, <2>2, <2>3, <2>4, UsedStays
<1>7. Issue'
  <2>1. UNCHANGED <<queue, worker>> BY DEF writerVars
  <2>2. Term' >= Term /\ Len(log') <= Len(log) /\ \A i \in 1..Len(log') : log'[i] = log[i]
    BY <1>1, <1>2, <1>3
  <2>3. /\ QueueOrdered'
        /\ \A n \in Node : \A c \in Transaction :
             /\ (InQueue(n, c) \/ InWorker(n, c))' => InQueue(n, c) \/ InWorker(n, c)
             /\ Unsent(n, c)' => Unsent(n, c)
    BY <2>1, PipelineSame
  <2> QED BY <1>2, <1>4, <1>6, <2>2, <2>3, IssueKept
<1>8. History' /\ Grow BY <1>1, <1>3, Types, HistoryKept
<1>9. Callers'
  <2>1. UNCHANGED <<caller, queue, worker, wterm, failed, view>> BY DEF writerVars
  <2> QED BY <1>4, <1>8, <2>1, CallerFrame DEF Callers
<1>10. Views'
  <2>1. UNCHANGED <<wterm, failed, view>> BY DEF writerVars
  <2>2. \A n \in Node : wterm'[n] # Term'
    <3> SUFFICES ASSUME NEW n \in Node PROVE wterm[n] # Term + 1 BY <1>2, <2>1
    <3>1. wterm[n] \in Nat BY <1>1 DEF Typed
    <3> QED BY <1>1, <3>1 DEF Leaders
  <2> QED BY <1>4, <1>8, <2>1, <2>2, ViewFrame DEF Views
<1>11. Placed' BY DEF Inv, Placed, writerVars
<1> QED BY <1>4, <1>5, <1>7, <1>8, <1>9, <1>10, <1>11 DEF Inv

\* A follower is elected.
LEMMA ElectInv == ASSUME Inv, NEW n \in Node, Elect(n) PROVE Inv'
<1>1. PICK k \in Committed..Len(log) : log' = SubSeq(log, 1, k) BY DEF Elect
<1>2. k \in Nat /\ Committed <= k /\ k <= Len(log) BY <1>1, Types DEF Inv
<1> QED BY <1>1, <1>2, ElectionStep DEF Elect

\* A failed leader hands over, or steps down at the bound.
LEMMA TransferInv == ASSUME Inv, NEW n \in Node, TransferLeadership(n) PROVE Inv'
<1>1. Typed /\ Leaders /\ Len(log) \in Nat /\ Committed \in Nat /\ Committed <= Len(log)
  BY Types DEF Inv, Typed
<1>2. failed[n] /\ believes[n] # 0 /\ believes[n] = Term /\ UNCHANGED <<log, hist, applied, voters, writerVars, ackedSec>>
  BY DEF TransferLeadership
<1>3. CASE /\ Term = MaxTerm /\ believes' = [believes EXCEPT ![n] = 0] /\ UNCHANGED elections
  <2>1. StepDown(n) BY <1>2, <1>3 DEF StepDown
  <2> QED BY <2>1, CalmActions
<1>4. CASE \E m \in Node \ {n} : /\ believes[m] = 0 /\ elections' = Append(elections, m)
                                 /\ believes' = [believes EXCEPT ![m] = Term + 1]
  <2>1. PICK m \in Node \ {n} : /\ elections' = Append(elections, m)
                                /\ believes' = [believes EXCEPT ![m] = Term + 1]
    BY <1>4
  <2>2. log' = SubSeq(log, 1, Len(log)) BY <1>1, <1>2 DEF Typed
  <2>3. ASSUME NEW p \in Node \ {m}, Authoritative(p), ~failed[p] PROVE FALSE
    <3>1. believes[p] = Term /\ believes[p] # 0 BY <1>1, <2>3 DEF Leaders, Authoritative
    <3>2. p = n BY <1>1, <1>2, <3>1 DEF Leaders
    <3> QED BY <1>2, <2>3, <3>2
  <2>4. \A p \in Node \ {m} : Authoritative(p) => failed[p] BY <2>3
  <2>5. PICK k \in Nat : Committed <= k /\ k <= Len(log) /\ log' = SubSeq(log, 1, k)
    BY <1>1, <2>2
  <2>6. m \in Node /\ UNCHANGED <<hist, applied, voters, writerVars, ackedSec>> BY <1>2
  <2> QED BY <2>1, <2>4, <2>5, <2>6, ElectionStep
<1> QED BY <1>3, <1>4 DEF TransferLeadership

\* Terms, log and pipeline stay.
LEMMA IssueSame ==
  ASSUME Inv, UNCHANGED <<elections, log, believes, wterm, seq, queue, worker>>
  PROVE  Issue' /\ Placed'
<1>1. \A r : Used(r)' <=> Used(r) BY DEF Used, Term
<1>3. LogUsed' BY <1>1 DEF Inv, Issue, LogUsed, Term
<1>4. PipelineUsed'
  <2> SUFFICES ASSUME NEW n \in Node, NEW c \in Transaction, InQueue(n, c)' \/ InWorker(n, c)'
               PROVE  Used(c.rev)' /\ elections'[c.rev[1]] = n
    BY DEF PipelineUsed
  <2>1. InQueue(n, c) \/ InWorker(n, c) BY DEF InQueue, InWorker
  <2>2. Used(c.rev) /\ elections[c.rev[1]] = n BY <2>1 DEF Inv, Issue, PipelineUsed
  <2> QED BY <2>2, <1>1
<1>5. UnsentLater'
  <2> SUFFICES ASSUME NEW n \in Node, NEW c \in Transaction, Unsent(n, c)', NEW i \in 1..Len(log)
               PROVE  log[i].cmd.rev[1] = c.rev[1] => log[i].cmd.rev[2] < c.rev[2]
    BY DEF UnsentLater
  <2>1. Unsent(n, c) BY DEF Unsent, InQueue, InWorker
  <2> QED BY <2>1 DEF Inv, Issue, UnsentLater
<1>6. QueueOrdered' BY DEF Inv, Issue, QueueOrdered
<1>7. LogOrdered' BY DEF Inv, Issue, LogOrdered
<1>8. Placed' BY DEF Inv, Placed
<1> QED BY <1>3, <1>4, <1>5, <1>6, <1>7, <1>8 DEF Issue

\* A transaction leaves a state.
LEMMA InstallTyped ==
  ASSUME NEW s \in States, NEW c \in Transaction
  PROVE  /\ Install(s, c) \in States
         /\ \A k \in Key : k \in c.writes => Install(s, c)[k].rev = c.rev
         /\ \A k \in Key : k \notin c.writes => Install(s, c)[k] = s[k]
<1>1. c.rev \in Rev BY DEF Transaction
<1>2. \A k \in Key : s[k] \in Record BY DEF States
<1>3. \A k \in Key : [rev |-> c.rev, live |-> k \notin c.dels] \in Record BY <1>1 DEF Record
<1> QED BY <1>2, <1>3 DEF Install, States

\* The next entry is committed: what it writes is newer than what was there.
LEMMA CommitInv == ASSUME Inv, RaftCommit PROVE Inv'
<1> DEFINE m == Committed + 1
           e == log[m]
           new == Apply(Last, e.cmd, e.term)
<1>1. /\ Typed /\ History /\ LogOrdered /\ Committed \in Nat /\ Len(log) \in Nat
      /\ Len(hist) = Committed + 1 /\ m \in 1..Len(log)
  BY Types DEF Inv, Issue, RaftCommit
<1>2. /\ e \in Entry /\ e.cmd \in Transaction /\ e.cmd.rev \in Rev /\ e.term \in Nat
      /\ Last \in States /\ \A k \in Key : Last[k].rev \in Rev /\ ackedSec[k] \in Rev
  BY <1>1, Types DEF Last
<1>3. hist' = Append(hist, new) /\ UNCHANGED <<elections, log, applied, believes, voters, writerVars, ackedSec>>
  BY DEF RaftCommit, Last
<1>4. new \in States BY <1>2, InstallTyped DEF Apply
<1>5. ASSUME NEW k \in Key
      PROVE  /\ new[k].rev = Last[k].rev \/ (new[k].rev = e.cmd.rev /\ e.term = e.cmd.rev[1])
             /\ RevLeq(Last[k].rev, new[k].rev)
  <2>1. CASE Accepts(Last, e.cmd, e.term) /\ k \in e.cmd.writes
    <3>1. new[k].rev = e.cmd.rev /\ e.term = e.cmd.rev[1] BY <1>2, <2>1, InstallTyped DEF Apply, Accepts
    <3>2. CASE Last[k].rev = NoRev BY <1>2, <3>1, <3>2, RevOrder
    <3>3. CASE Last[k].rev # NoRev
      <4>1. ValidIn(Last[k].rev, Len(hist) - 1) BY <1>1, <3>3 DEF History, Last
      <4>2. PICK i \in 1..Committed : log[i].cmd.rev = Last[k].rev /\ log[i].term = Last[k].rev[1]
        BY <1>1, <4>1 DEF ValidIn
      <4>3. i \in 1..Len(log) /\ i < m BY <1>1, <4>2
      <4>4. log[i].term <= e.term
            /\ (log[i].cmd.rev[1] = e.cmd.rev[1] => log[i].cmd.rev[2] < e.cmd.rev[2])
        BY <1>1, <4>3 DEF LogOrdered
      <4>5. {Last[k].rev[1], Last[k].rev[2], e.cmd.rev[1], e.cmd.rev[2]} \subseteq Nat
        BY <1>2, RevPair
      <4> HIDE DEF e
      <4> QED BY <3>1, <4>2, <4>4, <4>5 DEF RevLeq
    <3> QED BY <3>1, <3>2, <3>3
  <2>2. CASE ~(Accepts(Last, e.cmd, e.term) /\ k \in e.cmd.writes)
    <3>1. new[k] = Last[k] BY <1>2, <2>2, InstallTyped DEF Apply
    <3> QED BY <1>2, <3>1, RevOrder
  <2> QED BY <2>1, <2>2
<1>6. new = Apply(hist[Len(hist)], log[m].cmd, log[m].term) BY DEF Last
<1> HIDE DEF new
<1>7. /\ Len(hist') = Len(hist) + 1 /\ hist' \in Seq(States) /\ hist'[Len(hist) + 1] = new
      /\ \A j \in 1..Len(hist) : hist'[j] = hist[j]
  BY <1>1, <1>3, <1>4 DEF Typed
<1>8. Last' = new /\ Committed' = Committed + 1 BY <1>1, <1>7 DEF Last, Committed
<1>9. Typed'
  <2>1. UNCHANGED <<elections, log, applied, believes, view, wterm, seq, leaseTerm, failed, queue,
                    worker, caller, ackedSec>>
    BY <1>3 DEF writerVars
  <2>2. Len(hist') >= 1 /\ Committed' <= Len(log') BY <1>1, <1>7, <1>8, <2>1
  <2>3. \A n \in Node : applied'[n] <= Committed' BY <1>1, <1>8, <2>1 DEF Typed
  <2> QED BY <1>1, <1>7, <2>1, <2>2, <2>3 DEF Typed
<1>10. Grow BY <1>1, <1>3, <1>5, <1>8 DEF Grow
<1>11. History'
  <2>1. ASSUME NEW i \in 1..Committed' PROVE hist'[i + 1] = Apply(hist'[i], log'[i].cmd, log'[i].term)
    <3>1. CASE i = m BY <1>1, <1>3, <1>6, <1>7, <3>1
    <3>2. CASE i # m
      <4>1. i \in 1..Committed /\ i \in 1..Len(hist) /\ i + 1 \in 1..Len(hist) BY <1>1, <1>8, <2>1, <3>2
      <4>2. hist[i + 1] = Apply(hist[i], log[i].cmd, log[i].term) BY <1>1, <4>1 DEF History
      <4> QED BY <1>3, <1>7, <4>1, <4>2
    <3> QED BY <3>1, <3>2
  <2>2. ASSUME NEW j \in 1..Len(hist'), NEW k \in Key
        PROVE  /\ hist'[j][k].rev = NoRev \/ ValidIn(hist[j][k].rev, j - 1)'
               /\ RevLeq(hist'[j][k].rev, Last'[k].rev)
    <3>1. CASE j = Len(hist) + 1
      <4>1. hist'[j] = new /\ j - 1 = m BY <1>1, <1>7, <3>1
      <4>2. RevLeq(hist'[j][k].rev, Last'[k].rev)
        <5>1. new[k].rev \in Rev BY <1>4 DEF States, Record
        <5> QED BY <1>8, <4>1, <5>1, RevOrder
      <4>3. hist'[j][k].rev = NoRev \/ ValidIn(hist[j][k].rev, j - 1)'
        <5>1. CASE new[k].rev = e.cmd.rev /\ e.term = e.cmd.rev[1]
          <6>1. log'[m].cmd.rev = hist'[j][k].rev /\ log'[m].term = hist'[j][k].rev[1]
            BY <1>3, <4>1, <5>1
          <6>2. m \in 1..(j - 1) BY <1>1, <4>1
          <6> QED BY <6>1, <6>2 DEF ValidIn
        <5>2. CASE new[k].rev = Last[k].rev
          <6>1. Last[k].rev = NoRev \/ ValidIn(Last[k].rev, Committed) BY <1>1 DEF History, Last
          <6>2. CASE Last[k].rev = NoRev BY <4>1, <5>2, <6>2
          <6>3. CASE ValidIn(Last[k].rev, Committed)
            <7>1. PICK i \in 1..Committed : log[i].cmd.rev = Last[k].rev /\ log[i].term = Last[k].rev[1]
              BY <6>3 DEF ValidIn
            <7>2. i \in 1..(j - 1) /\ log'[i].cmd.rev = hist'[j][k].rev
                  /\ log'[i].term = hist'[j][k].rev[1]
              BY <1>1, <1>3, <4>1, <5>2, <7>1
            <7> QED BY <7>2 DEF ValidIn
          <6> QED BY <6>1, <6>2, <6>3
        <5> QED BY <1>5, <5>1, <5>2
      <4> QED BY <4>2, <4>3
    <3>2. CASE j # Len(hist) + 1
      <4>1. j \in 1..Len(hist) /\ hist'[j] = hist[j] BY <1>1, <1>7, <3>2
      <4>2. hist[j][k].rev = NoRev \/ ValidIn(hist[j][k].rev, j - 1) BY <1>1, <4>1 DEF History
      <4>3. RevLeq(hist[j][k].rev, Last[k].rev) BY <1>1, <4>1 DEF History
      <4>4. hist[j][k].rev \in Rev /\ new[k].rev \in Rev BY <1>1, <1>4, <4>1, Types DEF States, Record
      <4>5. RevLeq(hist'[j][k].rev, Last'[k].rev) BY <1>2, <1>5, <1>8, <4>1, <4>3, <4>4, RevOrder
      <4>6. ValidIn(hist[j][k].rev, j - 1) => ValidIn(hist[j][k].rev, j - 1)' BY <1>3, <4>1 DEF ValidIn
      <4> QED BY <4>1, <4>2, <4>5, <4>6
    <3> QED BY <3>1, <3>2
  <2>3. ASSUME NEW k \in Key PROVE RevLeq(ackedSec'[k], Last'[k].rev)
    <3>1. RevLeq(ackedSec[k], Last[k].rev) BY <1>1 DEF History
    <3>2. new[k].rev \in Rev BY <1>4 DEF States, Record
    <3> QED BY <1>2, <1>3, <1>5, <1>8, <3>1, <3>2, RevOrder
  <2> QED BY <2>1, <2>2, <2>3 DEF History
<1>12. UNCHANGED <<elections, log, believes, wterm, seq, leaseTerm, failed, queue, worker, caller, view, ackedSec>>
  BY <1>3 DEF writerVars
<1>13. Issue' /\ Placed' BY <1>12, IssueSame
<1>14. Leaders' BY <1>12 DEF Inv, Leaders, Authoritative, Term
<1>15. Callers' BY <1>9, <1>10, <1>12, CallerFrame DEF Callers
<1>16. Views' 
  <2>1. Term' = Term BY <1>12 DEF Term
  <2>2. Secure \subseteq Key BY KeysAssumption
  <2> QED BY <1>9, <1>10, <1>12, <2>1, <2>2, ViewFrame DEF Views
<1> QED BY <1>9, <1>11, <1>13, <1>14, <1>15, <1>16 DEF Inv

-----------------------------------------------------------------------------
(* ensure and restart *)

\* What the state machine has committed of a key was written by a committed entry.
LEMMA LastCommitted == ASSUME Inv, NEW k \in Key PROVE CommittedRev(Last[k].rev)
<1>1. Len(hist) = Committed + 1 /\ Committed \in Nat /\ History BY Types DEF Inv
<1>2. Last[k].rev = NoRev \/ ValidIn(Last[k].rev, Committed) BY <1>1 DEF History, Last
<1> QED BY <1>2 DEF CommittedRev, ValidIn

\* The view is rebuilt from everything that is committed.
LEMMA EnsureInv == ASSUME Inv, NEW n \in Node, Ensure(n) PROVE Inv'
<1>1. Typed /\ Leaders /\ Term \in Nat /\ Term' = Term /\ Committed \in Nat /\ Len(hist) = Committed + 1
  BY Types DEF Inv, Ensure, raftVars, Term
<1>2. /\ believes[n] = Term /\ Term # 0 /\ (wterm[n] # Term \/ failed[n])
      /\ Outstanding(n) = 0 /\ applied[n] = Len(log) /\ Committed = Len(log)
  BY DEF Ensure, NeedsBaseline, BaselineReady
<1>3. /\ leaseTerm' = [leaseTerm EXCEPT ![n] = Term] /\ view' = [view EXCEPT ![n] = Last]
      /\ seq' = [seq EXCEPT ![n] = FirstSequence(n)] /\ wterm' = [wterm EXCEPT ![n] = Term]
      /\ failed' = [failed EXCEPT ![n] = FALSE]
      /\ UNCHANGED <<elections, log, hist, applied, believes, queue, worker, caller, ackedSec>>
  BY <1>1, <1>2 DEF Ensure, raftVars, Last
<1>4. Quiet(n)
  <2>1. queue[n] \in Seq(Transaction) BY <1>1, Types
  <2>2. Len(queue[n]) \in Nat BY <2>1
  <2>3. Len(queue[n]) = 0 /\ worker[n] = None
    <3>1. CASE worker[n] = None BY <1>2, <2>2, <3>1 DEF Outstanding
    <3>2. CASE worker[n] # None
      <4>1. Outstanding(n) = Len(queue[n]) + 1 BY <3>2 DEF Outstanding
      <4> QED BY <1>2, <2>2, <4>1
    <3> QED BY <3>1, <3>2
  <2> QED BY <2>1, <2>3 DEF Quiet
<1>5. Last \in States /\ FirstSequence(n) \in Nat /\ (wterm[n] = Term => FirstSequence(n) = seq[n])
  BY <1>1, Types DEF Last, FirstSequence, Typed
<1> HIDE DEF Last, FirstSequence
<1>6. Typed' BY <1>1, <1>3, <1>5 DEF Typed, Committed
<1>7. /\ wterm'[n] = Term /\ ~failed'[n] /\ view'[n] = Last /\ seq'[n] = FirstSequence(n)
      /\ \A m \in Node : m # n => /\ wterm'[m] = wterm[m] /\ failed'[m] = failed[m]
                                  /\ view'[m] = view[m] /\ seq'[m] = seq[m] /\ leaseTerm'[m] = leaseTerm[m]
  BY <1>1, <1>3 DEF Typed
<1>8. Leaders'
  <2> SUFFICES ASSUME NEW m \in Node
               PROVE  /\ believes'[m] # 0 => believes'[m] <= Term' /\ elections'[believes'[m]] = m
                      /\ wterm'[m] # 0 => wterm'[m] <= Term' /\ elections'[wterm'[m]] = m
                      /\ Authoritative(m)' /\ ~failed'[m] => believes'[m] = Term'
    BY DEF Leaders
  <2>1. CASE m = n BY <1>1, <1>2, <1>3, <1>7, <2>1 DEF Leaders
  <2>2. CASE m # n BY <1>1, <1>3, <1>7, <2>2 DEF Leaders, Authoritative
  <2> QED BY <2>1, <2>2
<1>9. ASSUME NEW r \in Rev, Used(r) PROVE Used(r)'
  <2>1. ASSUME NEW m \in Node, believes'[m] = r[1]
        PROVE  believes[m] = r[1] /\ (wterm[m] = r[1] => wterm'[m] = r[1] /\ seq'[m] >= seq[m])
    <3>1. seq[m] \in Nat /\ believes[m] = r[1] BY <1>1, <1>3, <2>1 DEF Typed
    <3>2. CASE m = n BY <1>2, <1>5, <1>7, <3>1, <3>2
    <3>3. CASE m # n BY <1>7, <3>1, <3>3
    <3> QED BY <3>2, <3>3
  <2>2. seq \in [Node -> Nat] /\ seq' \in [Node -> Nat] BY <1>1, <1>6 DEF Typed
  <2> QED BY <1>1, <1>9, <2>1, <2>2, UsedStays
<1>10. Issue' BY <1>1, <1>3, <1>6, <1>9, IssueKept, PipelineSame
<1>11. History' /\ Grow BY <1>3, HistoryKept
<1>12. Callers'
  <2> SUFFICES ASSUME NEW m \in Node, caller'[m] # None PROVE CallerKept(m)' BY DEF Callers
  <2>1. CASE m # n BY <1>3, <1>6, <1>7, <1>11, <2>1, CallerFrame
  <2>2. CASE m = n
    <3> DEFINE c == caller[n].cmd
    <3>1. CallerKept(n) /\ caller[n] # None /\ caller'[n] = caller[n] BY <1>3, <2>2 DEF Inv, Callers
    <3>2. caller[n].result # "pending" BY <1>4, <3>1 DEF CallerKept, Quiet, InWorker
    <3>3. ASSUME caller[n].result = "ok", c.rev[1] = Term PROVE FALSE
      <4>1. PICK i \in 1..Committed : log[i].cmd.rev = c.rev BY <3>1, <3>3 DEF CallerKept
      <4>2. Used(c.rev) BY <1>1, <1>2, <4>1 DEF Inv, Issue, LogUsed
      <4>3. wterm[n] = Term BY <1>2, <3>3, <4>2 DEF Used
      <4> QED BY <1>2, <3>1, <3>3, <4>3 DEF CallerKept
    <3>4. caller[n].result # "ok" => caller[n].result = "error"
      BY <1>1, <3>1, <3>2, Types DEF Waiting
    <3>5. Committed' = Committed /\ Last' = Last BY <1>3 DEF Committed, Last
    <3> QED BY <1>3, <1>4, <1>7, <2>2, <3>1, <3>2, <3>3, <3>4, <3>5 DEF CallerKept, Quiet, InWorker
  <2> QED BY <2>1, <2>2
<1>13. Views'
  <2> SUFFICES ASSUME NEW m \in Node, NEW k \in Secure
               PROVE  /\ CommittedRev(view[m][k].rev)'
                      /\ wterm'[m] = Term' /\ wterm'[m] # 0 /\ ~failed'[m] =>
                            RevLeq(ackedSec'[k], view'[m][k].rev)
    BY DEF Views
  <2>1. CASE m # n BY <1>1, <1>3, <1>6, <1>7, <1>11, <2>1, ViewFrame
  <2>2. CASE m = n
    <3>1. k \in Key BY KeysAssumption
    <3>2. CommittedRev(Last[k].rev) /\ RevLeq(ackedSec[k], Last[k].rev)
      BY <3>1, LastCommitted DEF Inv, History
    <3>3. view'[m][k].rev = Last[k].rev BY <1>7, <2>2
    <3>4. CommittedRev(view[m][k].rev)' BY <1>3, <3>2, <3>3 DEF CommittedRev, Committed
    <3> QED BY <1>3, <3>2, <3>3, <3>4
  <2> QED BY <2>1, <2>2
<1>14. Placed' BY <1>3 DEF Inv, Placed
<1> QED BY <1>6, <1>8, <1>10, <1>11, <1>12, <1>13, <1>14 DEF Inv

\* The process forgets everything but the log.
LEMMA RestartInv == ASSUME Inv, NEW n \in Node, Restart(n) PROVE Inv'
<1>1. Typed /\ Leaders /\ Term \in Nat /\ Term' = Term /\ Committed \in Nat
  BY Types DEF Inv, Restart, Term
<1>2. /\ believes' = [believes EXCEPT ![n] = 0] /\ applied' = [applied EXCEPT ![n] = 0]
      /\ view' = [view EXCEPT ![n] = NoRecords] /\ wterm' = [wterm EXCEPT ![n] = 0]
      /\ seq' = [seq EXCEPT ![n] = 0] /\ leaseTerm' = [leaseTerm EXCEPT ![n] = 0]
      /\ failed' = [failed EXCEPT ![n] = FALSE] /\ queue' = [queue EXCEPT ![n] = <<>>]
      /\ worker' = [worker EXCEPT ![n] = None] /\ caller' = [caller EXCEPT ![n] = None]
      /\ UNCHANGED <<elections, log, hist, ackedSec>>
  BY DEF Restart
<1>3. NoRecords \in States /\ \A k \in Key : NoRecords[k].rev = NoRev
  BY DEF NoRecords, States, Record, NoRev, Rev
<1> HIDE DEF NoRecords
<1>4. Typed'
  <2>1. Committed' = Committed BY <1>2 DEF Committed
  <2>2. \A m \in Node : applied'[m] <= Committed' BY <1>1, <1>2, <2>1 DEF Typed
  <2>3. <<>> \in Seq(Transaction) OBVIOUS
  <2> QED BY <1>1, <1>2, <1>3, <2>1, <2>2, <2>3 DEF Typed
<1>5. /\ believes'[n] = 0 /\ wterm'[n] = 0 /\ view'[n] = NoRecords /\ queue'[n] = <<>>
      /\ worker'[n] = None /\ caller'[n] = None
      /\ \A m \in Node : m # n =>
           /\ believes'[m] = believes[m] /\ wterm'[m] = wterm[m] /\ failed'[m] = failed[m]
           /\ view'[m] = view[m] /\ seq'[m] = seq[m] /\ leaseTerm'[m] = leaseTerm[m]
           /\ queue'[m] = queue[m] /\ worker'[m] = worker[m] /\ caller'[m] = caller[m]
  BY <1>1, <1>2 DEF Typed
<1>6. Leaders'
  <2> SUFFICES ASSUME NEW m \in Node
               PROVE  /\ believes'[m] # 0 => believes'[m] <= Term' /\ elections'[believes'[m]] = m
                      /\ wterm'[m] # 0 => wterm'[m] <= Term' /\ elections'[wterm'[m]] = m
                      /\ Authoritative(m)' /\ ~failed'[m] => believes'[m] = Term'
    BY DEF Leaders
  <2>1. CASE m = n BY <1>5, <2>1 DEF Authoritative
  <2>2. CASE m # n BY <1>1, <1>2, <1>5, <2>2 DEF Leaders, Authoritative
  <2> QED BY <2>1, <2>2
<1>7. ASSUME NEW r \in Rev, Used(r) PROVE Used(r)'
  <2>1. ASSUME NEW m \in Node, believes'[m] = r[1]
        PROVE  believes[m] = r[1] /\ (wterm[m] = r[1] => wterm'[m] = r[1] /\ seq'[m] >= seq[m])
    <3>1. m # n BY <1>5, <1>7, <2>1 DEF Used
    <3>2. seq[m] \in Nat BY <1>1 DEF Typed
    <3> QED BY <1>5, <2>1, <3>1, <3>2
  <2>2. seq \in [Node -> Nat] /\ seq' \in [Node -> Nat] BY <1>1, <1>4 DEF Typed
  <2> QED BY <1>1, <1>7, <2>1, <2>2, UsedStays
<1>8. Issue'
  <2>1. ASSUME NEW m \in Node, NEW c \in Transaction
        PROVE  /\ (InQueue(m, c) \/ InWorker(m, c))' => InQueue(m, c) \/ InWorker(m, c)
               /\ Unsent(m, c)' => Unsent(m, c)
    <3>1. CASE m = n BY <1>5, <3>1 DEF InQueue, InWorker, Unsent
    <3>2. CASE m # n BY <1>5, <3>2 DEF InQueue, InWorker, Unsent
    <3> QED BY <3>1, <3>2
  <2>2. QueueOrdered'
    <3> SUFFICES ASSUME NEW m \in Node
                 PROVE  /\ \A i, j \in 1..Len(queue'[m]) : i < j => RevLess(queue'[m][i].rev, queue'[m][j].rev)
                        /\ worker'[m] # None =>
                             \A j \in 1..Len(queue'[m]) : RevLess(worker'[m].cmd.rev, queue'[m][j].rev)
      BY DEF QueueOrdered
    <3>1. CASE m = n BY <1>5, <3>1
    <3>2. CASE m # n BY <1>5, <3>2 DEF Inv, Issue, QueueOrdered
    <3> QED BY <3>1, <3>2
  <2> QED BY <1>1, <1>2, <1>4, <1>7, <2>1, <2>2, IssueKept
<1>9. History' /\ Grow BY <1>2, HistoryKept
<1>10. Callers'
  <2> SUFFICES ASSUME NEW m \in Node, caller'[m] # None PROVE CallerKept(m)' BY DEF Callers
  <2>1. m # n BY <1>5
  <2> QED BY <1>4, <1>5, <1>9, <2>1, CallerFrame
<1>11. Views'
  <2> SUFFICES ASSUME NEW m \in Node, NEW k \in Secure
               PROVE  /\ CommittedRev(view[m][k].rev)'
                      /\ wterm'[m] = Term' /\ wterm'[m] # 0 /\ ~failed'[m] =>
                            RevLeq(ackedSec'[k], view'[m][k].rev)
    BY DEF Views
  <2>1. CASE m # n BY <1>1, <1>2, <1>4, <1>5, <1>9, <2>1, ViewFrame
  <2>2. CASE m = n
    <3>1. k \in Key BY KeysAssumption
    <3> QED BY <1>3, <1>5, <2>2, <3>1 DEF CommittedRev
  <2> QED BY <2>1, <2>2
<1>12. Placed' BY <1>1, <1>2 DEF Inv, Placed, Typed
<1> QED BY <1>4, <1>6, <1>8, <1>9, <1>10, <1>11, <1>12 DEF Inv

-----------------------------------------------------------------------------
(* commit *)

\* A view is fenced, or a caller leaves with nothing published.
LEMMA FenceStep ==
  ASSUME Inv, NEW n \in Node, Typed',
         UNCHANGED <<elections, log, hist, believes, view, wterm, queue, worker, ackedSec>>,
         caller'[n] = None, failed[n] => failed'[n],
         \A m \in Node \ {n} : caller'[m] = caller[m] /\ failed'[m] = failed[m],
         \A m \in Node : leaseTerm'[m] \in {leaseTerm[m], 0},
         \A m \in Node : seq'[m] >= seq[m]
  PROVE  Inv'
<1>1. Typed /\ Leaders /\ Term \in Nat /\ Term' = Term BY Types DEF Inv, Term
<1>2. \A m \in Node : ~failed'[m] => ~failed[m] OBVIOUS
<1>3. Leaders'
  <2>1. \A m \in Node : Authoritative(m)' => Authoritative(m) BY <1>1 DEF Authoritative, Typed
  <2> QED BY <1>1, <1>2, <2>1 DEF Leaders
<1>4. ASSUME NEW r \in Rev, Used(r) PROVE Used(r)'
  <2>1. seq \in [Node -> Nat] /\ seq' \in [Node -> Nat] BY <1>1 DEF Typed
  <2> QED BY <1>1, <1>4, <2>1, UsedStays
<1>5. Issue' BY <1>1, <1>4, IssueKept, PipelineSame
<1>6. History' /\ Grow BY HistoryKept
<1>7. Callers'
  <2> SUFFICES ASSUME NEW m \in Node, caller'[m] # None PROVE CallerKept(m)' BY DEF Callers
  <2>1. m \in Node \ {n} OBVIOUS
  <2> QED BY <1>6, <2>1, CallerFrame
<1>8. Views' BY <1>1, <1>2, <1>6, ViewFrame DEF Views
<1>9. Placed' BY DEF Inv, Placed
<1> QED BY <1>3, <1>5, <1>6, <1>7, <1>8, <1>9 DEF Inv

\* A leader that serves is the leader of the present term.
LEMMA ServingLeads ==
  ASSUME Inv, NEW n \in Node, Serving(n)
  PROVE  /\ Term \in Nat /\ Term # 0 /\ wterm[n] = Term /\ believes[n] = Term /\ ~failed[n]
         /\ elections[Term] = n /\ \A m \in Node : believes[m] = Term => m = n
<1>1. Typed /\ Leaders /\ Term \in Nat BY Types DEF Inv
<1>2. believes[n] = Term /\ Term # 0 /\ wterm[n] = Term /\ ~failed[n]
  BY <1>1 DEF Serving, Leaders, Authoritative
<1> QED BY <1>1, <1>2 DEF Leaders

\* Over capacity.
LEMMA CommitRefusedInv ==
  ASSUME Inv, NEW n \in Node, NEW s \in Shapes, CommitRefused(n, s) PROVE Inv'
<1>1. Typed BY DEF Inv
<1>2. /\ seq' = [seq EXCEPT ![n] = @ + 1]
      /\ UNCHANGED <<elections, log, hist, applied, believes, view, wterm, leaseTerm, failed, queue,
                     worker, caller, ackedSec>>
  BY DEF CommitRefused, raftVars
<1>3. seq' \in [Node -> Nat] /\ \A m \in Node : seq'[m] >= seq[m]
  <2>1. seq \in [Node -> Nat] BY <1>1 DEF Typed
  <2> QED BY <1>2, <2>1
<1>4. Typed' BY <1>1, <1>2, <1>3 DEF Typed, Committed
<1>5. Leaders' BY <1>2 DEF Inv, Leaders, Authoritative, Term
<1> QED BY <1>2, <1>3, <1>4, <1>5, CalmStep

\* The window closed meanwhile.
LEMMA CommitFencedInv ==
  ASSUME Inv, NEW n \in Node, NEW s \in Shapes, CommitFenced(n, s) PROVE Inv'
<1>1. Typed BY DEF Inv
<1>2. /\ seq' = [seq EXCEPT ![n] = @ + 1] /\ leaseTerm' = [leaseTerm EXCEPT ![n] = 0]
      /\ failed' = [failed EXCEPT ![n] = TRUE] /\ caller[n] = None
      /\ UNCHANGED <<elections, log, hist, applied, believes, view, wterm, queue, worker, caller, ackedSec>>
  BY DEF CommitFenced, CanCommit, raftVars
<1>3. seq' \in [Node -> Nat] /\ \A m \in Node : seq'[m] >= seq[m] BY <1>1, <1>2 DEF Typed
<1>4. Typed' BY <1>1, <1>2, <1>3 DEF Typed, Committed
<1>5. failed'[n] /\ \A m \in Node \ {n} : failed'[m] = failed[m] BY <1>1, <1>2 DEF Typed
<1>6. \A m \in Node : leaseTerm'[m] \in {leaseTerm[m], 0} BY <1>1, <1>2 DEF Typed
<1> QED BY <1>2, <1>3, <1>4, <1>5, <1>6, FenceStep

\* The caller gives up.
LEMMA CallerTimeoutInv == ASSUME Inv, NEW n \in Node, CallerTimeout(n) PROVE Inv'
<1>1. Typed BY DEF Inv
<1>2. /\ caller' = [caller EXCEPT ![n] = None] /\ failed' = [failed EXCEPT ![n] = TRUE]
      /\ UNCHANGED <<elections, log, hist, applied, believes, view, wterm, seq, leaseTerm, queue,
                     worker, ackedSec>>
  BY DEF CallerTimeout, raftVars
<1>3. Typed' BY <1>1, <1>2 DEF Typed, Committed
<1>4. failed'[n] /\ caller'[n] = None
      /\ \A m \in Node \ {n} : failed'[m] = failed[m] /\ caller'[m] = caller[m]
  BY <1>1, <1>2 DEF Typed
<1>5. \A m \in Node : leaseTerm'[m] \in {leaseTerm[m], 0} /\ seq'[m] >= seq[m] BY <1>1, <1>2 DEF Typed
<1> QED BY <1>2, <1>3, <1>4, <1>5, FenceStep

\* The command of commit is a transaction of the next revision.
LEMMA CommandTyped ==
  ASSUME Typed, NEW n \in Node, NEW s \in Shapes
  PROVE  /\ Command(n, s) \in Transaction /\ Command(n, s).rev = NextRev(n)
         /\ Command(n, s).writes = s.writes /\ s.writes \subseteq Key
<1>1. s.reads \subseteq Key /\ s.writes \subseteq Key /\ s.dels \subseteq Key
  BY ShapesAssumption DEF Shape
<1>2. NextRev(n) \in Rev BY DEF NextRev, Rev, Typed
<1>3. \A k \in Key : Version(view[n][k]) \in Rev
  <2>1. \A k \in Key : view[n][k] \in Record BY DEF Typed, States
  <2>2. NoRev \in Rev BY DEF NoRev, Rev
  <2> QED BY <2>1, <2>2 DEF Version, Record
<1>4. {<<k, Version(view[n][k])>> : k \in s.reads} \in SUBSET (Key \X Rev) BY <1>1, <1>3
<1>5. LocalContentAllowed(s) \in BOOLEAN BY DEF LocalContentAllowed
<1> HIDE DEF NextRev, Version, LocalContentAllowed
<1> QED BY <1>1, <1>2, <1>4, <1>5 DEF Command, Transaction

\* A used revision comes before the next one of the leader.
LEMMA UsedBefore ==
  ASSUME Inv, NEW n \in Node, Serving(n), NEW r \in Rev, Used(r)
  PROVE  RevLess(r, NextRev(n)) /\ (r[1] = Term => r[2] <= seq[n])
<1>1. r[1] \in Nat /\ r[2] \in Nat /\ seq[n] \in Nat BY RevPair DEF Inv, Typed
<1>2. Term \in Nat /\ wterm[n] = Term /\ believes[n] = Term BY ServingLeads
<1>3. NextRev(n)[1] = Term /\ NextRev(n)[2] = seq[n] + 1 BY <1>2 DEF NextRev
<1>4. r[1] <= Term /\ (r[1] = Term => r[2] <= seq[n]) BY <1>2 DEF Used
<1> QED BY <1>1, <1>2, <1>3, <1>4 DEF RevLess

\* A command of the next revision joins the queue.
LEMMA EnqueueIssue ==
  ASSUME Inv, Typed', NEW n \in Node, Serving(n), NEW c \in Transaction, c.rev = NextRev(n),
         queue' = [queue EXCEPT ![n] = Append(@, c)], seq' = [seq EXCEPT ![n] = @ + 1],
         UNCHANGED <<elections, log, believes, wterm, worker>>
  PROVE  Issue'
<1>1. Typed /\ Issue /\ Term' = Term BY DEF Inv, Term
<1>2. /\ Term \in Nat /\ Term # 0 /\ wterm[n] = Term /\ believes[n] = Term
      /\ elections[Term] = n /\ \A m \in Node : believes[m] = Term => m = n
  BY ServingLeads
<1>3. /\ seq[n] \in Nat /\ seq'[n] = seq[n] + 1 /\ c.rev \in Rev
      /\ c.rev[1] = Term /\ c.rev[2] = seq[n] + 1
      /\ \A m \in Node : seq'[m] >= seq[m]
  <2>1. c.rev = <<Term, seq[n] + 1>> BY <1>2 DEF NextRev
  <2>2. seq \in [Node -> Nat] BY <1>1 DEF Typed
  <2>3. c.rev \in Rev BY DEF Transaction
  <2> QED BY <2>1, <2>2, <2>3
<1>4. /\ queue[n] \in Seq(Transaction) /\ Len(queue[n]) \in Nat /\ Len(queue'[n]) = Len(queue[n]) + 1
      /\ queue'[n][Len(queue[n]) + 1] = c /\ \A j \in 1..Len(queue[n]) : queue'[n][j] = queue[n][j]
      /\ \A m \in Node : m # n => queue'[m] = queue[m]
  BY <1>1 DEF Typed
<1>5. ASSUME NEW r \in Rev, Used(r) PROVE Used(r)'
  <2>1. seq \in [Node -> Nat] /\ seq' \in [Node -> Nat] BY <1>1 DEF Typed
  <2> QED BY <1>1, <1>2, <1>3, <1>5, <2>1, UsedStays
<1>6. Used(c.rev)' BY <1>1, <1>2, <1>3 DEF Used
<1>7. ASSUME NEW m \in Node, NEW d \in Transaction, InQueue(m, d)'
      PROVE  InQueue(m, d) \/ (m = n /\ d = c)
  <2>1. PICK j \in 1..Len(queue'[m]) : queue'[m][j] = d BY <1>7 DEF InQueue
  <2>2. CASE m # n BY <1>4, <2>1, <2>2 DEF InQueue
  <2>3. CASE m = n
    <3>1. CASE j = Len(queue[n]) + 1 BY <1>4, <2>1, <2>3, <3>1
    <3>2. CASE j # Len(queue[n]) + 1
      <4>1. j \in 1..Len(queue[n]) BY <1>4, <2>1, <2>3, <3>2
      <4> QED BY <1>4, <2>1, <2>3, <4>1 DEF InQueue
    <3> QED BY <3>1, <3>2
  <2> QED BY <2>2, <2>3
<1>9. LogUsed' BY <1>1, <1>5, Types DEF Issue, LogUsed
<1>10. PipelineUsed'
  <2> SUFFICES ASSUME NEW m \in Node, NEW d \in Transaction, InQueue(m, d)' \/ InWorker(m, d)'
               PROVE  Used(d.rev)' /\ elections'[d.rev[1]] = m
    BY DEF PipelineUsed
  <2>1. CASE m = n /\ d = c BY <1>2, <1>3, <1>6, <2>1
  <2>2. CASE InQueue(m, d) \/ InWorker(m, d)
    <3>1. Used(d.rev) /\ elections[d.rev[1]] = m BY <1>1, <2>2 DEF Issue, PipelineUsed
    <3>2. d.rev \in Rev BY DEF Transaction
    <3> QED BY <1>5, <3>1, <3>2
  <2> QED BY <1>7, <2>1, <2>2 DEF InWorker
<1>11. QueueOrdered'
  <2> SUFFICES ASSUME NEW m \in Node
               PROVE  /\ \A i, j \in 1..Len(queue'[m]) : i < j => RevLess(queue'[m][i].rev, queue'[m][j].rev)
                      /\ worker'[m] # None =>
                           \A j \in 1..Len(queue'[m]) : RevLess(worker'[m].cmd.rev, queue'[m][j].rev)
    BY DEF QueueOrdered
  <2>1. CASE m # n BY <1>1, <1>4, <2>1 DEF Issue, QueueOrdered
  <2>2. CASE m = n
    <3>1. ASSUME NEW d \in Transaction, InQueue(n, d) \/ InWorker(n, d) PROVE RevLess(d.rev, c.rev)
      <4>1. Used(d.rev) BY <1>1, <3>1 DEF Issue, PipelineUsed
      <4>2. d.rev \in Rev BY DEF Transaction
      <4> QED BY <4>1, <4>2, UsedBefore
    <3>2. ASSUME NEW i \in 1..Len(queue'[n]), NEW j \in 1..Len(queue'[n]), i < j
          PROVE  RevLess(queue'[n][i].rev, queue'[n][j].rev)
      <4>1. i \in 1..Len(queue[n]) /\ queue'[n][i] = queue[n][i] BY <1>4, <3>2
      <4>2. CASE j = Len(queue[n]) + 1
        <5>1. queue[n][i] \in Transaction /\ InQueue(n, queue[n][i]) BY <1>4, <4>1 DEF InQueue
        <5> QED BY <1>4, <3>1, <4>1, <4>2, <5>1
      <4>3. CASE j # Len(queue[n]) + 1
        <5>1. j \in 1..Len(queue[n]) BY <1>4, <3>2, <4>3
        <5> QED BY <1>1, <1>4, <3>2, <4>1, <5>1 DEF Issue, QueueOrdered
      <4> QED BY <4>2, <4>3
    <3>3. ASSUME worker[n] # None, NEW j \in 1..Len(queue'[n])
          PROVE  RevLess(worker[n].cmd.rev, queue'[n][j].rev)
      <4>1. CASE j = Len(queue[n]) + 1
        <5>1. worker[n].cmd \in Transaction /\ InWorker(n, worker[n].cmd) BY <1>1, <3>3, Types DEF InWorker
        <5> QED BY <1>4, <3>1, <4>1, <5>1
      <4>2. CASE j # Len(queue[n]) + 1
        <5>1. j \in 1..Len(queue[n]) BY <1>4, <3>3, <4>2
        <5> QED BY <1>1, <1>4, <3>3, <5>1 DEF Issue, QueueOrdered
      <4> QED BY <4>1, <4>2
    <3> QED BY <2>2, <3>2, <3>3
  <2> QED BY <2>1, <2>2
<1>12. UnsentLater'
  <2> SUFFICES ASSUME NEW m \in Node, NEW d \in Transaction, Unsent(m, d)', NEW i \in 1..Len(log)
               PROVE  log[i].cmd.rev[1] = d.rev[1] => log[i].cmd.rev[2] < d.rev[2]
    BY DEF UnsentLater
  <2>1. CASE d = c
    <3>1. log[i].cmd.rev \in Rev /\ Used(log[i].cmd.rev) BY <1>1, Types DEF Issue, LogUsed
    <3>2. log[i].cmd.rev[1] = Term => log[i].cmd.rev[2] <= seq[n] BY <3>1, UsedBefore
    <3>3. log[i].cmd.rev[2] \in Nat BY <3>1, RevPair
    <3> QED BY <1>3, <2>1, <3>2, <3>3
  <2>2. CASE Unsent(m, d) BY <1>1, <2>2 DEF Issue, UnsentLater
  <2> QED BY <1>7, <2>1, <2>2 DEF Unsent, InWorker
<1>13. LogOrdered' BY <1>1 DEF Issue, LogOrdered
<1> QED BY <1>9, <1>10, <1>11, <1>12, <1>13 DEF Issue

\* What enqueueing a command leaves behind, whoever waits for it.
LEMMA EnqueueFrame ==
  ASSUME Inv, NEW n \in Node, NEW s \in Shapes, Enqueue(n, s),
         UNCHANGED <<raftVars, wterm, leaseTerm, failed, worker, ackedSec>>,
         view' \in [Node -> States], caller' \in [Node -> Waiting \cup {None}]
  PROVE  /\ Serving(n) /\ caller[n] = None /\ Typed' /\ Leaders' /\ Issue' /\ History' /\ Grow /\ Placed'
         /\ Len(queue[n]) \in Nat /\ Len(queue'[n]) = Len(queue[n]) + 1
         /\ queue'[n][Len(queue[n]) + 1] = Command(n, s)
         /\ \A m \in Node : m # n => queue'[m] = queue[m]
<1>1. Typed /\ Leaders BY DEF Inv
<1>2. /\ Serving(n) /\ caller[n] = None /\ seq' = [seq EXCEPT ![n] = @ + 1]
      /\ queue' = [queue EXCEPT ![n] = Append(@, Command(n, s))]
  BY DEF Enqueue, CanCommit
<1>3. Command(n, s) \in Transaction /\ Command(n, s).rev = NextRev(n) BY <1>1, CommandTyped
<1>4. UNCHANGED <<elections, log, hist, applied, believes>> BY DEF raftVars
<1>5. queue[n] \in Seq(Transaction) /\ queue \in [Node -> Seq(Transaction)] BY <1>1 DEF Typed
<1>6. queue' \in [Node -> Seq(Transaction)] BY <1>2, <1>3, <1>5
<1>7. seq' \in [Node -> Nat] BY <1>1, <1>2 DEF Typed
<1>8. Committed' = Committed BY <1>4 DEF Committed
<1>9. Typed' BY <1>1, <1>4, <1>6, <1>7, <1>8 DEF Typed
<1>10. Issue' BY <1>2, <1>3, <1>4, <1>9, EnqueueIssue
<1>11. Leaders' BY <1>1, <1>4 DEF Leaders, Authoritative, Term
<1>12. History' /\ Grow BY <1>4, HistoryKept
<1>13. Placed' BY DEF Inv, Placed
<1> QED BY <1>2, <1>3, <1>5, <1>9, <1>10, <1>11, <1>12, <1>13

\* Content is added to the view.
LEMMA CommitLocalInv ==
  ASSUME Inv, NEW n \in Node, NEW s \in Shapes, CommitLocal(n, s) PROVE Inv'
<1> DEFINE c == Command(n, s)
<1>1. /\ Enqueue(n, s) /\ UNCHANGED <<raftVars, wterm, leaseTerm, failed, worker, ackedSec>>
      /\ view' = [view EXCEPT ![n] = Install(view[n], c)] /\ UNCHANGED caller
      /\ s.writes \cap Secure = {}
  BY DEF CommitLocal, LocalContentAllowed
<1>2. c \in Transaction /\ c.writes = s.writes BY CommandTyped DEF Inv
<1> HIDE DEF c
<1>3. view \in [Node -> States] /\ caller \in [Node -> Waiting \cup {None}] BY DEF Inv, Typed
<1>4. view[n] \in States BY <1>3
<1>5. Install(view[n], c) \in States
      /\ \A k \in Key : k \notin c.writes => Install(view[n], c)[k] = view[n][k]
  BY <1>2, <1>4, InstallTyped
<1>6. view' \in [Node -> States] /\ view'[n] = Install(view[n], c)
      /\ \A m \in Node : m # n => view'[m] = view[m]
  BY <1>1, <1>3, <1>5
<1>7. /\ Serving(n) /\ caller[n] = None /\ Typed' /\ Leaders' /\ Issue' /\ History' /\ Grow /\ Placed'
      /\ \A m \in Node : m # n => queue'[m] = queue[m]
  BY <1>1, <1>3, <1>6, EnqueueFrame
<1>8. Callers' BY <1>1, <1>6, <1>7, CallerFrame DEF Callers
<1>9. Views'
  <2> SUFFICES ASSUME NEW m \in Node, NEW k \in Secure
               PROVE  /\ CommittedRev(view[m][k].rev)'
                      /\ wterm'[m] = Term' /\ wterm'[m] # 0 /\ ~failed'[m] =>
                            RevLeq(ackedSec'[k], view'[m][k].rev)
    BY DEF Views
  <2>1. Term' = Term BY <1>1 DEF Term, raftVars
  <2>2. view'[m] = view[m] \/ view'[m][k] = view[m][k]
    <3>1. k \in Key /\ k \notin c.writes BY <1>1, <1>2, KeysAssumption
    <3> QED BY <1>5, <1>6, <3>1
  <2> QED BY <1>1, <1>7, <2>1, <2>2, ViewFrame
<1> QED BY <1>7, <1>8, <1>9 DEF Inv

\* A security commit waits.
LEMMA CommitReplicatedInv ==
  ASSUME Inv, NEW n \in Node, NEW s \in Shapes, CommitReplicated(n, s) PROVE Inv'
<1> DEFINE c == Command(n, s)
           p == Install(view[n], c)
<1>1. /\ Enqueue(n, s) /\ UNCHANGED <<raftVars, wterm, leaseTerm, failed, worker, ackedSec>>
      /\ UNCHANGED view
      /\ caller' = [caller EXCEPT ![n] = [cmd |-> c, result |-> "pending", preview |-> p]]
  BY DEF CommitReplicated
<1>2. c \in Transaction BY CommandTyped DEF Inv
<1> HIDE DEF c
<1>3. view \in [Node -> States] /\ caller \in [Node -> Waiting \cup {None}] BY DEF Inv, Typed
<1>4. /\ p \in States /\ \A k \in Key : k \in c.writes => p[k].rev = c.rev
      /\ \A k \in Key : k \notin c.writes => p[k] = view[n][k]
  BY <1>2, <1>3, InstallTyped
<1> HIDE DEF p
<1>5. [cmd |-> c, result |-> "pending", preview |-> p] \in Waiting BY <1>2, <1>4 DEF Waiting
<1>6. /\ caller' \in [Node -> Waiting \cup {None}]
      /\ caller'[n].cmd = c /\ caller'[n].result = "pending" /\ caller'[n].preview = p
      /\ \A m \in Node : m # n => caller'[m] = caller[m]
  BY <1>1, <1>3, <1>5
<1>7. /\ Serving(n) /\ Typed' /\ Leaders' /\ Issue' /\ History' /\ Grow /\ Placed'
      /\ Len(queue[n]) \in Nat /\ Len(queue'[n]) = Len(queue[n]) + 1
      /\ queue'[n][Len(queue[n]) + 1] = c
      /\ \A m \in Node : m # n => queue'[m] = queue[m]
  BY <1>1, <1>3, <1>6, EnqueueFrame DEF c
<1>8. Callers'
  <2> SUFFICES ASSUME NEW m \in Node, caller'[m] # None PROVE CallerKept(m)' BY DEF Callers
  <2>1. CASE m # n BY <1>1, <1>6, <1>7, <2>1, CallerFrame
  <2>2. CASE m = n
    <3>1. ~failed'[n] BY <1>1, <1>7 DEF Serving
    <3>2. queue'[n] # <<>> /\ queue'[n][Len(queue'[n])] = c BY <1>7
    <3>3. \A k \in Key : IF k \in c.writes THEN p[k].rev = c.rev ELSE p[k] = view'[n][k]
      BY <1>1, <1>4
    <3> QED BY <1>6, <2>2, <3>1, <3>2, <3>3 DEF CallerKept
  <2> QED BY <2>1, <2>2
<1>9. Views'
  <2>1. Term' = Term BY <1>1 DEF Term, raftVars
  <2> QED BY <1>1, <1>7, <2>1, ViewFrame DEF Views
<1> QED BY <1>7, <1>8, <1>9 DEF Inv

\* A security commit that was told of success is published and acknowledged.
LEMMA PublishStep ==
  ASSUME Inv, NEW n \in Node, caller[n] # None, caller[n].result = "ok",
         Authoritative(n), wterm[n] = caller[n].cmd.rev[1], ~failed[n],
         view' = [view EXCEPT ![n] = caller[n].preview],
         ackedSec' = [k \in Key |-> IF k \in caller[n].cmd.writes THEN caller[n].cmd.rev ELSE ackedSec[k]],
         caller' = [caller EXCEPT ![n] = None],
         UNCHANGED <<raftVars, wterm, seq, leaseTerm, failed, queue, worker>>
  PROVE  Inv'
<1> DEFINE c == caller[n].cmd
           p == caller[n].preview
<1>1. /\ Typed /\ Leaders /\ History /\ CallerKept(n) /\ Term \in Nat
      /\ c \in Transaction /\ c.rev \in Rev /\ p \in States
  BY Types DEF Inv, Callers, Waiting
<1>2. /\ view' = [view EXCEPT ![n] = p] /\ caller' = [caller EXCEPT ![n] = None]
      /\ ackedSec' = [k \in Key |-> IF k \in c.writes THEN c.rev ELSE ackedSec[k]]
      /\ UNCHANGED <<elections, log, hist, applied, believes, wterm, seq, leaseTerm, failed, queue, worker>>
  BY DEF raftVars
<1>3. /\ \A k \in Key : k \in c.writes => p[k].rev = c.rev /\ RevLeq(c.rev, Last[k].rev)
      /\ \A k \in Key : k \notin c.writes => p[k] = view[n][k]
      /\ \E i \in 1..Committed : log[i].cmd.rev = c.rev
  BY <1>1 DEF CallerKept
<1> HIDE DEF c, p
<1>4. /\ view' \in [Node -> States] /\ view'[n] = p /\ \A m \in Node : m # n => view'[m] = view[m]
      /\ caller' \in [Node -> Waiting \cup {None}] /\ caller'[n] = None
      /\ \A m \in Node : m # n => caller'[m] = caller[m]
  BY <1>1, <1>2 DEF Typed
<1>5. ackedSec' \in [Key -> Rev] BY <1>1, <1>2 DEF Typed
<1>6. Committed' = Committed /\ Last' = Last /\ Term' = Term BY <1>2 DEF Committed, Last, Term
<1>7. Typed' BY <1>1, <1>2, <1>4, <1>5, <1>6 DEF Typed
<1>8. Grow BY <1>1, <1>2, <1>6, Types, RevOrder DEF Grow
<1>9. History'
  <2>1. \A r, m : ValidIn(r, m)' <=> ValidIn(r, m) BY <1>2 DEF ValidIn
  <2>2. \A k \in Key : RevLeq(ackedSec'[k], Last[k].rev) BY <1>1, <1>2, <1>3 DEF History
  <2>3. \A i \in 1..Committed : hist'[i + 1] = Apply(hist'[i], log'[i].cmd, log'[i].term)
    BY <1>1, <1>2 DEF History
  <2>4. \A j \in 1..Len(hist') : \A k \in Key :
          /\ hist'[j][k].rev = NoRev \/ ValidIn(hist[j][k].rev, j - 1)'
          /\ RevLeq(hist'[j][k].rev, Last[k].rev)
    BY <1>1, <1>2, <2>1 DEF History
  <2> QED BY <1>6, <2>2, <2>3, <2>4 DEF History
<1>10. Leaders' BY <1>1, <1>2 DEF Leaders, Authoritative, Term
<1>11. Issue' /\ Placed' BY <1>2, IssueSame
<1>12. Callers'
  <2> SUFFICES ASSUME NEW m \in Node, caller'[m] # None PROVE CallerKept(m)' BY DEF Callers
  <2>1. m # n BY <1>4
  <2> QED BY <1>2, <1>4, <1>7, <1>8, <2>1, CallerFrame
<1>13. Views'
  <2> SUFFICES ASSUME NEW m \in Node, NEW k \in Secure
               PROVE  /\ CommittedRev(view[m][k].rev)'
                      /\ wterm'[m] = Term' /\ wterm'[m] # 0 /\ ~failed'[m] =>
                            RevLeq(ackedSec'[k], view'[m][k].rev)
    BY DEF Views
  <2>1. k \in Key BY KeysAssumption
  <2>2. CASE m # n
    <3>1. believes[n] = Term /\ Term # 0 BY <1>1 DEF Leaders, Authoritative
    <3>2. wterm[m] # Term BY <1>1, <2>2, <3>1 DEF Leaders
    <3> QED BY <1>2, <1>4, <1>6, <1>7, <1>8, <2>2, <3>2, ViewFrame
  <2>3. CASE m = n /\ k \notin c.writes
    <3>1. view'[m][k] = view[m][k] /\ ackedSec'[k] = ackedSec[k] BY <1>2, <1>3, <1>4, <2>1, <2>3
    <3> QED BY <1>2, <1>6, <1>7, <1>8, <3>1, ViewFrame
  <2>4. CASE m = n /\ k \in c.writes
    <3>1. view'[m][k].rev = c.rev /\ ackedSec'[k] = c.rev BY <1>2, <1>3, <1>4, <2>1, <2>4
    <3>2. CommittedRev(view[m][k].rev)' BY <1>2, <1>3, <1>6, <3>1 DEF CommittedRev
    <3> QED BY <1>1, <3>1, <3>2, RevOrder
  <2> QED BY <2>2, <2>3, <2>4
<1> QED BY <1>7, <1>9, <1>10, <1>11, <1>12, <1>13 DEF Inv

\* The waiting caller is answered.
LEMMA CallerDoneInv == ASSUME Inv, NEW n \in Node, CallerDone(n) PROVE Inv'
<1> DEFINE same == wterm[n] = caller[n].cmd.rev[1]
<1>1. Typed BY DEF Inv
<1>2. /\ caller[n] # None /\ caller' = [caller EXCEPT ![n] = None]
      /\ UNCHANGED <<raftVars, wterm, seq, leaseTerm, journal, queue, worker>>
  BY DEF CallerDone
<1>3. \/ caller[n].result = "error" /\ UNCHANGED <<view, failed, ackedSec>>
      \/ /\ caller[n].result = "ok" /\ Authoritative(n) /\ same /\ ~failed[n] /\ UNCHANGED failed
         /\ view' = [view EXCEPT ![n] = caller[n].preview]
         /\ ackedSec' = [k \in Key |-> IF k \in caller[n].cmd.writes THEN caller[n].cmd.rev ELSE ackedSec[k]]
      \/ failed' = [failed EXCEPT ![n] = @ \/ same] /\ UNCHANGED <<view, ackedSec>>
  BY DEF CallerDone
<1>4. CASE /\ caller[n].result = "ok" /\ Authoritative(n) /\ same /\ ~failed[n] /\ UNCHANGED failed
           /\ view' = [view EXCEPT ![n] = caller[n].preview]
           /\ ackedSec' = [k \in Key |-> IF k \in caller[n].cmd.writes THEN caller[n].cmd.rev ELSE ackedSec[k]]
  BY <1>2, <1>4, PublishStep
<1>5. CASE UNCHANGED <<view, ackedSec>> /\ (UNCHANGED failed \/ failed' = [failed EXCEPT ![n] = @ \/ same])
  <2>1. UNCHANGED <<elections, log, hist, applied, believes, view, wterm, seq, leaseTerm, queue, worker, ackedSec>>
    BY <1>2, <1>5 DEF raftVars
  <2>2. failed[n] \in BOOLEAN /\ same \in BOOLEAN /\ failed \in [Node -> BOOLEAN] BY <1>1 DEF Typed
  <2>3. failed' \in [Node -> BOOLEAN] /\ (failed[n] => failed'[n])
        /\ \A m \in Node \ {n} : failed'[m] = failed[m]
    <3>1. CASE UNCHANGED failed BY <2>2, <3>1
    <3>2. CASE failed' = [failed EXCEPT ![n] = @ \/ same]
      <4> HIDE DEF same
      <4> QED BY <2>2, <3>2, Zenon
    <3> QED BY <1>5, <3>1, <3>2
  <2>4. /\ caller' \in [Node -> Waiting \cup {None}] /\ caller'[n] = None
        /\ \A m \in Node \ {n} : caller'[m] = caller[m]
    BY <1>1, <1>2 DEF Typed
  <2>5. Typed' BY <1>1, <2>1, <2>3, <2>4 DEF Typed, Committed
  <2>6. \A m \in Node : leaseTerm'[m] \in {leaseTerm[m], 0} /\ seq'[m] >= seq[m] BY <1>1, <2>1 DEF Typed
  <2> QED BY <2>1, <2>3, <2>4, <2>5, <2>6, FenceStep
<1> QED BY <1>3, <1>4, <1>5

-----------------------------------------------------------------------------
(* replicate *)

\* The worker takes the head of the queue.
LEMMA WorkerTakeInv == ASSUME Inv, NEW n \in Node, WorkerTake(n) PROVE Inv'
<1> DEFINE q == queue[n]
           c == Head(q)
           valid == wterm[n] = c.rev[1] /\ ~failed[n] /\ Authoritative(n)
           w == [cmd |-> c, stage |-> IF valid THEN "propose" ELSE "failed", term |-> 0, at |-> 0]
<1>1. Typed /\ Leaders /\ Issue /\ Term \in Nat BY Types DEF Inv
<1>2. /\ q # <<>> /\ worker[n] = None /\ worker' = [worker EXCEPT ![n] = w]
      /\ queue' = [queue EXCEPT ![n] = Tail(q)]
      /\ UNCHANGED <<elections, log, hist, applied, believes, view, wterm, seq, leaseTerm, failed,
                     caller, ackedSec>>
  BY DEF WorkerTake, raftVars
<1>3. q \in Seq(Transaction) BY <1>1 DEF Typed
<1>4. /\ Len(q) \in Nat /\ Len(q) >= 1 /\ c = q[1] /\ c \in Transaction
      /\ Tail(q) \in Seq(Transaction) /\ Len(Tail(q)) = Len(q) - 1
      /\ \A j \in 1..(Len(q) - 1) : Tail(q)[j] = q[j + 1]
  BY <1>2, <1>3
<1>5. w \in Proposal BY <1>4 DEF Proposal
<1>6. w.cmd = c /\ w.stage \in {"propose", "failed"} /\ (w.stage # "failed" => ~failed[n]) /\ w # None
  BY <1>5, NoneAssumption
<1> DEFINE tl == Tail(q)
<1>7. /\ worker' = [worker EXCEPT ![n] = w] /\ queue' = [queue EXCEPT ![n] = tl]
      /\ tl \in Seq(Transaction) /\ Len(tl) = Len(q) - 1 /\ \A j \in 1..Len(tl) : tl[j] = q[j + 1]
  BY <1>2, <1>4
<1> HIDE DEF w, c, tl
<1>4a. Len(q) \in Nat /\ Len(q) >= 1 /\ 1 \in 1..Len(q) /\ q[1] = c BY <1>4
<1>8. /\ worker'[n] = w /\ queue'[n] = tl
      /\ \A m \in Node : m # n => worker'[m] = worker[m] /\ queue'[m] = queue[m]
      /\ worker' \in [Node -> Proposal \cup {None}] /\ queue' \in [Node -> Seq(Transaction)]
  BY <1>1, <1>5, <1>7 DEF Typed
<1>9. Typed' BY <1>1, <1>2, <1>8 DEF Typed, Committed
<1>10. Leaders' BY <1>1, <1>2 DEF Leaders, Authoritative, Term
<1>11. Term' = Term /\ \A r \in Rev : Used(r) => Used(r)' BY <1>2 DEF Used, Term
<1>12. ASSUME NEW j \in 1..Len(tl) PROVE j + 1 \in 1..Len(q) /\ tl[j] = q[j + 1] BY <1>4, <1>7
<1>13. ASSUME NEW m \in Node, NEW d \in Transaction
       PROVE  /\ (InQueue(m, d) \/ InWorker(m, d))' => InQueue(m, d) \/ InWorker(m, d)
              /\ Unsent(m, d)' => Unsent(m, d)
  <2>1. CASE m # n BY <1>8, <2>1 DEF InQueue, InWorker, Unsent
  <2>2. CASE m = n
    <3>1. InWorker(n, d)' => InQueue(n, d) BY <1>6, <1>8, <1>4a DEF InWorker, InQueue
    <3>2. InQueue(n, d)' => InQueue(n, d) BY <1>8, <1>12 DEF InQueue
    <3> QED BY <2>2, <3>1, <3>2 DEF Unsent
  <2> QED BY <2>1, <2>2
<1>14. QueueOrdered'
  <2> SUFFICES ASSUME NEW m \in Node
               PROVE  /\ \A i, j \in 1..Len(queue'[m]) : i < j => RevLess(queue'[m][i].rev, queue'[m][j].rev)
                      /\ worker'[m] # None =>
                           \A j \in 1..Len(queue'[m]) : RevLess(worker'[m].cmd.rev, queue'[m][j].rev)
    BY DEF QueueOrdered
  <2>1. CASE m # n BY <1>1, <1>8, <2>1 DEF Issue, QueueOrdered
  <2>2. CASE m = n
    <3>1. \A i, j \in 1..Len(q) : i < j => RevLess(q[i].rev, q[j].rev) BY <1>1 DEF Issue, QueueOrdered
    <3>2. ASSUME NEW i \in 1..Len(tl), NEW j \in 1..Len(tl), i < j PROVE RevLess(tl[i].rev, tl[j].rev)
      <4>1. /\ i + 1 \in 1..Len(q) /\ j + 1 \in 1..Len(q) /\ i + 1 < j + 1
            /\ tl[i] = q[i + 1] /\ tl[j] = q[j + 1]
        BY <1>12, <3>2
      <4> QED BY <3>1, <4>1
    <3>3. ASSUME NEW j \in 1..Len(tl) PROVE RevLess(w.cmd.rev, tl[j].rev)
      <4>1. 1 \in 1..Len(q) /\ j + 1 \in 1..Len(q) /\ 1 < j + 1 /\ tl[j] = q[j + 1] BY <1>4, <1>12
      <4> QED BY <1>4, <1>6, <3>1, <4>1
    <3> QED BY <1>8, <2>2, <3>2, <3>3
  <2> QED BY <2>1, <2>2
<1>15. Issue' BY <1>1, <1>2, <1>9, <1>11, <1>13, <1>14, IssueKept
<1>16. History' /\ Grow BY <1>2, HistoryKept
<1>17. Callers'
  <2> SUFFICES ASSUME NEW m \in Node, caller'[m] # None PROVE CallerKept(m)' BY DEF Callers
  <2>1. CASE m # n BY <1>2, <1>8, <1>9, <1>16, <2>1, CallerFrame
  <2>2. CASE m = n
    <3> DEFINE d == caller[n].cmd
    <3>1. CallerKept(n) /\ caller[n] # None /\ caller'[n] = caller[n] BY <1>2, <2>2 DEF Inv, Callers
    <3>2. caller[n].result = "pending" /\ q[Len(q)] = d BY <1>2, <3>1 DEF CallerKept, Quiet
    <3>3. \/ tl # <<>> /\ tl[Len(tl)] = d
          \/ tl = <<>> /\ w.cmd = d
      <4>1. CASE Len(q) = 1 BY <1>4, <1>6, <1>7, <3>2, <4>1
      <4>2. CASE Len(q) # 1
        <5>1. Len(tl) = Len(q) - 1 BY <1>7
        <5>2. \A a, b \in Nat : a # 1 /\ a >= 1 /\ b = a - 1 => b \in 1..b /\ b + 1 = a OBVIOUS
        <5>3. tl \in Seq(Transaction) BY <1>7
        <5>4. Len(tl) \in Nat BY <5>3
        <5>5. Len(tl) \in 1..Len(tl) /\ Len(tl) + 1 = Len(q) BY <1>4a, <4>2, <5>1, <5>2, <5>4
        <5> QED BY <1>7, <3>2, <5>5
      <4> QED BY <4>1, <4>2
    <3>4. \A k \in Key : wterm[n] = d.rev[1] /\ ~failed[n] =>
            IF k \in d.writes THEN caller[n].preview[k].rev = d.rev ELSE caller[n].preview[k] = view[n][k]
      BY <3>1, <3>2 DEF CallerKept
    <3> QED BY <1>2, <1>6, <1>8, <2>2, <3>1, <3>2, <3>3, <3>4 DEF CallerKept, InWorker
  <2> QED BY <2>1, <2>2
<1>18. Views' BY <1>2, <1>9, <1>11, <1>16, ViewFrame DEF Views
<1>19. Placed' BY <1>6, <1>8 DEF Inv, Placed
<1> QED BY <1>9, <1>10, <1>15, <1>16, <1>17, <1>18, <1>19 DEF Inv

\* The worker's proposal changes state; nothing else does but the log's end.
LEMMA WorkerStage ==
  ASSUME Inv, Typed', NEW n \in Node, worker[n] # None, worker'[n] # None,
         worker'[n].cmd = worker[n].cmd,
         worker'[n].stage # "failed" => worker[n].stage # "failed",
         \A m \in Node : m # n => worker'[m] = worker[m],
         \A i \in 1..Committed : log'[i] = log[i],
         UNCHANGED <<elections, hist, believes, view, wterm, seq, leaseTerm, failed, queue, caller, ackedSec>>
  PROVE  Leaders' /\ History' /\ Callers' /\ Views'
<1>1. Typed /\ Leaders BY DEF Inv
<1>2. Leaders' BY <1>1 DEF Leaders, Authoritative, Term
<1>3. History' /\ Grow BY HistoryKept
<1>4. Term' = Term BY DEF Term
<1>5. Callers'
  <2> SUFFICES ASSUME NEW m \in Node, caller'[m] # None PROVE CallerKept(m)' BY DEF Callers
  <2>1. CASE m # n BY <1>3, <2>1, CallerFrame
  <2>2. CASE m = n
    <3>1. CallerKept(n) /\ caller[n] # None BY <2>2 DEF Inv, Callers
    <3>2. caller[n].result = "pending" BY <3>1 DEF CallerKept, Quiet
    <3> QED BY <2>2, <3>1, <3>2 DEF CallerKept, InWorker
  <2> QED BY <2>1, <2>2
<1>6. Views' BY <1>3, <1>4, ViewFrame DEF Views
<1> QED BY <1>2, <1>3, <1>5, <1>6

\* The future fails.
LEMMA WorkerLostInv == ASSUME Inv, NEW n \in Node, WorkerLost(n) PROVE Inv'
<1>1. Typed /\ Issue BY DEF Inv
<1>2. /\ worker[n] # None /\ worker' = [worker EXCEPT ![n].stage = "failed"]
      /\ UNCHANGED <<elections, log, hist, applied, believes, view, wterm, seq, leaseTerm, failed,
                     queue, caller, ackedSec>>
  BY DEF WorkerLost, raftVars
<1>3. worker[n] \in Proposal BY <1>1, <1>2, Types
<1>4. /\ worker'[n] \in Proposal /\ worker'[n].cmd = worker[n].cmd /\ worker'[n].stage = "failed"
      /\ \A m \in Node : m # n => worker'[m] = worker[m]
  BY <1>1, <1>2, <1>3 DEF Typed, Proposal
<1>5. worker' \in [Node -> Proposal \cup {None}] BY <1>1, <1>2, <1>4 DEF Typed
<1>6. Typed' BY <1>1, <1>2, <1>5 DEF Typed, Committed
<1>7. worker'[n] # None BY <1>4, NoneAssumption
<1>8. Leaders' /\ History' /\ Callers' /\ Views' BY <1>2, <1>4, <1>6, <1>7, WorkerStage
<1>9. Term' = Term /\ Term \in Nat /\ \A r \in Rev : Used(r) => Used(r)' BY <1>1, <1>2, Types DEF Used, Term
<1>10. ASSUME NEW m \in Node, NEW d \in Transaction
       PROVE  /\ (InQueue(m, d) \/ InWorker(m, d))' => InQueue(m, d) \/ InWorker(m, d)
              /\ Unsent(m, d)' => Unsent(m, d)
  <2>1. CASE m # n BY <1>2, <1>4, <2>1 DEF InQueue, InWorker, Unsent
  <2>2. CASE m = n BY <1>2, <1>4, <2>2 DEF InQueue, InWorker, Unsent
  <2> QED BY <2>1, <2>2
<1>11. QueueOrdered'
  <2>1. \A m \in Node : worker'[m] # None => worker[m] # None /\ worker'[m].cmd = worker[m].cmd
    BY <1>2, <1>4
  <2> QED BY <1>1, <1>2, <2>1 DEF Issue, QueueOrdered
<1>12. Issue' BY <1>1, <1>2, <1>6, <1>9, <1>10, <1>11, Types, IssueKept
<1>13. Placed'
  <2>1. \A m \in Node : worker'[m] # None /\ worker'[m].stage = "wait" => m # n BY <1>4
  <2> QED BY <1>4, <2>1 DEF Inv, Placed
<1> QED BY <1>6, <1>8, <1>12, <1>13 DEF Inv

\* The worker's command is appended to the log of the term.
LEMMA ProposeIssue ==
  ASSUME Inv, Typed', NEW n \in Node, worker[n] # None, worker[n].stage = "propose",
         believes[n] # 0, believes[n] = Term,
         Len(log') = Len(log) + 1, \A i \in 1..Len(log) : log'[i] = log[i],
         log'[Len(log) + 1].term = Term, log'[Len(log) + 1].cmd = worker[n].cmd,
         worker'[n] # None, worker'[n].cmd = worker[n].cmd, worker'[n].stage = "wait",
         \A m \in Node : m # n => worker'[m] = worker[m],
         UNCHANGED <<elections, believes, wterm, seq, queue>>
  PROVE  Issue'
<1> DEFINE c == worker[n].cmd
           new == Len(log) + 1
<1>1. /\ Typed /\ Leaders /\ Issue /\ Term \in Nat /\ Term' = Term /\ Len(log) \in Nat
      /\ c \in Transaction /\ c.rev \in Rev /\ c.rev[1] \in Nat /\ c.rev[2] \in Nat
  BY Types, RevPair DEF Inv, Term
<1>2. InWorker(n, c) /\ Unsent(n, c) BY DEF InWorker, Unsent
<1>3. Used(c.rev) /\ elections[c.rev[1]] = n BY <1>1, <1>2 DEF Issue, PipelineUsed
<1>4. \A r : Used(r)' <=> Used(r) BY <1>1 DEF Used
<1>5. ASSUME NEW i \in 1..Len(log')
      PROVE  (i \in 1..Len(log) /\ log'[i] = log[i]) \/ (i = new /\ log'[i].cmd = c /\ log'[i].term = Term)
  BY <1>1, <1>5
<1>6. ASSUME NEW m \in Node, NEW d \in Transaction
      PROVE  /\ InQueue(m, d)' <=> InQueue(m, d)
             /\ InWorker(m, d)' <=> InWorker(m, d)
             /\ Unsent(m, d)' => Unsent(m, d) /\ (m = n => InQueue(m, d))
  <2>1. CASE m = n BY <1>2, <2>1 DEF InQueue, InWorker, Unsent
  <2>2. CASE m # n BY <2>2 DEF InQueue, InWorker, Unsent
  <2> QED BY <2>1, <2>2
<1> HIDE DEF c, new
<1>7. LogUsed'
  <2> SUFFICES ASSUME NEW i \in 1..Len(log') PROVE Used(log[i].cmd.rev)' /\ log'[i].term <= Term'
    BY DEF LogUsed
  <2> QED BY <1>1, <1>3, <1>4, <1>5 DEF Issue, LogUsed
<1>8. PipelineUsed'
  <2> SUFFICES ASSUME NEW m \in Node, NEW d \in Transaction, InQueue(m, d)' \/ InWorker(m, d)'
               PROVE  Used(d.rev)' /\ elections'[d.rev[1]] = m
    BY DEF PipelineUsed
  <2>1. InQueue(m, d) \/ InWorker(m, d) BY <1>6
  <2>2. Used(d.rev) /\ elections[d.rev[1]] = m BY <1>1, <2>1 DEF Issue, PipelineUsed
  <2> QED BY <1>4, <2>2
<1>9. QueueOrdered'
  <2>1. \A m \in Node : worker'[m] # None => worker[m] # None /\ worker'[m].cmd = worker[m].cmd
    OBVIOUS
  <2> QED BY <1>1, <2>1 DEF Issue, QueueOrdered
<1>10. UnsentLater'
  <2> SUFFICES ASSUME NEW m \in Node, NEW d \in Transaction, Unsent(m, d)', NEW i \in 1..Len(log'),
                      log'[i].cmd.rev[1] = d.rev[1]
               PROVE  log'[i].cmd.rev[2] < d.rev[2]
    BY DEF UnsentLater
  <2>1. Unsent(m, d) /\ (m = n => InQueue(m, d)) BY <1>6
  <2>2. CASE i \in 1..Len(log) /\ log'[i] = log[i] BY <1>1, <2>1, <2>2 DEF Issue, UnsentLater
  <2>3. CASE i = new /\ log'[i].cmd = c
    <3>1. elections[d.rev[1]] = m BY <1>1, <2>1 DEF Issue, PipelineUsed, Unsent
    <3>2. m = n BY <1>3, <2>3, <3>1
    <3>3. PICK j \in 1..Len(queue[n]) : queue[n][j] = d BY <2>1, <3>2 DEF InQueue
    <3>4. RevLess(c.rev, d.rev) BY <1>1, <3>3 DEF Issue, QueueOrdered, c
    <3> QED BY <2>3, <3>4, <1>1 DEF RevLess
  <2> QED BY <1>5, <2>2, <2>3
<1>11. LogOrdered'
  <2> SUFFICES ASSUME NEW i \in 1..Len(log'), NEW j \in 1..Len(log'), i < j
               PROVE  /\ log'[i].term <= log'[j].term
                      /\ log'[i].cmd.rev[1] = log'[j].cmd.rev[1] => log'[i].cmd.rev[2] < log'[j].cmd.rev[2]
    BY DEF LogOrdered
  <2>1. i \in 1..Len(log) /\ log'[i] = log[i] BY <1>1
  <2>2. CASE j \in 1..Len(log) /\ log'[j] = log[j] BY <1>1, <2>1, <2>2 DEF Issue, LogOrdered
  <2>3. CASE j = new /\ log'[j].cmd = c /\ log'[j].term = Term
    <3>1. log[i].term <= Term BY <1>1, <2>1 DEF Issue, LogUsed
    <3>2. log[i].cmd.rev[1] = c.rev[1] => log[i].cmd.rev[2] < c.rev[2]
      BY <1>1, <1>2, <2>1 DEF Issue, UnsentLater
    <3> QED BY <2>1, <2>3, <3>1, <3>2
  <2> QED BY <1>5, <2>2, <2>3
<1> QED BY <1>7, <1>8, <1>9, <1>10, <1>11 DEF Issue

\* The worker proposes to Raft.
LEMMA WorkerProposeInv == ASSUME Inv, NEW n \in Node, WorkerPropose(n) PROVE Inv'
<1> DEFINE e == [term |-> Term, cmd |-> worker[n].cmd]
<1>1. Typed /\ Issue /\ Term \in Nat /\ Len(log) \in Nat BY Types DEF Inv
<1>2. /\ worker[n] # None /\ worker[n].stage = "propose" /\ believes[n] # 0 /\ believes[n] = Term
      /\ log' = Append(log, e)
      /\ worker' = [worker EXCEPT ![n] =
                    [cmd |-> worker[n].cmd, stage |-> "wait", term |-> Term, at |-> Len(log) + 1]]
      /\ UNCHANGED <<elections, hist, applied, believes, view, wterm, seq, leaseTerm, failed, queue,
                     caller, ackedSec>>
  BY DEF WorkerPropose
<1>3. worker[n] \in Proposal /\ worker[n].cmd \in Transaction BY <1>1, <1>2, Types
<1>4. e \in Entry /\ e.term = Term /\ e.cmd = worker[n].cmd BY <1>1, <1>3 DEF Entry
<1> HIDE DEF e
<1>5. /\ log' \in Seq(Entry) /\ Len(log') = Len(log) + 1 /\ log'[Len(log) + 1] = e
      /\ \A i \in 1..Len(log) : log'[i] = log[i]
  BY <1>1, <1>2, <1>4 DEF Typed
<1>6. /\ worker'[n] \in Proposal /\ worker'[n].cmd = worker[n].cmd /\ worker'[n].stage = "wait"
      /\ worker'[n].at = Len(log) + 1 /\ \A m \in Node : m # n => worker'[m] = worker[m]
  <2> DEFINE w == [cmd |-> worker[n].cmd, stage |-> "wait", term |-> Term, at |-> Len(log) + 1]
  <2>1. w \in Proposal /\ w.cmd = worker[n].cmd /\ w.stage = "wait" /\ w.at = Len(log) + 1
    BY <1>1, <1>3 DEF Proposal
  <2>2. worker \in [Node -> Proposal \cup {None}] /\ worker' = [worker EXCEPT ![n] = w]
    BY <1>1, <1>2 DEF Typed
  <2> HIDE DEF w
  <2>3. worker'[n] = w /\ \A m \in Node : m # n => worker'[m] = worker[m] BY <2>2
  <2> QED BY <2>1, <2>3
<1>7. worker' \in [Node -> Proposal \cup {None}] BY <1>1, <1>2, <1>6 DEF Typed
<1>8. Committed' = Committed /\ Committed <= Len(log) /\ Committed \in Nat
  BY <1>1, <1>2, Types DEF Typed, Committed
<1>9. Typed'
  <2>1. Len(log') >= Committed BY <1>1, <1>5, <1>8
  <2> QED BY <1>1, <1>2, <1>5, <1>7, <1>8, <2>1, SMTT(30) DEF Typed
<1>10. worker'[n] # None BY <1>6, NoneAssumption
<1>11. \A i \in 1..Committed : log'[i] = log[i] BY <1>1, <1>5, <1>8
<1>12. Leaders' /\ History' /\ Callers' /\ Views' BY <1>2, <1>6, <1>9, <1>10, <1>11, WorkerStage
<1>13. Issue' BY <1>2, <1>4, <1>5, <1>6, <1>9, <1>10, ProposeIssue
<1>14. Placed' BY <1>1, <1>6 DEF Inv, Placed
<1> QED BY <1>9, <1>12, <1>13, <1>14 DEF Inv

\* A proposal that succeeded is committed, and so is what it wrote or something newer.
LEMMA AnsweredCommitted ==
  ASSUME Inv, NEW n \in Node, worker[n] # None, WorkerAnswered(n),
         Accepts(hist[worker[n].at], worker[n].cmd, worker[n].term)
  PROVE  /\ \E i \in 1..Committed : log[i].cmd.rev = worker[n].cmd.rev
         /\ \A k \in worker[n].cmd.writes : RevLeq(worker[n].cmd.rev, Last[k].rev)
<1> DEFINE w == worker[n]
<1>1. Typed /\ History /\ Committed \in Nat /\ Len(hist) = Committed + 1 /\ w \in Proposal /\ w.cmd \in Transaction
  BY Types DEF Inv
<1>2. w.at \in Nat /\ w.at >= 1 /\ w.at <= applied[n] /\ applied[n] \in Nat /\ applied[n] <= Committed
  BY <1>1 DEF Inv, Placed, WorkerAnswered, Typed, Proposal
<1>3. w.at \in 1..Committed /\ w.at \in 1..Len(hist) /\ w.at + 1 \in 1..Len(hist) BY <1>1, <1>2
<1>4. log[w.at].cmd = w.cmd /\ log[w.at].term = w.term BY DEF WorkerAnswered
<1>5. hist[w.at] \in States /\ w.cmd.writes \subseteq Key BY <1>1, <1>3, Types DEF Transaction
<1>6. hist[w.at + 1] = Install(hist[w.at], w.cmd) BY <1>1, <1>3, <1>4 DEF History, Apply
<1>7. ASSUME NEW k \in w.cmd.writes PROVE RevLeq(w.cmd.rev, Last[k].rev)
  <2>1. k \in Key /\ hist[w.at + 1][k].rev = w.cmd.rev BY <1>1, <1>5, <1>6, InstallTyped
  <2>2. RevLeq(hist[w.at + 1][k].rev, Last[k].rev) BY <1>1, <1>3, <2>1 DEF History
  <2> QED BY <2>1, <2>2
<1> QED BY <1>3, <1>4, <1>7

\* The proposal is settled; what becomes of the waiting caller.
LEMMA SettleCaller ==
  ASSUME Inv, NEW n \in Node, worker[n] # None, NEW ok \in BOOLEAN,
         ok => worker[n].stage = "wait" /\ WorkerAnswered(n)
               /\ Accepts(hist[worker[n].at], worker[n].cmd, worker[n].term),
         failed'[n] <=> (failed[n] \/ (~ok /\ wterm[n] = worker[n].cmd.rev[1])),
         caller' = IF caller[n] # None /\ caller[n].cmd = worker[n].cmd
                   THEN [caller EXCEPT ![n] = [caller[n] EXCEPT !.result = IF ok THEN "ok" ELSE "error"]]
                   ELSE caller,
         worker'[n] = None,
         UNCHANGED <<log, hist, view, wterm, queue>>
  PROVE  caller'[n] # None => CallerKept(n)'
<1> DEFINE w == worker[n]
           c == caller[n].cmd
<1>1. Typed /\ Issue BY DEF Inv
<1>2. CASE caller[n] = None BY <1>2
<1>3. CASE caller[n] # None
  <2>1. CallerKept(n) /\ caller[n] \in Waiting /\ c \in Transaction BY <1>1, <1>3, Types DEF Inv, Callers
  <2>2. caller[n].result = "pending" BY <2>1 DEF CallerKept, Quiet
  <2>3. \A k \in Key : wterm[n] = c.rev[1] /\ ~failed[n] =>
          IF k \in c.writes THEN caller[n].preview[k].rev = c.rev ELSE caller[n].preview[k] = view[n][k]
    BY <2>1, <2>2 DEF CallerKept
  <2>4. ~failed'[n] => ~failed[n] OBVIOUS
  <2>5. \A d : ~InWorker(n, d)' BY DEF InWorker
  <2>6. CASE c # w.cmd
    <3>1. caller'[n] = caller[n] BY <2>6
    <3>2. queue[n] # <<>> /\ queue[n][Len(queue[n])] = c BY <2>1, <2>2, <2>6 DEF CallerKept, InWorker
    <3> QED BY <2>2, <2>3, <2>4, <2>5, <3>1, <3>2 DEF CallerKept
  <2>7. CASE c = w.cmd
    <3> DEFINE r == [caller[n] EXCEPT !.result = IF ok THEN "ok" ELSE "error"]
    <3>1. caller' = [caller EXCEPT ![n] = r] BY <1>3, <2>7
    <3>2. r.cmd = c /\ r.preview = caller[n].preview /\ r.result = IF ok THEN "ok" ELSE "error"
      BY <2>1 DEF Waiting
    <3> HIDE DEF r
    <3>3. caller'[n] = r BY <1>1, <3>1 DEF Typed
    <3>4. queue[n] = <<>>
      <4>1. SUFFICES ASSUME queue[n] # <<>> PROVE FALSE OBVIOUS
      <4>2. queue[n][Len(queue[n])] = c BY <2>1, <2>2, <4>1 DEF CallerKept
      <4>3. queue[n] \in Seq(Transaction) BY <1>1 DEF Typed
      <4>4. Len(queue[n]) \in 1..Len(queue[n]) BY <4>1, <4>3
      <4>5. RevLess(c.rev, c.rev) BY <1>1, <2>7, <4>2, <4>4 DEF Issue, QueueOrdered
      <4>6. c.rev[1] \in Nat /\ c.rev[2] \in Nat BY <2>1, RevPair DEF Transaction
      <4> QED BY <4>5, <4>6 DEF RevLess
    <3>5. Quiet(n)' BY <3>4 DEF Quiet
    <3>6. CASE ~ok BY <2>5, <3>2, <3>3, <3>5, <3>6 DEF CallerKept
    <3>7. CASE ok
      <4>1. /\ \E i \in 1..Committed : log[i].cmd.rev = c.rev
            /\ \A k \in c.writes : RevLeq(c.rev, Last[k].rev)
        BY <2>7, <3>7, AnsweredCommitted
      <4>2. wterm[n] = c.rev[1] => ~failed'[n] BY <2>1, <2>7, <3>7 DEF CallerKept, InWorker
      <4>3. Committed' = Committed /\ Last' = Last BY DEF Committed, Last
      <4> QED BY <2>3, <2>4, <2>5, <3>2, <3>3, <3>5, <3>7, <4>1, <4>2, <4>3 DEF CallerKept
    <3> QED BY <3>6, <3>7
  <2> QED BY <2>6, <2>7
<1> QED BY <1>2, <1>3

\* The worker settles its proposal.
LEMMA WorkerSettleInv == ASSUME Inv, NEW n \in Node, WorkerSettle(n) PROVE Inv'
<1> DEFINE w == worker[n]
           Fine(synced) == w.stage = "wait" /\ Accepts(hist[w.at], w.cmd, w.term) /\ synced
<1>1. Typed /\ Leaders /\ Issue /\ Term \in Nat /\ Len(log) \in Nat BY Types DEF Inv
<1>2. PICK synced \in BOOLEAN :
        /\ failed' = [failed EXCEPT ![n] = @ \/ (~Fine(synced) /\ wterm[n] = w.cmd.rev[1])]
        /\ caller' = IF caller[n] # None /\ caller[n].cmd = w.cmd
                     THEN [caller EXCEPT ![n] = [caller[n] EXCEPT !.result = IF Fine(synced) THEN "ok" ELSE "error"]]
                     ELSE caller
  BY DEF WorkerSettle
<1>3. /\ w # None /\ (w.stage = "failed" \/ WorkerAnswered(n)) /\ worker' = [worker EXCEPT ![n] = None]
      /\ UNCHANGED <<elections, log, hist, applied, believes, view, wterm, seq, leaseTerm, queue, ackedSec>>
  BY DEF WorkerSettle, raftVars
<1> DEFINE ok == Fine(synced)
<1>4. ok \in BOOLEAN /\ (ok => w.stage = "wait" /\ WorkerAnswered(n) /\ Accepts(hist[w.at], w.cmd, w.term))
  BY <1>3
<1>5. /\ failed' = [failed EXCEPT ![n] = @ \/ (~ok /\ wterm[n] = w.cmd.rev[1])]
      /\ caller' = IF caller[n] # None /\ caller[n].cmd = w.cmd
                   THEN [caller EXCEPT ![n] = [caller[n] EXCEPT !.result = IF ok THEN "ok" ELSE "error"]]
                   ELSE caller
  BY <1>2
<1> HIDE DEF ok, Fine
<1>6. /\ failed' \in [Node -> BOOLEAN]
      /\ failed'[n] <=> (failed[n] \/ (~ok /\ wterm[n] = w.cmd.rev[1]))
      /\ \A m \in Node : m # n => failed'[m] = failed[m]
  <2> DEFINE cond == ~ok /\ wterm[n] = w.cmd.rev[1]
  <2>1. failed \in [Node -> BOOLEAN] /\ cond \in BOOLEAN /\ failed' = [failed EXCEPT ![n] = @ \/ cond]
    BY <1>1, <1>5 DEF Typed
  <2> HIDE DEF cond
  <2>2. /\ failed' \in [Node -> BOOLEAN] /\ (failed'[n] <=> (failed[n] \/ cond))
        /\ \A m \in Node : m # n => failed'[m] = failed[m]
    BY <2>1, Zenon
  <2> QED BY <2>2 DEF cond
<1>7. worker' \in [Node -> Proposal \cup {None}] /\ worker'[n] = None
      /\ \A m \in Node : m # n => worker'[m] = worker[m]
  BY <1>1, <1>3 DEF Typed
<1>8. caller' \in [Node -> Waiting \cup {None}] /\ \A m \in Node : m # n => caller'[m] = caller[m]
  <2>1. caller \in [Node -> Waiting \cup {None}] BY <1>1 DEF Typed
  <2>2. CASE caller[n] # None /\ caller[n].cmd = w.cmd
    <3> DEFINE r == [caller[n] EXCEPT !.result = IF ok THEN "ok" ELSE "error"]
    <3>1. caller' = [caller EXCEPT ![n] = r] BY <1>5, <2>2
    <3>2. r \in Waiting BY <2>1, <2>2 DEF Waiting
    <3> HIDE DEF r
    <3> QED BY <2>1, <3>1, <3>2
  <2>3. CASE ~(caller[n] # None /\ caller[n].cmd = w.cmd) BY <1>5, <2>1, <2>3
  <2> QED BY <2>2, <2>3
<1>9. Typed' BY <1>1, <1>3, <1>6, <1>7, <1>8 DEF Typed, Committed
<1>10. \A m \in Node : ~failed'[m] => ~failed[m] BY <1>6
<1>11. Leaders' BY <1>1, <1>3, <1>10 DEF Leaders, Authoritative, Term
<1>12. Term' = Term /\ \A r \in Rev : Used(r) => Used(r)' BY <1>3 DEF Used, Term
<1>13. \A m \in Node : \A d \in Transaction :
          /\ (InQueue(m, d) \/ InWorker(m, d))' => InQueue(m, d) \/ InWorker(m, d)
          /\ Unsent(m, d)' => Unsent(m, d)
  <2> SUFFICES ASSUME NEW m \in Node, NEW d \in Transaction
               PROVE  /\ (InQueue(m, d) \/ InWorker(m, d))' => InQueue(m, d) \/ InWorker(m, d)
                      /\ Unsent(m, d)' => Unsent(m, d)
    OBVIOUS
  <2>1. InQueue(m, d)' => InQueue(m, d) BY <1>3 DEF InQueue
  <2>2. CASE m = n BY <1>7, <2>1, <2>2 DEF InWorker, Unsent
  <2>3. CASE m # n BY <1>7, <2>1, <2>3 DEF InWorker, Unsent
  <2> QED BY <2>2, <2>3
<1>14. QueueOrdered'
  <2>1. \A m \in Node : worker'[m] # None => worker'[m] = worker[m] BY <1>7
  <2> QED BY <1>1, <1>3, <2>1 DEF Issue, QueueOrdered
<1>15. Issue' BY <1>1, <1>3, <1>9, <1>12, <1>13, <1>14, IssueKept
<1>16. History' /\ Grow BY <1>3, HistoryKept
<1>17. Callers'
  <2> SUFFICES ASSUME NEW m \in Node, caller'[m] # None PROVE CallerKept(m)' BY DEF Callers
  <2>1. CASE m # n BY <1>3, <1>6, <1>7, <1>8, <1>9, <1>16, <2>1, CallerFrame
  <2>2. CASE m = n BY <1>3, <1>4, <1>5, <1>6, <1>7, <2>2, SettleCaller
  <2> QED BY <2>1, <2>2
<1>18. Views' BY <1>3, <1>9, <1>10, <1>12, <1>16, ViewFrame DEF Views
<1>19. Placed'
  <2>1. \A m \in Node : worker'[m] # None => worker'[m] = worker[m] BY <1>7
  <2> QED BY <2>1 DEF Inv, Placed
<1> QED BY <1>9, <1>11, <1>15, <1>16, <1>17, <1>18, <1>19 DEF Inv

-----------------------------------------------------------------------------
(* The invariant *)

\* Nothing is elected, issued or committed at the start.
LEMMA InitInv == Init => Inv
<1> SUFFICES ASSUME Init PROVE Inv OBVIOUS
<1>1. NoRecords \in States /\ \A k \in Key : NoRecords[k].rev = NoRev
  BY DEF NoRecords, States, Record, NoRev, Rev
<1>2. NoRev \in Rev BY DEF NoRev, Rev
<1> HIDE DEF NoRecords, NoRev
<1>3. /\ elections = <<>> /\ log = <<>> /\ hist = <<NoRecords>>
      /\ Len(elections) = 0 /\ Len(log) = 0 /\ Len(hist) = 1 /\ hist[1] = NoRecords
  BY DEF Init
<1>4. Term = 0 /\ Committed = 0 /\ Last = NoRecords BY <1>3 DEF Term, Committed, Last
<1>5. elections \in Seq(Node) /\ log \in Seq(Entry) /\ hist \in Seq(States) BY <1>1, <1>3
<1>6. <<>> \in Seq(Transaction) OBVIOUS
<1>7. /\ applied \in [Node -> Nat] /\ \A n \in Node : applied[n] = 0
      /\ believes \in [Node -> Nat] /\ \A n \in Node : believes[n] = 0
      /\ leaseTerm \in [Node -> Nat] /\ seq \in [Node -> Nat]
      /\ wterm \in [Node -> Nat] /\ \A n \in Node : wterm[n] = 0
      /\ view \in [Node -> States] /\ \A n \in Node : view[n] = NoRecords
      /\ failed \in [Node -> BOOLEAN] /\ ackedSec \in [Key -> Rev] /\ \A k \in Key : ackedSec[k] = NoRev
  BY <1>1, <1>2 DEF Init
<1>8. /\ queue \in [Node -> Seq(Transaction)] /\ \A n \in Node : queue[n] = <<>> /\ Len(queue[n]) = 0
      /\ worker \in [Node -> Proposal \cup {None}] /\ \A n \in Node : worker[n] = None
      /\ caller \in [Node -> Waiting \cup {None}] /\ \A n \in Node : caller[n] = None
  BY <1>6 DEF Init
<1>9. Typed BY <1>3, <1>4, <1>5, <1>7, <1>8 DEF Typed
<1>10. Leaders BY <1>7 DEF Leaders, Authoritative
<1>11. Issue
  <2>1. LogUsed /\ LogOrdered BY <1>3 DEF LogUsed, LogOrdered
  <2>2. QueueOrdered BY <1>8 DEF QueueOrdered
  <2>3. \A n \in Node : \A c \in Transaction : ~InQueue(n, c) /\ ~InWorker(n, c) BY <1>8 DEF InQueue, InWorker
  <2>4. PipelineUsed /\ UnsentLater BY <2>3 DEF PipelineUsed, UnsentLater, Unsent
  <2> QED BY <2>1, <2>2, <2>4 DEF Issue
<1>12. History BY <1>1, <1>2, <1>3, <1>4, <1>7, RevOrder DEF History
<1>13. Callers /\ Placed BY <1>8 DEF Callers, Placed
<1>14. Views BY <1>1, <1>7, KeysAssumption DEF Views, CommittedRev
<1> QED BY <1>9, <1>10, <1>11, <1>12, <1>13, <1>14 DEF Inv

\* Every step keeps the invariant.
LEMMA NextInv == Inv /\ [Next]_vars => Inv'
<1> SUFFICES ASSUME Inv, [Next]_vars PROVE Inv' OBVIOUS
<1>1. CASE RaftCommit BY <1>1, CommitInv
<1>2. CASE VoterJoins
  <2>1. CASE \E n \in Node : TRUE BY <1>2, <2>1, CalmActions
  <2>2. CASE ~\E n \in Node : TRUE
    <3>1. UNCHANGED <<elections, log, hist, applied, believes, view, wterm, seq, leaseTerm, failed, queue,
                      worker, caller, ackedSec>>
      BY <1>2 DEF VoterJoins, writerVars
    <3>2. Typed' BY <3>1 DEF Inv, Typed, Committed
    <3>3. Leaders' BY <2>2 DEF Leaders
    <3> QED BY <2>2, <3>1, <3>2, <3>3, CalmStep
  <2> QED BY <2>1, <2>2
<1>3. CASE \E n \in Node :
        \/ Elect(n) \/ StepDown(n) \/ FsmApply(n) \/ RenewLease(n) \/ LeaseExpires(n)
        \/ TransferLeadership(n) \/ Ensure(n) \/ CallerDone(n) \/ CallerTimeout(n) \/ Restart(n)
  BY <1>3, ElectInv, CalmActions, TransferInv, EnsureInv, CallerDoneInv, CallerTimeoutInv, RestartInv
<1>4. CASE \E n \in Node : Worker(n)
  BY <1>4, WorkerTakeInv, WorkerProposeInv, WorkerLostInv, WorkerSettleInv DEF Worker
<1>5. CASE \E n \in Node : \E s \in Shapes :
        CommitRefused(n, s) \/ CommitFenced(n, s) \/ CommitLocal(n, s) \/ CommitReplicated(n, s)
  BY <1>5, CommitRefusedInv, CommitFencedInv, CommitLocalInv, CommitReplicatedInv
<1>6. CASE UNCHANGED vars
  <2>1. UNCHANGED <<elections, log, hist, applied, believes, view, wterm, seq, leaseTerm, failed, queue,
                    worker, caller, ackedSec>>
    BY <1>6 DEF vars
  <2>2. Typed' BY <2>1 DEF Inv, Typed, Committed
  <2>3. Leaders' BY <2>1 DEF Inv, Leaders, Authoritative, Term
  <2>4. \A n \in Node : seq'[n] >= seq[n] BY <2>1 DEF Inv, Typed
  <2> QED BY <2>1, <2>2, <2>3, <2>4, CalmStep
<1> QED BY <1>1, <1>2, <1>3, <1>4, <1>5, <1>6 DEF Next

\* The invariant holds of every state.
LEMMA Invariant == Spec => []Inv
BY InitInv, NextInv, PTL DEF Spec

\* term<<32|sequence names at most one transaction of the log, through failures
\* inside a term, elections, restarts and lost entries (commit and ensure in
\* async.go), for every number of nodes and every bound.
THEOREM RevisionsUnique == Spec => []RevisionUnique
<1>1. Inv => RevisionUnique
  <2> SUFFICES ASSUME Inv, NEW i \in 1..Len(log), NEW j \in 1..Len(log), log[i].cmd.rev = log[j].cmd.rev
               PROVE  i = j
    BY DEF RevisionUnique
  <2>1. LogOrdered /\ log[i].cmd.rev \in Rev BY Types DEF Inv, Issue
  <2>2. log[i].cmd.rev[2] \in Nat BY <2>1, RevPair
  <2>3. CASE i < j BY <2>1, <2>2, <2>3 DEF LogOrdered
  <2>4. CASE j < i BY <2>1, <2>2, <2>4 DEF LogOrdered
  <2> QED BY <2>3, <2>4
<1> QED BY <1>1, Invariant, PTL

\* "no uncommitted security write is exposed through it" (asyncWriter): what a
\* served view says of a security key was committed by Raft.
THEOREM NoPolicySpeculated == Spec => []NoSpeculativePolicy
<1>1. Inv => NoSpeculativePolicy
  BY DEF Inv, Views, NoSpeculativePolicy, CommittedRev, CommittedRevs
<1> QED BY <1>1, Invariant, PTL

\* Every view that may be served, on whichever node, reflects every acknowledged
\* security write or a later one (readSnapshot, commit and ensure in async.go).
THEOREM AckedPoliciesServed == Spec => []AckedPolicyServed
<1>1. Inv => AckedPolicyServed
  <2> SUFFICES ASSUME Inv, NEW n \in Node, Serving(n), NEW k \in Secure
               PROVE  RevLeq(ackedSec[k], view[n][k].rev)
    BY DEF AckedPolicyServed
  <2>1. Term # 0 /\ wterm[n] = Term /\ ~failed[n] BY ServingLeads
  <2> QED BY <2>1 DEF Inv, Views
<1> QED BY <1>1, Invariant, PTL

-----------------------------------------------------------------------------
(* What waits, and the journal *)

\* What waits at n belongs to the term of its view.
PipelineTerm ==
    \A n \in Node : \A c \in Transaction : InQueue(n, c) \/ InWorker(n, c) => c.rev[1] = wterm[n]

\* The journal holds a revision for everything outstanding, and nothing that is
\* still to be issued.
JournalKept(n) ==
    /\ IsFiniteSet(journal[n]) /\ journal[n] \subseteq Rev
    /\ Outstanding(n) <= Cardinality(journal[n]) /\ Cardinality(journal[n]) <= MaxPending
    /\ \A j \in 1..Len(queue[n]) : queue[n][j].rev \in journal[n]
    /\ worker[n] # None => worker[n].cmd.rev \in journal[n]
    /\ wterm[n] # 0 => \A r \in journal[n] : r[1] = wterm[n] /\ r[2] <= seq[n]

\* Views hold issued revisions, and none after that of the commit that waits.
ViewsUsed == \A n \in Node, k \in Key : view[n][k].rev = NoRev \/ Used(view[n][k].rev)

CallerNewest ==
    \A n \in Node :
        caller[n] # None /\ caller[n].result # "error" /\ wterm[n] = caller[n].cmd.rev[1] /\ ~failed[n] =>
            \A k \in Key : RevLeq(view[n][k].rev, caller[n].cmd.rev)

Bounds == voters \in {1, 2} /\ \A n \in Node : leaseTerm[n] <= Term

Waits ==
    /\ PipelineTerm /\ ViewsUsed /\ CallerNewest /\ Bounds
    /\ journal \in [Node -> SUBSET Rev] /\ \A n \in Node : JournalKept(n)

\* Raft's own steps, and the heartbeat's.
RaftStep ==
    \/ RaftCommit \/ VoterJoins
    \/ \E n \in Node : Elect(n) \/ StepDown(n) \/ FsmApply(n) \/ TransferLeadership(n)
LeaseStep == \E n \in Node : RenewLease(n) \/ LeaseExpires(n)

\* Raft's steps leave the writer alone; terms only grow.
LEMMA RaftFrame ==
  ASSUME Inv, RaftStep
  PROVE  /\ UNCHANGED <<view, wterm, seq, leaseTerm, failed, journal, queue, worker, caller, ackedSec>>
         /\ Term' >= Term
         /\ \A m \in Node : believes'[m] = 0 \/ believes'[m] > Term \/ believes'[m] = believes[m]
<1>1. Typed /\ Term \in Nat BY Types DEF Inv
<1>2. UNCHANGED <<view, wterm, seq, leaseTerm, failed, journal, queue, worker, caller, ackedSec>>
  BY DEF RaftStep, RaftCommit, VoterJoins, Elect, StepDown, FsmApply, TransferLeadership, writerVars
<1>3. CASE UNCHANGED <<elections, believes>> BY <1>1, <1>2, <1>3 DEF Term
<1>4. ASSUME NEW n \in Node, UNCHANGED elections, believes' = [believes EXCEPT ![n] = 0]
      PROVE  Term' >= Term /\ \A m \in Node : believes'[m] = 0 \/ believes'[m] = believes[m]
  BY <1>1, <1>4 DEF Typed, Term
<1>5. ASSUME NEW n \in Node, elections' = Append(elections, n), believes' = [believes EXCEPT ![n] = Term + 1]
      PROVE  Term' >= Term /\ \A m \in Node : believes'[m] > Term \/ believes'[m] = believes[m]
  <2>1. Len(Append(elections, n)) = Len(elections) + 1 BY <1>1 DEF Typed
  <2>2. Term' = Term + 1 BY <1>5, <2>1 DEF Term
  <2> QED BY <1>1, <1>5, <2>2 DEF Typed
<1>6. \/ UNCHANGED <<elections, believes>>
      \/ \E n \in Node : UNCHANGED elections /\ believes' = [believes EXCEPT ![n] = 0]
      \/ \E n \in Node : elections' = Append(elections, n) /\ believes' = [believes EXCEPT ![n] = Term + 1]
  BY DEF RaftStep, RaftCommit, VoterJoins, Elect, StepDown, FsmApply, TransferLeadership
<1> QED BY <1>2, <1>3, <1>4, <1>5, <1>6

\* What was issued stays issued.
LEMMA UsedGrows == ASSUME Inv, Inv', [Next]_vars, NEW r \in Rev, Used(r) PROVE Used(r)'
<1>1. /\ Typed /\ Term \in Nat /\ Term' \in Nat /\ seq \in [Node -> Nat] /\ seq' \in [Node -> Nat]
      /\ r[1] \in Nat /\ r[1] # 0 /\ r[1] <= Term
  BY Types, TypesNext, RevPair DEF Inv, Typed, Used
<1> DEFINE Keeps(m) == believes'[m] = r[1] =>
             believes[m] = r[1] /\ (wterm[m] = r[1] => wterm'[m] = r[1] /\ seq'[m] >= seq[m])
<1>2. SUFFICES Term' >= Term /\ \A m \in Node : Keeps(m) BY <1>1, UsedStays
<1>3. CASE RaftStep
  <2>1. /\ UNCHANGED <<wterm, seq>> /\ Term' >= Term
        /\ \A m \in Node : believes'[m] = 0 \/ believes'[m] > Term \/ believes'[m] = believes[m]
    BY <1>3, RaftFrame
  <2> QED BY <1>1, <2>1
<1>4. CASE UNCHANGED <<elections, believes, wterm>> /\ \A m \in Node : seq'[m] >= seq[m]
  BY <1>1, <1>4 DEF Term
<1>5. ASSUME NEW n \in Node, seq' = [seq EXCEPT ![n] = @ + 1] PROVE \A m \in Node : seq'[m] >= seq[m]
  BY <1>1, <1>5
<1>6. UNCHANGED seq => \A m \in Node : seq'[m] >= seq[m] BY <1>1
<1>7. ASSUME NEW n \in Node, NEW s \in Shapes,
             CommitRefused(n, s) \/ CommitFenced(n, s) \/ CommitLocal(n, s) \/ CommitReplicated(n, s)
      PROVE  UNCHANGED <<elections, believes, wterm>> /\ \A m \in Node : seq'[m] >= seq[m]
  BY <1>5, <1>7 DEF CommitRefused, CommitFenced, CommitLocal, CommitReplicated, Enqueue, raftVars
<1>8. CASE LeaseStep \/ UNCHANGED vars BY <1>4, <1>6, <1>8 DEF LeaseStep, RenewLease, LeaseExpires, raftVars, vars
<1>9. ASSUME NEW n \in Node, CallerDone(n) \/ CallerTimeout(n) \/ Worker(n)
      PROVE  UNCHANGED <<elections, believes, wterm, seq>>
  BY <1>9 DEF CallerDone, CallerTimeout, Worker, WorkerTake, WorkerPropose, WorkerLost, WorkerSettle, raftVars
<1>10. ASSUME NEW n \in Node, Ensure(n) PROVE Term' >= Term /\ \A m \in Node : Keeps(m)
  <2>1. /\ believes[n] = Term /\ UNCHANGED <<elections, believes>>
        /\ seq' = [seq EXCEPT ![n] = IF wterm[n] # Term THEN 0 ELSE seq[n]]
        /\ wterm' = [wterm EXCEPT ![n] = Term] /\ wterm \in [Node -> Nat]
    BY <1>1, <1>10 DEF Ensure, raftVars, FirstSequence, Typed
  <2>2. Term' = Term BY <2>1 DEF Term
  <2> QED BY <1>1, <2>1, <2>2
<1>11. ASSUME NEW n \in Node, Restart(n) PROVE Term' >= Term /\ \A m \in Node : Keeps(m)
  <2>1. /\ UNCHANGED elections /\ believes' = [believes EXCEPT ![n] = 0] /\ believes \in [Node -> Nat]
        /\ wterm' = [wterm EXCEPT ![n] = 0] /\ seq' = [seq EXCEPT ![n] = 0] /\ wterm \in [Node -> Nat]
    BY <1>1, <1>11 DEF Restart, Typed
  <2>2. Term' = Term BY <2>1 DEF Term
  <2> QED BY <1>1, <2>1, <2>2
<1> HIDE DEF Keeps
<1> QED BY <1>3, <1>4, <1>6, <1>7, <1>8, <1>9, <1>10, <1>11 DEF Next, RaftStep, LeaseStep

\* Taking the head of the queue.
LEMMA TakeTail ==
  ASSUME Inv, NEW n \in Node, WorkerTake(n)
  PROVE  /\ Len(queue[n]) \in Nat /\ Len(queue[n]) >= 1 /\ queue[n] # <<>> /\ worker[n] = None
         /\ Len(queue'[n]) = Len(queue[n]) - 1
         /\ \A j \in 1..Len(queue'[n]) : j + 1 \in 1..Len(queue[n]) /\ queue'[n][j] = queue[n][j + 1]
         /\ worker'[n] # None /\ worker'[n].cmd = queue[n][1]
         /\ worker'[n].stage = IF wterm[n] = queue[n][1].rev[1] /\ ~failed[n] /\ Authoritative(n)
                               THEN "propose" ELSE "failed"
         /\ \A m \in Node : m # n => queue'[m] = queue[m] /\ worker'[m] = worker[m]
         /\ UNCHANGED <<raftVars, view, wterm, seq, leaseTerm, failed, journal, caller, ackedSec>>
<1> DEFINE q == queue[n]
           c == q[1]
           st == IF wterm[n] = c.rev[1] /\ ~failed[n] /\ Authoritative(n) THEN "propose" ELSE "failed"
           w == [cmd |-> c, stage |-> st, term |-> 0, at |-> 0]
           tl == Tail(q)
<1>1. /\ queue \in [Node -> Seq(Transaction)] /\ worker \in [Node -> Proposal \cup {None}]
      /\ q \in Seq(Transaction) /\ q # <<>> /\ worker[n] = None
  BY DEF Inv, Typed, WorkerTake
<1>2. /\ Len(q) \in Nat /\ Len(q) >= 1 /\ Head(q) = c /\ c \in Transaction
      /\ tl \in Seq(Transaction) /\ Len(tl) = Len(q) - 1 /\ \A j \in 1..Len(tl) : tl[j] = q[j + 1]
  BY <1>1
<1>3. queue' = [queue EXCEPT ![n] = tl] BY DEF WorkerTake
<1>4. worker' = [worker EXCEPT ![n] = w] BY <1>2 DEF WorkerTake
<1>5. w \in Proposal /\ w.cmd = c /\ w.stage = st BY <1>2 DEF Proposal
<1>6. w # None BY <1>5, NoneAssumption
<1>7. UNCHANGED <<raftVars, view, wterm, seq, leaseTerm, failed, journal, caller, ackedSec>>
  BY DEF WorkerTake
<1>8. Len(q) \in Nat /\ Len(q) >= 1 /\ Len(tl) = Len(q) - 1 BY <1>2
<1> HIDE DEF w, tl
<1>9. queue'[n] = tl /\ worker'[n] = w
      /\ \A m \in Node : m # n => queue'[m] = queue[m] /\ worker'[m] = worker[m]
  BY <1>1, <1>3, <1>4
<1>10. \A j \in 1..Len(tl) : j + 1 \in 1..Len(q) BY <1>8
<1> QED BY <1>1, <1>2, <1>5, <1>6, <1>7, <1>8, <1>9, <1>10

\* The other steps of the worker keep its command or drop it.
LEMMA WorkerChange ==
  ASSUME Inv, NEW n \in Node, WorkerPropose(n) \/ WorkerLost(n) \/ WorkerSettle(n)
  PROVE  /\ worker[n] # None /\ UNCHANGED <<queue, wterm, seq, view>>
         /\ \A m \in Node : m # n => worker'[m] = worker[m]
         /\ \/ worker'[n] = None
            \/ ~WorkerSettle(n) /\ UNCHANGED journal /\ worker'[n] # None /\ worker'[n].cmd = worker[n].cmd
<1>1. worker \in [Node -> Proposal \cup {None}] /\ worker[n] # None /\ Term \in Nat /\ Len(log) \in Nat
  BY Types DEF Inv, Typed, WorkerPropose, WorkerLost, WorkerSettle
<1>2. worker[n] \in Proposal /\ worker[n].cmd \in Transaction BY <1>1 DEF Proposal
<1>3. UNCHANGED <<queue, wterm, seq, view>> BY DEF WorkerPropose, WorkerLost, WorkerSettle, raftVars
<1>4. CASE WorkerSettle(n)
  <2>1. worker' = [worker EXCEPT ![n] = None] BY <1>4 DEF WorkerSettle
  <2> QED BY <1>1, <1>3, <2>1
<1>5. CASE ~WorkerSettle(n) /\ WorkerPropose(n)
  <2> DEFINE w == [cmd |-> worker[n].cmd, stage |-> "wait", term |-> Term, at |-> Len(log) + 1]
  <2>1. worker' = [worker EXCEPT ![n] = w] /\ UNCHANGED journal BY <1>5 DEF WorkerPropose
  <2>2. w \in Proposal /\ w.cmd = worker[n].cmd BY <1>1, <1>2 DEF Proposal
  <2> HIDE DEF w
  <2>3. w # None BY <2>2, NoneAssumption
  <2> QED BY <1>1, <1>3, <1>5, <2>1, <2>2, <2>3
<1>6. CASE ~WorkerSettle(n) /\ WorkerLost(n)
  <2> DEFINE w == [worker[n] EXCEPT !.stage = "failed"]
  <2>1. worker' = [worker EXCEPT ![n] = w] /\ UNCHANGED journal BY <1>6 DEF WorkerLost
  <2>2. w \in Proposal /\ w.cmd = worker[n].cmd BY <1>1, <1>2 DEF Proposal
  <2> HIDE DEF w
  <2>3. w # None BY <2>2, NoneAssumption
  <2> QED BY <1>1, <1>3, <1>6, <2>1, <2>2, <2>3
<1> QED BY <1>4, <1>5, <1>6

\* A rebuild finds nothing waiting.
LEMMA EnsureQuiet ==
  ASSUME Inv, NEW n \in Node, Outstanding(n) = 0 PROVE Quiet(n)
<1>1. queue[n] \in Seq(Transaction) BY Types DEF Inv
<1>2. Len(queue[n]) \in Nat BY <1>1
<1>3. Len(queue[n]) = 0 /\ worker[n] = None
  <2>1. CASE worker[n] = None BY <1>2, <2>1 DEF Outstanding
  <2>2. CASE worker[n] # None
    <3>1. Outstanding(n) = Len(queue[n]) + 1 BY <2>2 DEF Outstanding
    <3> QED BY <1>2, <3>1
  <2> QED BY <2>1, <2>2
<1> QED BY <1>1, <1>3 DEF Quiet

\* The queue with a command appended.
LEMMA EnqueueTail ==
  ASSUME Inv, NEW n \in Node, NEW s \in Shapes, Enqueue(n, s)
  PROVE  /\ Serving(n) /\ caller[n] = None /\ Preflight(n, s) /\ JournalHasRoom(n)
         /\ Command(n, s) \in Transaction /\ Command(n, s).rev = NextRev(n)
         /\ Len(queue[n]) \in Nat /\ Len(queue'[n]) = Len(queue[n]) + 1
         /\ queue'[n][Len(queue[n]) + 1] = Command(n, s)
         /\ \A j \in 1..Len(queue[n]) : queue'[n][j] = queue[n][j]
         /\ \A m \in Node : m # n => queue'[m] = queue[m]
<1> DEFINE c == Command(n, s)
<1>1. c \in Transaction /\ c.rev = NextRev(n) BY CommandTyped DEF Inv
<1>2. queue' = [queue EXCEPT ![n] = Append(@, c)] /\ Serving(n) /\ caller[n] = None
      /\ Preflight(n, s) /\ JournalHasRoom(n)
  BY DEF Enqueue, CanCommit
<1> HIDE DEF c
<1>3. queue \in [Node -> Seq(Transaction)] /\ queue[n] \in Seq(Transaction) BY DEF Inv, Typed
<1>4. /\ Len(queue[n]) \in Nat /\ Len(queue'[n]) = Len(queue[n]) + 1 /\ queue'[n][Len(queue[n]) + 1] = c
      /\ \A j \in 1..Len(queue[n]) : queue'[n][j] = queue[n][j]
      /\ \A m \in Node : m # n => queue'[m] = queue[m]
  BY <1>1, <1>2, <1>3
<1> QED BY <1>1, <1>2, <1>4 DEF c

\* Steps that leave the pipeline and the journal alone.
Aside ==
    \/ RaftStep \/ LeaseStep \/ UNCHANGED vars
    \/ \E n \in Node : CallerDone(n) \/ CallerTimeout(n)

\* They do.
LEMMA AsideFrame == ASSUME Inv, Aside PROVE UNCHANGED <<queue, worker, wterm, seq, journal>>
<1>1. CASE RaftStep BY <1>1, RaftFrame
<1>2. CASE LeaseStep BY <1>2 DEF LeaseStep, RenewLease, LeaseExpires
<1>3. CASE UNCHANGED vars BY <1>3 DEF vars
<1>4. CASE \E n \in Node : CallerDone(n) \/ CallerTimeout(n) BY <1>4 DEF CallerDone, CallerTimeout
<1> QED BY <1>1, <1>2, <1>3, <1>4 DEF Aside

\* What waits belongs to the term of the view.
LEMMA PipelineTermNext == ASSUME Inv, PipelineTerm, [Next]_vars PROVE PipelineTerm'
<1> SUFFICES ASSUME NEW m \in Node, NEW d \in Transaction, InQueue(m, d)' \/ InWorker(m, d)'
             PROVE  d.rev[1] = wterm'[m]
  BY DEF PipelineTerm
<1>1. InQueue(m, d) \/ InWorker(m, d) => d.rev[1] = wterm[m] BY DEF PipelineTerm
<1>2. CASE UNCHANGED <<queue, worker, wterm>> BY <1>1, <1>2 DEF InQueue, InWorker
<1>3. ASSUME NEW n \in Node, NEW s \in Shapes, CommitRefused(n, s) \/ CommitFenced(n, s)
      PROVE  UNCHANGED <<queue, worker, wterm>>
  BY <1>3 DEF CommitRefused, CommitFenced
<1>4. ASSUME NEW n \in Node, NEW s \in Shapes, CommitLocal(n, s) \/ CommitReplicated(n, s)
      PROVE  d.rev[1] = wterm'[m]
  <2>1. Enqueue(n, s) /\ UNCHANGED <<worker, wterm>> BY <1>4 DEF CommitLocal, CommitReplicated
  <2> DEFINE c == Command(n, s)
  <2>2. /\ c.rev = NextRev(n) /\ Len(queue[n]) \in Nat /\ Len(queue'[n]) = Len(queue[n]) + 1
        /\ queue'[n][Len(queue[n]) + 1] = c /\ \A j \in 1..Len(queue[n]) : queue'[n][j] = queue[n][j]
        /\ \A p \in Node : p # n => queue'[p] = queue[p]
    BY <2>1, EnqueueTail
  <2> HIDE DEF c
  <2>3. CASE InWorker(m, d)' \/ m # n BY <1>1, <2>1, <2>2, <2>3 DEF InWorker, InQueue
  <2>4. CASE InQueue(m, d)' /\ m = n
    <3>1. PICK j \in 1..Len(queue'[n]) : queue'[n][j] = d BY <2>4 DEF InQueue
    <3>2. CASE j = Len(queue[n]) + 1 BY <2>1, <2>2, <2>4, <3>1, <3>2 DEF NextRev
    <3>3. CASE j # Len(queue[n]) + 1
      <4>1. j \in 1..Len(queue[n]) BY <2>2, <3>1, <3>3
      <4> QED BY <1>1, <2>1, <2>2, <2>4, <3>1, <4>1 DEF InQueue
    <3> QED BY <3>2, <3>3
  <2> QED BY <2>3, <2>4
<1>5. ASSUME NEW n \in Node, Worker(n) PROVE d.rev[1] = wterm'[m]
  <2>1. CASE WorkerTake(n)
    <3>1. /\ Len(queue[n]) \in Nat /\ Len(queue[n]) >= 1 /\ worker'[n].cmd = queue[n][1]
          /\ \A j \in 1..Len(queue'[n]) : j + 1 \in 1..Len(queue[n]) /\ queue'[n][j] = queue[n][j + 1]
          /\ \A p \in Node : p # n => queue'[p] = queue[p] /\ worker'[p] = worker[p]
          /\ UNCHANGED wterm
      BY <2>1, TakeTail
    <3>2. 1 \in 1..Len(queue[n]) BY <3>1
    <3> QED BY <1>1, <3>1, <3>2 DEF InQueue, InWorker
  <2>2. CASE WorkerPropose(n) \/ WorkerLost(n) \/ WorkerSettle(n)
    <3>1. /\ UNCHANGED <<queue, wterm>> /\ worker[n] # None
          /\ \A p \in Node : p # n => worker'[p] = worker[p]
          /\ worker'[n] = None \/ worker'[n].cmd = worker[n].cmd
      BY <2>2, WorkerChange
    <3> QED BY <1>1, <3>1 DEF InQueue, InWorker
  <2> QED BY <1>5, <2>1, <2>2 DEF Worker
<1>6. ASSUME NEW n \in Node, Ensure(n) PROVE d.rev[1] = wterm'[m]
  <2>1. Quiet(n) BY <1>6, EnsureQuiet DEF Ensure, BaselineReady
  <2>2. /\ UNCHANGED <<queue, worker>> /\ wterm' = [wterm EXCEPT ![n] = Term] /\ wterm \in [Node -> Nat]
    BY <1>6 DEF Ensure, Inv, Typed
  <2> QED BY <1>1, <2>1, <2>2 DEF InQueue, InWorker, Quiet
<1>7. ASSUME NEW n \in Node, Restart(n) PROVE d.rev[1] = wterm'[m]
  <2>1. /\ queue' = [queue EXCEPT ![n] = <<>>] /\ worker' = [worker EXCEPT ![n] = None]
        /\ wterm' = [wterm EXCEPT ![n] = 0] /\ Typed
    BY <1>7 DEF Restart, Inv
  <2>2. /\ queue'[n] = <<>> /\ worker'[n] = None
        /\ \A p \in Node : p # n => queue'[p] = queue[p] /\ worker'[p] = worker[p] /\ wterm'[p] = wterm[p]
    BY <2>1 DEF Typed
  <2> QED BY <1>1, <2>2 DEF InQueue, InWorker
<1>8. CASE Aside BY <1>2, <1>8, AsideFrame
<1> QED BY <1>2, <1>3, <1>4, <1>5, <1>6, <1>7, <1>8 DEF Next, Aside, RaftStep, LeaseStep

\* Terms, windows and voters stay within bounds.
LEMMA BoundsNext == ASSUME Inv, Bounds, [Next]_vars PROVE Bounds'
<1>1. Typed /\ Term \in Nat /\ leaseTerm \in [Node -> Nat] BY Types DEF Inv, Typed
<1>2. CASE RaftStep
  <2>1. UNCHANGED leaseTerm /\ Term' >= Term BY <1>2, RaftFrame
  <2>2. voters' \in {1, 2}
    BY <1>2 DEF RaftStep, RaftCommit, VoterJoins, Elect, StepDown, FsmApply, TransferLeadership, Bounds
  <2>3. elections' \in Seq(Node)
    <3>1. elections \in Seq(Node) BY <1>1 DEF Typed
    <3>2. \A n \in Node : Append(elections, n) \in Seq(Node) BY <3>1
    <3> QED BY <1>2, <3>1, <3>2
      DEF RaftStep, RaftCommit, VoterJoins, Elect, StepDown, FsmApply, TransferLeadership
  <2>4. Term' \in Nat BY <2>3 DEF Term
  <2> QED BY <1>1, <2>1, <2>2, <2>4 DEF Bounds
<1>3. ASSUME UNCHANGED <<elections, voters>>,
             \A m \in Node : leaseTerm'[m] = leaseTerm[m] \/ leaseTerm'[m] = 0 \/ leaseTerm'[m] = Term
      PROVE  Bounds'
  BY <1>1, <1>3 DEF Bounds, Term
<1>4. ASSUME NEW n \in Node, RenewLease(n) \/ LeaseExpires(n) \/ Ensure(n) \/ Restart(n) PROVE Bounds'
  <2>1. UNCHANGED <<elections, voters>> BY <1>4 DEF RenewLease, LeaseExpires, Ensure, Restart, raftVars
  <2>2. leaseTerm' = [leaseTerm EXCEPT ![n] = Term] \/ leaseTerm' = [leaseTerm EXCEPT ![n] = 0]
    BY <1>4 DEF RenewLease, LeaseExpires, Ensure, Restart
  <2> QED BY <1>1, <1>3, <2>1, <2>2
<1>5. ASSUME NEW n \in Node, CallerDone(n) \/ CallerTimeout(n) \/ Worker(n) PROVE Bounds'
  <2>1. UNCHANGED <<elections, voters, leaseTerm>>
    BY <1>5 DEF CallerDone, CallerTimeout, Worker, WorkerTake, WorkerPropose, WorkerLost, WorkerSettle, raftVars
  <2> QED BY <1>3, <2>1
<1>6. ASSUME NEW n \in Node, NEW s \in Shapes,
             CommitRefused(n, s) \/ CommitFenced(n, s) \/ CommitLocal(n, s) \/ CommitReplicated(n, s)
      PROVE  Bounds'
  <2>1. UNCHANGED <<elections, voters>>
        /\ (UNCHANGED leaseTerm \/ leaseTerm' = [leaseTerm EXCEPT ![n] = 0])
    BY <1>6 DEF CommitRefused, CommitFenced, CommitLocal, CommitReplicated, raftVars
  <2> QED BY <1>1, <1>3, <2>1
<1>7. CASE UNCHANGED vars BY <1>3, <1>7 DEF vars
<1> QED BY <1>2, <1>4, <1>5, <1>6, <1>7 DEF Next, RaftStep

\* Views hold issued revisions.
LEMMA ViewsUsedNext == ASSUME Inv, Inv', ViewsUsed, [Next]_vars PROVE ViewsUsed'
<1> SUFFICES ASSUME NEW m \in Node, NEW k \in Key
             PROVE  view'[m][k].rev = NoRev \/ Used(view[m][k].rev)'
  BY DEF ViewsUsed
<1>1. /\ Typed /\ view[m][k].rev \in Rev /\ Last[k].rev \in Rev /\ view \in [Node -> States]
      /\ view[m][k].rev = NoRev \/ Used(view[m][k].rev)
  BY Types DEF Inv, Typed, States, Record, ViewsUsed
<1>2. ASSUME NEW r \in Rev, view'[m][k].rev = r, r = NoRev \/ Used(r)
      PROVE  view'[m][k].rev = NoRev \/ Used(view[m][k].rev)'
  <2>1. r # NoRev => Used(r)' BY <1>2, UsedGrows
  <2> QED BY <1>2, <2>1
<1>3. ASSUME NEW c \in Transaction, \E i \in 1..Committed : log[i].cmd.rev = c.rev
      PROVE  c.rev \in Rev /\ Used(c.rev)
  <2>1. PICK i \in 1..Committed : log[i].cmd.rev = c.rev BY <1>3
  <2>2. Committed \in Nat /\ Len(log) \in Nat /\ Committed <= Len(log) BY <1>1, Types DEF Typed
  <2>3. i \in 1..Len(log) BY <2>1, <2>2
  <2> QED BY <2>1, <2>3 DEF Inv, Issue, LogUsed, Transaction
<1>4. CASE view'[m] = view[m] BY <1>1, <1>2, <1>4
<1>5. ASSUME NEW n \in Node, NEW x, view' = [view EXCEPT ![n] = x]
      PROVE  view'[m] = view[m] \/ (m = n /\ view'[m] = x)
  BY <1>1, <1>5
<1>6. ASSUME NEW n \in Node, Ensure(n) PROVE view'[m][k].rev = NoRev \/ Used(view[m][k].rev)'
  <2>1. view' = [view EXCEPT ![n] = hist[applied[n] + 1]] /\ applied[n] = Len(log) /\ Committed = Len(log)
    BY <1>6 DEF Ensure, BaselineReady
  <2>2. hist[applied[n] + 1] = Last BY <1>1, <2>1, Types DEF Last
  <2>3. CommittedRev(Last[k].rev) BY LastCommitted
  <2>4. CASE Last[k].rev = NoRev BY <1>2, <1>4, <1>5, <2>1, <2>2, <2>4
  <2>5. CASE Last[k].rev # NoRev
    <3>1. PICK i \in 1..Committed : log[i].cmd.rev = Last[k].rev BY <2>3, <2>5 DEF CommittedRev
    <3>2. Used(Last[k].rev) BY <2>1, <3>1 DEF Inv, Issue, LogUsed
    <3> QED BY <1>1, <1>2, <1>4, <1>5, <2>1, <2>2, <3>2
  <2> QED BY <2>4, <2>5
<1>7. ASSUME NEW n \in Node, Restart(n) PROVE view'[m][k].rev = NoRev \/ Used(view[m][k].rev)'
  <2>1. view' = [view EXCEPT ![n] = NoRecords] BY <1>7 DEF Restart
  <2>2. NoRecords[k].rev = NoRev BY DEF NoRecords
  <2> HIDE DEF NoRecords
  <2> QED BY <1>4, <1>5, <2>1, <2>2
<1>8. ASSUME NEW n \in Node, CallerDone(n) PROVE view'[m][k].rev = NoRev \/ Used(view[m][k].rev)'
  <2>1. CASE UNCHANGED view BY <1>4, <2>1
  <2>2. CASE view' # view
    <3> DEFINE c == caller[n].cmd
               p == caller[n].preview
    <3>1. /\ caller[n] # None /\ caller[n].result = "ok" /\ wterm[n] = c.rev[1] /\ ~failed[n]
          /\ view' = [view EXCEPT ![n] = p]
      BY <1>8, <2>2 DEF CallerDone
    <3>2. CallerKept(n) /\ c \in Transaction BY <1>1, <3>1, Types DEF Inv, Callers
    <3>3. \E i \in 1..Committed : log[i].cmd.rev = c.rev BY <3>1, <3>2 DEF CallerKept
    <3>4. IF k \in c.writes THEN p[k].rev = c.rev ELSE p[k] = view[n][k] BY <3>1, <3>2 DEF CallerKept
    <3>5. c.rev \in Rev /\ Used(c.rev) BY <1>3, <3>2, <3>3
    <3> HIDE DEF c, p
    <3>6. CASE m = n /\ view'[m] = p /\ k \in c.writes BY <1>2, <3>4, <3>5, <3>6
    <3>7. CASE m = n /\ view'[m] = p /\ k \notin c.writes BY <1>1, <1>2, <3>4, <3>7
    <3> QED BY <1>4, <1>5, <3>1, <3>6, <3>7
  <2> QED BY <2>1, <2>2
<1>9. ASSUME NEW n \in Node, NEW s \in Shapes, CommitLocal(n, s)
      PROVE  view'[m][k].rev = NoRev \/ Used(view[m][k].rev)'
  <2>1. Enqueue(n, s) /\ view' = [view EXCEPT ![n] = Install(view[n], Command(n, s))] BY <1>9 DEF CommitLocal
  <2>2. PICK c \in Transaction : c = Command(n, s) /\ c.rev = NextRev(n) /\ Serving(n) BY <2>1, EnqueueTail
  <2>3. view[n] \in States BY <1>1
  <2>4. IF k \in c.writes THEN Install(view[n], c)[k].rev = c.rev ELSE Install(view[n], c)[k] = view[n][k]
    BY <2>2, <2>3, InstallTyped
  <2>5. Used(c.rev)'
    <3>1. Len(queue'[n]) \in Nat /\ Len(queue[n]) + 1 \in 1..Len(queue'[n]) /\ queue'[n][Len(queue[n]) + 1] = c
      BY <2>1, <2>2, EnqueueTail
    <3>2. InQueue(n, c)' BY <3>1 DEF InQueue
    <3> QED BY <2>2, <3>2 DEF Inv, Issue, PipelineUsed
  <2>6. CASE m = n /\ view'[m] = Install(view[n], c) /\ k \in c.writes
    <3>1. view'[m][k].rev = c.rev BY <2>4, <2>6
    <3> QED BY <2>5, <3>1
  <2>7. CASE m = n /\ view'[m] = Install(view[n], c) /\ k \notin c.writes
    <3>1. view'[m][k].rev = view[m][k].rev BY <2>4, <2>7
    <3> QED BY <1>1, <1>2, <3>1
  <2> QED BY <1>4, <1>5, <2>1, <2>2, <2>6, <2>7
<1>10. ASSUME NEW n \in Node, CallerTimeout(n) \/ Worker(n) PROVE UNCHANGED view
  BY <1>10 DEF CallerTimeout, Worker, WorkerTake, WorkerPropose, WorkerLost, WorkerSettle
<1>11. ASSUME NEW n \in Node, NEW s \in Shapes, CommitRefused(n, s) \/ CommitFenced(n, s) \/ CommitReplicated(n, s)
       PROVE UNCHANGED view
  BY <1>11 DEF CommitRefused, CommitFenced, CommitReplicated
<1>12. CASE RaftStep \/ LeaseStep \/ UNCHANGED vars
  <2>1. UNCHANGED view BY <1>12, RaftFrame DEF LeaseStep, RenewLease, LeaseExpires, vars
  <2> QED BY <1>4, <2>1
<1> QED BY <1>4, <1>6, <1>7, <1>8, <1>9, <1>10, <1>11, <1>12 DEF Next, RaftStep, LeaseStep

\* A rebuild never meets a caller told of success in the present term.
LEMMA EnsureCaller ==
  ASSUME Inv, NEW n \in Node, Ensure(n), caller[n] # None
  PROVE  caller[n].result = "error" \/ caller[n].cmd.rev[1] # Term
<1> DEFINE c == caller[n].cmd
<1>1. Quiet(n) /\ believes[n] = Term /\ (wterm[n] # Term \/ failed[n])
      /\ Committed = Len(log) /\ Len(log) \in Nat
  BY EnsureQuiet, Types DEF Ensure, NeedsBaseline, BaselineReady, Inv
<1>2. CallerKept(n) /\ caller[n] \in Waiting BY Types DEF Inv, Callers
<1>3. caller[n].result # "pending" BY <1>1, <1>2 DEF CallerKept, Quiet, InWorker
<1>4. ASSUME caller[n].result = "ok", c.rev[1] = Term PROVE FALSE
  <2>1. PICK i \in 1..Committed : log[i].cmd.rev = c.rev BY <1>2, <1>4 DEF CallerKept
  <2>2. Used(c.rev) BY <1>1, <2>1 DEF Inv, Issue, LogUsed
  <2>3. wterm[n] = Term BY <1>1, <1>4, <2>2 DEF Used
  <2> QED BY <1>1, <1>2, <1>4, <2>3 DEF CallerKept
<1> QED BY <1>2, <1>3, <1>4 DEF Waiting

\* What settling does to the caller and the fence.
LEMMA SettleEffect ==
  ASSUME Inv, journal \in [Node -> SUBSET Rev], NEW n \in Node, WorkerSettle(n)
  PROVE  /\ \A m \in Node : m # n => caller'[m] = caller[m] /\ failed'[m] = failed[m] /\ journal'[m] = journal[m]
         /\ \A m \in Node : ~failed'[m] => ~failed[m]
         /\ caller[n] = None => caller'[n] = None
         /\ caller[n] # None => /\ caller'[n] # None /\ caller[n].result = "pending"
                                /\ caller'[n].cmd = caller[n].cmd /\ caller'[n].preview = caller[n].preview
                                /\ caller[n].cmd # worker[n].cmd => caller'[n] = caller[n]
                                /\ ~failed'[n] /\ caller[n].cmd.rev[1] = wterm[n] => caller'[n].result # "error"
         /\ worker[n].stage = "failed" /\ wterm[n] = worker[n].cmd.rev[1] => failed'[n]
         /\ journal'[n] \in {journal[n], journal[n] \ {worker[n].cmd.rev}}
         /\ journal' \in [Node -> SUBSET Rev]
<1> DEFINE w == worker[n]
           Fine(synced) == w.stage = "wait" /\ Accepts(hist[w.at], w.cmd, w.term) /\ synced
<1>1. Typed BY DEF Inv
<1>2. PICK synced \in BOOLEAN :
        /\ journal' = [journal EXCEPT ![n] = IF Fine(synced) THEN @ \ {w.cmd.rev} ELSE @]
        /\ failed' = [failed EXCEPT ![n] = @ \/ (~Fine(synced) /\ wterm[n] = w.cmd.rev[1])]
        /\ caller' = IF caller[n] # None /\ caller[n].cmd = w.cmd
                     THEN [caller EXCEPT ![n] = [caller[n] EXCEPT !.result = IF Fine(synced) THEN "ok" ELSE "error"]]
                     ELSE caller
  BY DEF WorkerSettle
<1> DEFINE ok == Fine(synced)
<1>3. ok \in BOOLEAN /\ (w.stage = "failed" => ~ok) OBVIOUS
<1>4. /\ journal' = [journal EXCEPT ![n] = IF ok THEN @ \ {w.cmd.rev} ELSE @]
      /\ failed' = [failed EXCEPT ![n] = @ \/ (~ok /\ wterm[n] = w.cmd.rev[1])]
      /\ caller' = IF caller[n] # None /\ caller[n].cmd = w.cmd
                   THEN [caller EXCEPT ![n] = [caller[n] EXCEPT !.result = IF ok THEN "ok" ELSE "error"]]
                   ELSE caller
  BY <1>2
<1> HIDE DEF ok, Fine
<1>5. /\ \A m \in Node : m # n => failed'[m] = failed[m]
      /\ failed'[n] <=> (failed[n] \/ (~ok /\ wterm[n] = w.cmd.rev[1]))
  <2> DEFINE cond == ~ok /\ wterm[n] = w.cmd.rev[1]
  <2>1. failed \in [Node -> BOOLEAN] /\ cond \in BOOLEAN /\ failed' = [failed EXCEPT ![n] = @ \/ cond]
    BY <1>1, <1>4 DEF Typed
  <2> HIDE DEF cond
  <2>2. (failed'[n] <=> (failed[n] \/ cond)) /\ \A m \in Node : m # n => failed'[m] = failed[m]
    BY <2>1, Zenon
  <2> QED BY <2>2 DEF cond
<1>6. caller \in [Node -> Waiting \cup {None}] BY <1>1 DEF Typed
<1>7. /\ \A m \in Node : m # n => caller'[m] = caller[m]
      /\ caller[n] = None => caller'[n] = None
      /\ caller[n] # None => /\ caller'[n] # None /\ caller[n].result = "pending"
                             /\ caller'[n].cmd = caller[n].cmd /\ caller'[n].preview = caller[n].preview
                             /\ caller[n].cmd # w.cmd => caller'[n] = caller[n]
                             /\ ~failed'[n] /\ caller[n].cmd.rev[1] = wterm[n] => caller'[n].result # "error"
  <2>1. CASE caller[n] = None BY <1>4, <2>1
  <2>2. CASE caller[n] # None
    <3>1. caller[n] \in Waiting /\ CallerKept(n) BY <1>6, <2>2 DEF Inv, Callers
    <3>2. caller[n].result = "pending" BY <3>1 DEF CallerKept, Quiet, WorkerSettle
    <3>3. CASE caller[n].cmd = w.cmd
      <4> DEFINE r == [caller[n] EXCEPT !.result = IF ok THEN "ok" ELSE "error"]
      <4>1. caller' = [caller EXCEPT ![n] = r] BY <1>4, <2>2, <3>3
      <4>2. r \in Waiting /\ r.cmd = caller[n].cmd /\ r.preview = caller[n].preview
            /\ r.result = IF ok THEN "ok" ELSE "error"
        BY <3>1 DEF Waiting
      <4> HIDE DEF r
      <4>3. caller'[n] = r /\ \A m \in Node : m # n => caller'[m] = caller[m] BY <1>6, <4>1
      <4>4. r # None BY <4>2, NoneAssumption
      <4>5. ~failed'[n] /\ caller[n].cmd.rev[1] = wterm[n] => ok BY <1>5, <3>3
      <4> QED BY <2>2, <3>2, <3>3, <4>2, <4>3, <4>4, <4>5
    <3>4. CASE caller[n].cmd # w.cmd
      <4>1. caller' = caller BY <1>4, <3>4
      <4>2. ~failed'[n] /\ caller[n].cmd.rev[1] = wterm[n] => caller'[n].result # "error" BY <3>2, <4>1
      <4> QED BY <2>2, <3>2, <4>1, <4>2
    <3> QED BY <3>3, <3>4
  <2> QED BY <2>1, <2>2
<1>8. /\ journal'[n] \in {journal[n], journal[n] \ {w.cmd.rev}} /\ journal' \in [Node -> SUBSET Rev]
       /\ \A m \in Node : m # n => journal'[m] = journal[m]
  BY <1>4
<1>9. \A m \in Node : ~failed'[m] => ~failed[m] BY <1>5
<1>10. w.stage = "failed" /\ wterm[n] = w.cmd.rev[1] => failed'[n] BY <1>3, <1>5
<1> QED BY <1>5, <1>7, <1>8, <1>9, <1>10

\* The commit that waits is newer than the view it waits to enter.
LEMMA CallerNewestNext ==
  ASSUME Inv, Inv', ViewsUsed, CallerNewest, journal \in [Node -> SUBSET Rev], [Next]_vars
  PROVE  CallerNewest'
<1> DEFINE Newest(m) == caller[m] # None /\ caller[m].result # "error" /\ wterm[m] = caller[m].cmd.rev[1]
                        /\ ~failed[m] => \A k \in Key : RevLeq(view[m][k].rev, caller[m].cmd.rev)
<1> SUFFICES ASSUME NEW m \in Node PROVE Newest(m)' BY DEF CallerNewest
<1>1. Typed /\ Newest(m) BY DEF Inv, CallerNewest
<1>2. CASE caller'[m] = None BY <1>2
<1>3. CASE /\ caller'[m] = caller[m] /\ wterm'[m] = wterm[m] /\ view'[m] = view[m]
           /\ ~failed'[m] => ~failed[m]
  BY <1>1, <1>3
<1>4. CASE RaftStep \/ LeaseStep \/ UNCHANGED vars
  <2>1. UNCHANGED <<view, wterm, failed, caller>> BY <1>4, RaftFrame DEF LeaseStep, RenewLease, LeaseExpires, vars
  <2> QED BY <1>3, <2>1
<1>5. ASSUME NEW n \in Node, CallerDone(n) \/ CallerTimeout(n) PROVE Newest(m)'
  <2>1. caller' = [caller EXCEPT ![n] = None] /\ UNCHANGED wterm BY <1>5 DEF CallerDone, CallerTimeout
  <2>2. CASE m = n BY <1>1, <1>2, <2>1, <2>2 DEF Typed
  <2>3. CASE m # n
    <3>1. view'[m] = view[m] /\ failed'[m] = failed[m] BY <1>1, <1>5, <2>3 DEF CallerDone, CallerTimeout, Typed
    <3>2. caller'[m] = caller[m] BY <1>1, <2>1, <2>3 DEF Typed
    <3> QED BY <1>3, <2>1, <3>1, <3>2
  <2> QED BY <2>2, <2>3
<1>6. ASSUME NEW n \in Node, Ensure(n) PROVE Newest(m)'
  <2>1. /\ UNCHANGED caller /\ view' = [view EXCEPT ![n] = hist[applied[n] + 1]]
        /\ wterm' = [wterm EXCEPT ![n] = Term] /\ failed' = [failed EXCEPT ![n] = FALSE]
    BY <1>6 DEF Ensure
  <2>2. CASE m = n
    <3>1. wterm'[m] = Term /\ caller'[m] = caller[m] BY <1>1, <2>1, <2>2 DEF Typed
    <3> QED BY <1>6, <2>2, <3>1, EnsureCaller
  <2>3. CASE m # n BY <1>1, <1>3, <2>1, <2>3 DEF Typed
  <2> QED BY <2>2, <2>3
<1>7. ASSUME NEW n \in Node, Restart(n) PROVE Newest(m)'
  <2>1. /\ caller' = [caller EXCEPT ![n] = None] /\ view' = [view EXCEPT ![n] = NoRecords]
        /\ wterm' = [wterm EXCEPT ![n] = 0] /\ failed' = [failed EXCEPT ![n] = FALSE]
    BY <1>7 DEF Restart
  <2>2. CASE m = n BY <1>1, <1>2, <2>1, <2>2 DEF Typed
  <2>3. CASE m # n BY <1>1, <1>3, <2>1, <2>3 DEF Typed
  <2> QED BY <2>2, <2>3
<1>8. ASSUME NEW n \in Node, Worker(n) PROVE Newest(m)'
  <2>1. CASE WorkerTake(n) \/ WorkerPropose(n) \/ WorkerLost(n)
    <3>1. UNCHANGED <<view, wterm, failed, caller>> BY <2>1 DEF WorkerTake, WorkerPropose, WorkerLost
    <3> QED BY <1>3, <3>1
  <2>2. CASE WorkerSettle(n)
    <3>1. UNCHANGED <<view, wterm>> BY <2>2 DEF WorkerSettle
    <3>2. CASE m # n BY <1>3, <2>2, <3>1, <3>2, SettleEffect
    <3>3. CASE m = n /\ caller[n] = None BY <1>2, <2>2, <3>3, SettleEffect
    <3>4. CASE m = n /\ caller[n] # None
      <4>1. caller[n].result = "pending" /\ caller'[n].cmd = caller[n].cmd /\ (~failed'[n] => ~failed[n])
        BY <2>2, <3>4, SettleEffect
      <4> QED BY <1>1, <3>1, <3>4, <4>1
    <3> QED BY <3>2, <3>3, <3>4
  <2> QED BY <1>8, <2>1, <2>2 DEF Worker
<1>9. ASSUME NEW n \in Node, NEW s \in Shapes, CommitRefused(n, s) \/ CommitFenced(n, s) PROVE Newest(m)'
  <2>1. /\ UNCHANGED <<view, wterm, caller>>
        /\ UNCHANGED failed \/ failed' = [failed EXCEPT ![n] = TRUE]
    BY <1>9 DEF CommitRefused, CommitFenced
  <2>2. ~failed'[m] => ~failed[m] BY <1>1, <2>1 DEF Typed
  <2> QED BY <1>3, <2>1, <2>2
<1>10. ASSUME NEW n \in Node, NEW s \in Shapes, CommitLocal(n, s) PROVE Newest(m)'
  <2>1. /\ caller[n] = None /\ UNCHANGED <<wterm, failed, caller>>
        /\ view' = [view EXCEPT ![n] = Install(view[n], Command(n, s))]
    BY <1>10, EnqueueTail DEF CommitLocal
  <2>2. CASE m = n BY <1>2, <2>1, <2>2
  <2>3. CASE m # n
    <3>1. view'[m] = view[m] BY <1>1, <2>1, <2>3 DEF Typed
    <3> QED BY <1>3, <2>1, <3>1
  <2> QED BY <2>2, <2>3
<1>11. ASSUME NEW n \in Node, NEW s \in Shapes, CommitReplicated(n, s) PROVE Newest(m)'
  <2> DEFINE c == Command(n, s)
             p == Install(view[n], c)
  <2>1. /\ Enqueue(n, s) /\ UNCHANGED <<wterm, failed, view>>
        /\ caller' = [caller EXCEPT ![n] = [cmd |-> c, result |-> "pending", preview |-> p]]
    BY <1>11 DEF CommitReplicated
  <2>2. c \in Transaction /\ c.rev = NextRev(n) /\ Serving(n) BY <2>1, EnqueueTail
  <2> HIDE DEF c, p
  <2>3. CASE m # n
    <3>1. caller'[m] = caller[m] BY <1>1, <2>1, <2>3 DEF Typed
    <3> QED BY <1>3, <2>1, <3>1
  <2>4. CASE m = n
    <3>1. caller'[m].cmd = c BY <1>1, <2>1, <2>4 DEF Typed
    <3>2. ASSUME NEW k \in Key PROVE RevLeq(view[n][k].rev, c.rev)
      <4>1. view[n][k].rev \in Rev /\ c.rev \in Rev
        BY <1>1, <2>2 DEF Typed, States, Record, Transaction
      <4>2. CASE view[n][k].rev = NoRev BY <4>1, <4>2, RevOrder
      <4>3. CASE Used(view[n][k].rev)
        <5>1. RevLess(view[n][k].rev, c.rev) BY <2>2, <4>1, <4>3, UsedBefore
        <5>2. {view[n][k].rev[1], view[n][k].rev[2], c.rev[1], c.rev[2]} \subseteq Nat BY <4>1, RevPair
        <5> QED BY <5>1, <5>2 DEF RevLess, RevLeq
      <4> QED BY <4>2, <4>3 DEF ViewsUsed
    <3> QED BY <2>1, <2>4, <3>1, <3>2
  <2> QED BY <2>3, <2>4
<1> HIDE DEF Newest
<1> QED BY <1>4, <1>5, <1>6, <1>7, <1>8, <1>9, <1>10, <1>11 DEF Next, RaftStep, LeaseStep

\* How many proposals are outstanding, now and after a step.
LEMMA OutstandingIs ==
  ASSUME NEW n \in Node, Len(queue[n]) \in Nat
  PROVE  /\ Outstanding(n) \in Nat
         /\ worker[n] = None => Outstanding(n) = Len(queue[n])
         /\ worker[n] # None => Outstanding(n) = Len(queue[n]) + 1
<1>1. CASE worker[n] = None BY <1>1 DEF Outstanding
<1>2. CASE worker[n] # None
  <2>1. Outstanding(n) = Len(queue[n]) + 1 BY <1>2 DEF Outstanding
  <2> QED BY <1>2, <2>1
<1> QED BY <1>1, <1>2

\* The same of the next state.
LEMMA OutstandingNext ==
  ASSUME NEW n \in Node, Len(queue'[n]) \in Nat
  PROVE  /\ Outstanding(n)' \in Nat
         /\ worker'[n] = None => Outstanding(n)' = Len(queue'[n])
         /\ worker'[n] # None => Outstanding(n)' = Len(queue'[n]) + 1
<1>1. CASE worker'[n] = None BY <1>1 DEF Outstanding
<1>2. CASE worker'[n] # None
  <2>1. Outstanding(n)' = Len(queue'[n]) + 1 BY <1>2 DEF Outstanding
  <2> QED BY <1>2, <2>1
<1> QED BY <1>1, <1>2

\* The journal covers what is outstanding.
LEMMA JournalNext ==
  ASSUME Inv, journal \in [Node -> SUBSET Rev], \A n \in Node : JournalKept(n), [Next]_vars
  PROVE  journal' \in [Node -> SUBSET Rev] /\ \A n \in Node : JournalKept(n)'
<1>1. /\ Typed /\ seq \in [Node -> Nat] /\ wterm \in [Node -> Nat] /\ MaxPending \in Nat
      /\ \A n \in Node : Len(queue[n]) \in Nat
  BY BoundsAssumption DEF Inv, Typed
<1>2. \A n \in Node : IsFiniteSet(journal[n]) /\ Cardinality(journal[n]) \in Nat
  BY FS_CardinalityType DEF JournalKept
<1>3. ASSUME NEW m \in Node, journal'[m] = journal[m], queue'[m] = queue[m], worker'[m] = worker[m],
             wterm'[m] = wterm[m], seq'[m] >= seq[m], seq'[m] \in Nat
      PROVE  JournalKept(m)'
  <2>1. JournalKept(m) /\ Outstanding(m)' = Outstanding(m) BY <1>3 DEF Outstanding
  <2>2. \A r \in journal[m] : r[2] \in Nat BY RevPair
  <2>3. wterm[m] # 0 => \A r \in journal[m] : r[1] = wterm[m] /\ r[2] <= seq'[m]
    BY <1>1, <1>3, <2>1, <2>2 DEF JournalKept
  <2> QED BY <1>3, <2>1, <2>3 DEF JournalKept
<1>4. CASE Aside
  <2>1. UNCHANGED <<queue, worker, wterm, seq, journal>> BY <1>4, AsideFrame
  <2> QED BY <1>1, <1>3, <2>1
<1>5. ASSUME NEW n \in Node, NEW s \in Shapes, CommitRefused(n, s)
      PROVE  journal' \in [Node -> SUBSET Rev] /\ \A m \in Node : JournalKept(m)'
  <2>1. UNCHANGED <<queue, worker, wterm, journal>> /\ seq' = [seq EXCEPT ![n] = @ + 1]
    BY <1>5 DEF CommitRefused
  <2>2. \A m \in Node : seq'[m] >= seq[m] /\ seq'[m] \in Nat BY <1>1, <2>1
  <2>3. \A m \in Node : JournalKept(m)' BY <1>3, <2>1, <2>2
  <2> QED BY <2>1, <2>3
<1>6. ASSUME NEW n \in Node, NEW s \in Shapes, CommitFenced(n, s) \/ Enqueue(n, s), UNCHANGED <<worker, wterm>>
      PROVE  journal' \in [Node -> SUBSET Rev] /\ \A m \in Node : JournalKept(m)'
  <2>1. /\ JournalHasRoom(n) /\ Serving(n) /\ seq' = [seq EXCEPT ![n] = @ + 1]
        /\ journal' = [journal EXCEPT ![n] = @ \cup {NextRev(n)}]
        /\ CommitFenced(n, s) => UNCHANGED queue
    BY <1>6 DEF CommitFenced, Enqueue, CanCommit
  <2>2. NextRev(n) \in Rev /\ NextRev(n)[1] = wterm[n] /\ NextRev(n)[2] = seq[n] + 1 BY <1>1 DEF NextRev, Rev
  <2>3. PICK new \in Rev : new = NextRev(n) BY <2>2
  <2>4. /\ journal' \in [Node -> SUBSET Rev] /\ journal'[n] = journal[n] \cup {new}
        /\ \A m \in Node : m # n => journal'[m] = journal[m] /\ seq'[m] = seq[m]
        /\ seq'[n] = seq[n] + 1 /\ seq[n] \in Nat
    BY <1>1, <2>1, <2>3
  <2>5. JournalKept(n) /\ wterm[n] # 0 BY <2>1, ServingLeads
  <2>6. new \notin journal[n] BY <2>2, <2>3, <2>4, <2>5 DEF JournalKept
  <2>7. IsFiniteSet(journal'[n]) /\ Cardinality(journal'[n]) = Cardinality(journal[n]) + 1
    BY <1>2, <2>4, <2>6, FS_AddElement
  <2>8. Cardinality(journal[n]) < MaxPending BY <2>1 DEF JournalHasRoom
  <2>9. \A r \in journal'[n] : r[1] = wterm'[n] /\ r[2] <= seq'[n]
    <3>1. \A r \in journal[n] : r[1] = wterm[n] /\ r[2] <= seq[n] /\ r[2] \in Nat
      BY <2>5, RevPair DEF JournalKept
    <3> QED BY <1>6, <2>2, <2>3, <2>4, <3>1
  <2>10. /\ Outstanding(n)' <= Outstanding(n) + 1
         /\ \A j \in 1..Len(queue'[n]) : queue'[n][j].rev \in journal'[n]
         /\ \A m \in Node : m # n => queue'[m] = queue[m]
    <3>1. \A j \in 1..Len(queue[n]) : queue[n][j].rev \in journal[n] BY <2>5 DEF JournalKept
    <3>2. CASE CommitFenced(n, s)
      <4>1. Outstanding(n) \in Nat BY <1>1, OutstandingIs
      <4>2. Outstanding(n)' = Outstanding(n) BY <1>6, <2>1, <3>2 DEF Outstanding
      <4> QED BY <2>1, <2>4, <3>1, <3>2, <4>1, <4>2
    <3>3. CASE Enqueue(n, s)
      <4>1. /\ Len(queue[n]) \in Nat /\ Len(queue'[n]) = Len(queue[n]) + 1
            /\ queue'[n][Len(queue[n]) + 1].rev = NextRev(n)
            /\ \A j \in 1..Len(queue[n]) : queue'[n][j] = queue[n][j]
            /\ \A m \in Node : m # n => queue'[m] = queue[m]
        BY <3>3, EnqueueTail
      <4>2. Outstanding(n)' = Outstanding(n) + 1 /\ Outstanding(n) \in Nat
        <5>1. Len(queue'[n]) \in Nat /\ worker'[n] = worker[n] BY <1>6, <4>1
        <5>2. CASE worker[n] = None
          <6>1. Outstanding(n)' = Len(queue'[n]) BY <5>1, <5>2, OutstandingNext
          <6>2. Outstanding(n) = Len(queue[n]) BY <4>1, <5>2, OutstandingIs
          <6> QED BY <4>1, <6>1, <6>2
        <5>3. CASE worker[n] # None
          <6>1. Outstanding(n)' = Len(queue'[n]) + 1 BY <5>1, <5>3, OutstandingNext
          <6>2. Outstanding(n) = Len(queue[n]) + 1 BY <4>1, <5>3, OutstandingIs
          <6> QED BY <4>1, <6>1, <6>2
        <5> QED BY <5>2, <5>3
      <4>3. ASSUME NEW j \in 1..Len(queue'[n]) PROVE queue'[n][j].rev \in journal'[n]
        <5>1. CASE j = Len(queue[n]) + 1 BY <2>3, <2>4, <4>1, <5>1
        <5>2. CASE j # Len(queue[n]) + 1
          <6>1. j \in 1..Len(queue[n]) BY <4>1, <4>3, <5>2
          <6> QED BY <2>4, <3>1, <4>1, <6>1
        <5> QED BY <5>1, <5>2
      <4> QED BY <4>1, <4>2, <4>3
    <3> QED BY <1>6, <3>2, <3>3
  <2>11. Outstanding(n) <= Cardinality(journal[n]) BY <2>5 DEF JournalKept
  <2>12. Outstanding(n)' \in Nat /\ Outstanding(n) \in Nat
    <3>1. queue'[n] \in Seq(Transaction)
      <4>1. CASE CommitFenced(n, s) BY <1>1, <2>1, <4>1 DEF Typed
      <4>2. CASE Enqueue(n, s)
        <5>1. Command(n, s) \in Transaction /\ queue' = [queue EXCEPT ![n] = Append(@, Command(n, s))]
          BY <4>2, EnqueueTail DEF Enqueue
        <5> QED BY <1>1, <5>1 DEF Typed
      <4> QED BY <1>6, <4>1, <4>2
    <3>2. Len(queue'[n]) \in Nat BY <3>1
    <3> QED BY <1>1, <3>2, OutstandingIs, OutstandingNext
  <2>13. Outstanding(n)' <= Cardinality(journal'[n]) /\ Cardinality(journal'[n]) <= MaxPending
    BY <1>1, <1>2, <2>7, <2>8, <2>10, <2>11, <2>12
  <2>14. JournalKept(n)'
    <3>1. worker'[n] # None => worker'[n].cmd.rev \in journal'[n] BY <1>6, <2>4, <2>5 DEF JournalKept
    <3> QED BY <2>4, <2>7, <2>9, <2>10, <2>13, <3>1 DEF JournalKept
  <2>15. \A m \in Node : m # n => JournalKept(m)' BY <1>1, <1>3, <1>6, <2>4, <2>10
  <2> QED BY <2>4, <2>14, <2>15
<1>7. ASSUME NEW n \in Node, WorkerTake(n)
      PROVE  journal' \in [Node -> SUBSET Rev] /\ \A m \in Node : JournalKept(m)'
  <2>1. /\ Len(queue[n]) \in Nat /\ Len(queue[n]) >= 1 /\ worker[n] = None
        /\ Len(queue'[n]) = Len(queue[n]) - 1
        /\ \A j \in 1..Len(queue'[n]) : j + 1 \in 1..Len(queue[n]) /\ queue'[n][j] = queue[n][j + 1]
        /\ worker'[n] # None /\ worker'[n].cmd = queue[n][1]
        /\ \A m \in Node : m # n => queue'[m] = queue[m] /\ worker'[m] = worker[m]
        /\ UNCHANGED <<wterm, seq, journal>>
    BY <1>7, TakeTail
  <2>2. JournalKept(n) /\ 1 \in 1..Len(queue[n]) BY <2>1
  <2>3. Outstanding(n)' = Outstanding(n) BY <2>1 DEF Outstanding
  <2>4. \A j \in 1..Len(queue'[n]) : queue'[n][j].rev \in journal[n] BY <2>1, <2>2 DEF JournalKept
  <2>5. worker'[n].cmd.rev \in journal[n] BY <2>1, <2>2 DEF JournalKept
  <2>6. JournalKept(n)' BY <2>1, <2>2, <2>3, <2>4, <2>5 DEF JournalKept
  <2> QED BY <1>1, <1>3, <2>1, <2>6
<1>8. ASSUME NEW n \in Node, WorkerPropose(n) \/ WorkerLost(n) \/ WorkerSettle(n)
      PROVE  journal' \in [Node -> SUBSET Rev] /\ \A m \in Node : JournalKept(m)'
  <2>1. /\ worker[n] # None /\ UNCHANGED <<queue, wterm, seq>>
        /\ \A m \in Node : m # n => worker'[m] = worker[m]
        /\ \/ worker'[n] = None
           \/ ~WorkerSettle(n) /\ UNCHANGED journal /\ worker'[n] # None /\ worker'[n].cmd = worker[n].cmd
    BY <1>8, WorkerChange
  <2>2. JournalKept(n) BY <1>8
  <2>3. CASE ~WorkerSettle(n)
    <3>1. UNCHANGED journal BY <1>8, <2>3 DEF WorkerPropose, WorkerLost
    <3>2. JournalKept(n)'
      <4>1. CASE worker'[n] = None
        <5>1. Outstanding(n)' = Len(queue[n]) /\ Outstanding(n) = Len(queue[n]) + 1 BY <2>1, <4>1 DEF Outstanding
        <5>2. Outstanding(n)' <= Cardinality(journal[n]) BY <1>1, <1>2, <2>2, <5>1 DEF JournalKept
        <5> QED BY <2>1, <2>2, <3>1, <4>1, <5>2 DEF JournalKept
      <4>2. CASE worker'[n] # None
        <5>1. Outstanding(n)' = Outstanding(n) BY <2>1, <4>2 DEF Outstanding
        <5> QED BY <2>1, <2>2, <3>1, <4>2, <5>1 DEF JournalKept
      <4> QED BY <4>1, <4>2
    <3> QED BY <1>1, <1>3, <2>1, <3>1, <3>2
  <2>4. CASE WorkerSettle(n)
    <3> DEFINE w == worker[n].cmd.rev
    <3>1. /\ journal' \in [Node -> SUBSET Rev] /\ journal'[n] \in {journal[n], journal[n] \ {w}}
          /\ \A m \in Node : m # n => journal'[m] = journal[m]
      BY <2>4, SettleEffect
    <3>2. worker'[n] = None BY <2>1, <2>4
    <3>3. Outstanding(n)' = Len(queue[n]) /\ Outstanding(n) = Len(queue[n]) + 1
      BY <2>1, <3>2 DEF Outstanding
    <3>4. w \in journal[n] BY <2>1, <2>2 DEF JournalKept
    <3>5. IsFiniteSet(journal'[n]) /\ Cardinality(journal'[n]) \in {Cardinality(journal[n]), Cardinality(journal[n]) - 1}
      <4>1. IsFiniteSet(journal[n] \ {w}) /\ Cardinality(journal[n] \ {w}) = Cardinality(journal[n]) - 1
        BY <1>2, <3>4, FS_RemoveElement
      <4> QED BY <1>2, <3>1, <4>1
    <3>6. Outstanding(n)' <= Cardinality(journal'[n]) /\ Cardinality(journal'[n]) <= MaxPending
      BY <1>1, <1>2, <2>2, <3>3, <3>5 DEF JournalKept
    <3>7. ASSUME NEW j \in 1..Len(queue[n]) PROVE queue[n][j].rev \in journal'[n]
      <4>1. RevLess(w, queue[n][j].rev) BY <2>1 DEF Inv, Issue, QueueOrdered
      <4>2. w[1] \in Nat /\ w[2] \in Nat BY <2>1, Types, RevPair DEF Inv
      <4>3. w # queue[n][j].rev BY <4>1, <4>2 DEF RevLess
      <4> QED BY <2>2, <3>1, <4>3 DEF JournalKept
    <3>8. JournalKept(n)'
      <4>1. journal'[n] \subseteq journal[n] BY <3>1
      <4>2. journal'[n] \subseteq Rev BY <3>1
      <4>3. \A j \in 1..Len(queue'[n]) : queue'[n][j].rev \in journal'[n] BY <2>1, <3>7
      <4>4. wterm'[n] # 0 => \A r \in journal'[n] : r[1] = wterm'[n] /\ r[2] <= seq'[n]
        BY <2>1, <2>2, <4>1 DEF JournalKept
      <4>5. worker'[n] # None => worker'[n].cmd.rev \in journal'[n] BY <3>2
      <4> QED BY <3>5, <3>6, <4>2, <4>3, <4>4, <4>5 DEF JournalKept
    <3>9. ASSUME NEW m \in Node, m # n PROVE JournalKept(m)'
      <4>1. seq[m] \in Nat /\ seq'[m] = seq[m] /\ journal'[m] = journal[m] BY <1>1, <2>1, <3>1, <3>9
      <4> QED BY <1>3, <2>1, <3>9, <4>1
    <3> QED BY <3>1, <3>8, <3>9
  <2> QED BY <2>3, <2>4
<1>9. ASSUME NEW n \in Node, Ensure(n)
      PROVE  journal' \in [Node -> SUBSET Rev] /\ \A m \in Node : JournalKept(m)'
  <2>1. /\ Outstanding(n) = 0 /\ UNCHANGED <<queue, worker>> /\ journal' = [journal EXCEPT ![n] = {}]
        /\ seq' = [seq EXCEPT ![n] = FirstSequence(n)] /\ wterm' = [wterm EXCEPT ![n] = Term]
    BY <1>9 DEF Ensure, BaselineReady
  <2>2. Quiet(n) /\ Outstanding(n)' = 0 BY <2>1, EnsureQuiet DEF Outstanding
  <2>3. /\ journal' \in [Node -> SUBSET Rev] /\ journal'[n] = {}
        /\ \A m \in Node : m # n => journal'[m] = journal[m] /\ seq'[m] = seq[m] /\ wterm'[m] = wterm[m]
    BY <1>1, <2>1
  <2>4. IsFiniteSet({}) /\ Cardinality({}) = 0 BY FS_EmptySet
  <2>5. JournalKept(n)'
    <3>1. Outstanding(n)' <= Cardinality(journal'[n]) /\ Cardinality(journal'[n]) <= MaxPending
      BY <1>1, <2>2, <2>3, <2>4
    <3>2. Len(queue'[n]) = 0 /\ worker'[n] = None BY <2>1, <2>2 DEF Quiet
    <3> QED BY <2>3, <2>4, <3>1, <3>2 DEF JournalKept
  <2> QED BY <1>1, <1>3, <2>1, <2>3, <2>5
<1>10. ASSUME NEW n \in Node, Restart(n)
       PROVE  journal' \in [Node -> SUBSET Rev] /\ \A m \in Node : JournalKept(m)'
  <2>1. /\ queue' = [queue EXCEPT ![n] = <<>>] /\ worker' = [worker EXCEPT ![n] = None] /\ UNCHANGED journal
        /\ seq' = [seq EXCEPT ![n] = 0] /\ wterm' = [wterm EXCEPT ![n] = 0]
    BY <1>10 DEF Restart
  <2>2. /\ queue'[n] = <<>> /\ Len(queue'[n]) = 0 /\ worker'[n] = None /\ wterm'[n] = 0
        /\ \A m \in Node : m # n => /\ queue'[m] = queue[m] /\ worker'[m] = worker[m]
                                    /\ seq'[m] = seq[m] /\ wterm'[m] = wterm[m]
    BY <1>1, <2>1 DEF Typed
  <2>3. JournalKept(n) BY <1>10
  <2>4. Outstanding(n)' = 0 BY <2>2 DEF Outstanding
  <2>5. JournalKept(n)'
    <3>1. Outstanding(n)' <= Cardinality(journal'[n]) BY <1>2, <2>1, <2>4
    <3>2. /\ IsFiniteSet(journal'[n]) /\ journal'[n] \subseteq Rev
          /\ Cardinality(journal'[n]) <= MaxPending
      BY <2>1, <2>3 DEF JournalKept
    <3>3. \A j \in 1..Len(queue'[n]) : queue'[n][j].rev \in journal'[n] BY <2>2
    <3>4. /\ worker'[n] # None => worker'[n].cmd.rev \in journal'[n]
          /\ wterm'[n] # 0 => \A r \in journal'[n] : r[1] = wterm'[n] /\ r[2] <= seq'[n]
      BY <2>2
    <3> QED BY <3>1, <3>2, <3>3, <3>4 DEF JournalKept
  <2>6. ASSUME NEW m \in Node, m # n PROVE JournalKept(m)'
    <3>1. seq[m] \in Nat /\ seq'[m] = seq[m] /\ journal'[m] = journal[m] BY <1>1, <2>1, <2>2, <2>6
    <3> QED BY <1>3, <2>2, <2>6, <3>1
  <2> QED BY <2>1, <2>5, <2>6
<1>11. ASSUME NEW n \in Node, NEW s \in Shapes, CommitFenced(n, s) \/ CommitLocal(n, s) \/ CommitReplicated(n, s)
       PROVE  journal' \in [Node -> SUBSET Rev] /\ \A m \in Node : JournalKept(m)'
  <2>1. (CommitFenced(n, s) \/ Enqueue(n, s)) /\ UNCHANGED <<worker, wterm>>
    BY <1>11 DEF CommitFenced, CommitLocal, CommitReplicated
  <2> QED BY <1>6, <2>1
<1> QED BY <1>4, <1>5, <1>7, <1>8, <1>9, <1>10, <1>11 DEF Next, Worker, Aside, RaftStep, LeaseStep

\* Nothing waits at the start.
LEMMA WaitsInit == Init => Waits
<1> SUFFICES ASSUME Init PROVE Waits OBVIOUS
<1>1. /\ elections = <<>> /\ voters = 1 /\ \A n \in Node : leaseTerm[n] = 0
      /\ \A n \in Node : view[n] = NoRecords /\ wterm[n] = 0 /\ caller[n] = None
      /\ \A n \in Node : queue[n] = <<>> /\ Len(queue[n]) = 0 /\ worker[n] = None
      /\ journal \in [Node -> SUBSET Rev] /\ \A n \in Node : journal[n] = {}
  BY DEF Init
<1>2. \A k \in Key : NoRecords[k].rev = NoRev BY DEF NoRecords
<1> HIDE DEF NoRecords, NoRev
<1>3. \A n \in Node, c \in Transaction : ~InQueue(n, c) /\ ~InWorker(n, c) BY <1>1 DEF InQueue, InWorker
<1>4. PipelineTerm /\ ViewsUsed /\ CallerNewest BY <1>1, <1>2, <1>3 DEF PipelineTerm, ViewsUsed, CallerNewest
<1>5. Term = 0 BY <1>1 DEF Term
<1>6. Bounds BY <1>1, <1>5 DEF Bounds
<1>7. ASSUME NEW n \in Node PROVE JournalKept(n)
  <2>1. Len(queue[n]) = 0 /\ worker[n] = None /\ journal[n] = {} /\ wterm[n] = 0 BY <1>1
  <2>2. Outstanding(n) = 0 BY <2>1, OutstandingIs
  <2>3. IsFiniteSet(journal[n]) /\ Cardinality(journal[n]) = 0 BY <2>1, FS_EmptySet
  <2>4. MaxPending \in Nat BY BoundsAssumption
  <2>5. Outstanding(n) <= Cardinality(journal[n]) /\ Cardinality(journal[n]) <= MaxPending
    BY <2>2, <2>3, <2>4
  <2> QED BY <2>1, <2>3, <2>5 DEF JournalKept
<1> QED BY <1>1, <1>4, <1>6, <1>7 DEF Waits

\* Every step keeps it.
LEMMA WaitsNext == Inv /\ Inv' /\ Waits /\ [Next]_vars => Waits'
<1> SUFFICES ASSUME Inv, Inv', Waits, [Next]_vars PROVE Waits' OBVIOUS
<1>1. /\ PipelineTerm /\ ViewsUsed /\ CallerNewest /\ Bounds
      /\ journal \in [Node -> SUBSET Rev] /\ \A n \in Node : JournalKept(n)
  BY DEF Waits
<1>2. PipelineTerm' BY <1>1, PipelineTermNext
<1>3. ViewsUsed' BY <1>1, ViewsUsedNext
<1>4. CallerNewest' BY <1>1, CallerNewestNext
<1>5. Bounds' BY <1>1, BoundsNext
<1>6. journal' \in [Node -> SUBSET Rev] /\ \A n \in Node : JournalKept(n)' BY <1>1, JournalNext
<1> QED BY <1>2, <1>3, <1>4, <1>5, <1>6 DEF Waits

\* Both invariants hold of every state.
LEMMA WaitsInvariant == Spec => [](Inv /\ Waits)
<1>1. Init => Inv /\ Waits BY InitInv, WaitsInit
<1>2. Inv /\ Waits /\ [Next]_vars => (Inv /\ Waits)' BY NextInv, WaitsNext
<1> QED BY <1>1, <1>2, PTL DEF Spec

\* The fields of asyncWriter keep their types; a proposal that passed the
\* journal's bound always finds room in the queue channel, so commit's ErrCapacity
\* arm after the journal is never taken (async.go).
THEOREM TypesHold == Spec => []TypeOK
<1>1. Inv /\ Waits => TypeOK
  <2> SUFFICES ASSUME Inv, Waits PROVE TypeOK OBVIOUS
  <2>1. Typed /\ Leaders /\ Bounds /\ Term \in Nat /\ Committed \in Nat /\ Len(log) \in Nat
        /\ Len(hist) = Committed + 1 /\ Committed <= Len(log)
    BY Types DEF Inv, Waits, Typed
  <2>2. Len(hist) \in 1..(Len(log) + 1) BY <2>1
  <2>3. \A n \in Node : believes[n] <= Term /\ wterm[n] <= Term /\ leaseTerm[n] <= Term
    BY <2>1 DEF Leaders, Bounds
  <2>4. QueueHasRoom
    <3> SUFFICES ASSUME NEW n \in Node
                 PROVE  Outstanding(n) <= MaxPending /\ {queue[n][i].rev : i \in DOMAIN queue[n]} \subseteq journal[n]
      BY DEF QueueHasRoom
    <3>1. JournalKept(n) BY DEF Waits
    <3>2. Cardinality(journal[n]) \in Nat /\ MaxPending \in Nat BY <3>1, FS_CardinalityType, BoundsAssumption DEF JournalKept
    <3>3. queue[n] \in Seq(Transaction) BY <2>1 DEF Typed
    <3>4. Len(queue[n]) \in Nat /\ DOMAIN queue[n] = 1..Len(queue[n]) BY <3>3
    <3>5. Outstanding(n) \in Nat BY <3>4, OutstandingIs
    <3>6. Outstanding(n) <= MaxPending BY <3>1, <3>2, <3>5 DEF JournalKept
    <3> QED BY <3>1, <3>4, <3>6 DEF JournalKept
  <2>5. voters \in {1, 2} /\ journal \in [Node -> SUBSET Rev] BY DEF Waits, Bounds
  <2> QED BY <2>1, <2>2, <2>3, <2>4, <2>5 DEF TypeOK, Typed
<1> QED BY <1>1, WaitsInvariant, PTL

\* What a node that goes on serving shows only gets newer.
LEMMA ServedStep ==
  ASSUME Inv, Waits, [Next]_vars, NEW m \in Node, Serving(m), Serving(m)', NEW k \in Key
  PROVE  RevLeq(view[m][k].rev, view'[m][k].rev)
<1>1. Typed /\ view[m][k].rev \in Rev /\ view[m] \in States /\ view \in [Node -> States]
  BY DEF Inv, Typed, States, Record
<1>2. CASE view'[m] = view[m] BY <1>1, <1>2, RevOrder
<1>3. ASSUME NEW n \in Node, NEW x, view' = [view EXCEPT ![n] = x] PROVE view'[m] = view[m] \/ (m = n /\ view'[m] = x)
  BY <1>1, <1>3
<1>4. ASSUME NEW n \in Node, Ensure(n) PROVE view'[m] = view[m]
  <2>1. m # n BY <1>4, ServingLeads DEF Ensure, NeedsBaseline
  <2> QED BY <1>1, <1>4, <2>1 DEF Ensure
<1>5. ASSUME NEW n \in Node, Restart(n) PROVE view'[m] = view[m]
  <2>1. view' = [view EXCEPT ![n] = NoRecords] /\ believes' = [believes EXCEPT ![n] = 0] BY <1>5 DEF Restart
  <2>2. believes'[m] # 0 BY DEF Serving, Authoritative
  <2>3. m # n BY <1>1, <2>1, <2>2 DEF Typed
  <2> QED BY <1>1, <2>1, <2>3
<1>6. ASSUME NEW n \in Node, CallerDone(n) PROVE RevLeq(view[m][k].rev, view'[m][k].rev)
  <2>1. CASE UNCHANGED view BY <1>2, <2>1
  <2>2. CASE view' # view
    <3> DEFINE c == caller[n].cmd
               p == caller[n].preview
    <3>1. /\ caller[n] # None /\ caller[n].result = "ok" /\ wterm[n] = c.rev[1] /\ ~failed[n]
          /\ view' = [view EXCEPT ![n] = p]
      BY <1>6, <2>2 DEF CallerDone
    <3>2. CallerKept(n) BY <3>1 DEF Inv, Callers
    <3>3. IF k \in c.writes THEN p[k].rev = c.rev ELSE p[k] = view[n][k] BY <3>1, <3>2 DEF CallerKept
    <3>4. RevLeq(view[n][k].rev, c.rev) BY <3>1 DEF Waits, CallerNewest
    <3> HIDE DEF c, p
    <3> QED BY <1>1, <1>2, <1>3, <3>1, <3>3, <3>4, RevOrder
  <2> QED BY <2>1, <2>2
<1>7. ASSUME NEW n \in Node, NEW s \in Shapes, CommitLocal(n, s) PROVE RevLeq(view[m][k].rev, view'[m][k].rev)
  <2>1. Enqueue(n, s) /\ view' = [view EXCEPT ![n] = Install(view[n], Command(n, s))] BY <1>7 DEF CommitLocal
  <2>2. PICK c \in Transaction : c = Command(n, s) /\ c.rev = NextRev(n) /\ Serving(n) BY <2>1, EnqueueTail
  <2>3. CASE m # n BY <1>2, <1>3, <2>1, <2>3
  <2>4. CASE m = n
    <3>1. IF k \in c.writes THEN Install(view[n], c)[k].rev = c.rev ELSE Install(view[n], c)[k] = view[n][k]
      BY <1>1, <2>4, InstallTyped
    <3>2. view'[m] = Install(view[n], c) BY <1>1, <2>1, <2>2, <2>4
    <3>3. RevLeq(view[n][k].rev, c.rev)
      <4>1. view[n][k].rev \in Rev /\ c.rev \in Rev BY <1>1, <2>4 DEF Transaction
      <4>2. CASE view[n][k].rev = NoRev BY <4>1, <4>2, RevOrder
      <4>3. CASE Used(view[n][k].rev)
        <5>1. RevLess(view[n][k].rev, c.rev) BY <2>2, <4>1, <4>3, UsedBefore
        <5>2. {view[n][k].rev[1], view[n][k].rev[2], c.rev[1], c.rev[2]} \subseteq Nat BY <4>1, RevPair
        <5> QED BY <5>1, <5>2 DEF RevLess, RevLeq
      <4> QED BY <4>2, <4>3 DEF Waits, ViewsUsed
    <3>4. CASE k \in c.writes BY <2>4, <3>1, <3>2, <3>3, <3>4
    <3>5. CASE k \notin c.writes
      <4>1. view'[m][k].rev = view[m][k].rev BY <2>4, <3>1, <3>2, <3>5
      <4> QED BY <1>1, <4>1, RevOrder
    <3> QED BY <3>4, <3>5
  <2> QED BY <2>3, <2>4
<1>8. ASSUME NEW n \in Node, CallerTimeout(n) \/ Worker(n) PROVE UNCHANGED view
  BY <1>8 DEF CallerTimeout, Worker, WorkerTake, WorkerPropose, WorkerLost, WorkerSettle
<1>9. ASSUME NEW n \in Node, NEW s \in Shapes, CommitRefused(n, s) \/ CommitFenced(n, s) \/ CommitReplicated(n, s)
      PROVE UNCHANGED view
  BY <1>9 DEF CommitRefused, CommitFenced, CommitReplicated
<1>10. CASE RaftStep \/ LeaseStep \/ UNCHANGED vars
  <2>1. UNCHANGED view BY <1>10, RaftFrame DEF LeaseStep, RenewLease, LeaseExpires, vars
  <2> QED BY <1>2, <2>1
<1> QED BY <1>2, <1>4, <1>5, <1>6, <1>7, <1>8, <1>9, <1>10 DEF Next, RaftStep, LeaseStep

\* While a node keeps serving, no record of its view goes back to an earlier
\* revision: an acknowledged upload disappears only through a fence and a
\* rebuild (commit, replicate and ensure in async.go).
THEOREM ServedViewsAdvance == Spec => ServedViewNeverRegresses
<1>1. Inv /\ Waits /\ [Next]_vars =>
        [\A n \in Node : Serving(n) /\ Serving(n)' =>
            \A k \in Key : RevLeq(view[n][k].rev, view'[n][k].rev)]_vars
  BY ServedStep
<1> QED BY <1>1, WaitsInvariant, PTL DEF Spec, ServedViewNeverRegresses

-----------------------------------------------------------------------------
(* What was predicted is what Raft applies *)

\* S[i + 1] is the state after the first i entries of the log, committed or
\* not, and accepts every entry that was proposed in its own term.
Chain(S) ==
    /\ \A j \in 1..Len(hist) : S[j] = hist[j]
    /\ \A i \in 1..Len(log) :
        /\ S[i + 1] = Apply(S[i], log[i].cmd, log[i].term)
        /\ log[i].cmd.rev[1] = log[i].term => Accepts(S[i], log[i].cmd, log[i].term)

Proposing(n) == worker[n] # None /\ worker[n].stage = "propose"

\* The log's last state e accepts what the leader's worker is about to propose.
Ready(n, e) ==
    Term # 0 /\ believes[n] = Term /\ Proposing(n) /\ worker[n].cmd.rev[1] = Term =>
        Accepts(e, worker[n].cmd, Term)

\* The view that everything outstanding leads to.
Target(n) ==
    IF caller[n] # None /\ caller[n].cmd.rev[1] = wterm[n] /\ caller[n].result # "error"
    THEN caller[n].preview ELSE view[n]

\* P are the states from e through the queue to that view.
Path(n, e, P) ==
    /\ P[1] = IF Proposing(n) THEN Install(e, worker[n].cmd) ELSE e
    /\ \A j \in 1..Len(queue[n]) :
        Accepts(P[j], queue[n][j], Term) /\ P[j + 1] = Install(P[j], queue[n][j])
    /\ P[Len(queue[n]) + 1] = Target(n)

\* The leader's pipeline goes on: no failure was noticed, or will be.
Flowing(n) ==
    /\ Term # 0 /\ believes[n] = Term /\ wterm[n] = Term /\ ~failed[n]
    /\ worker[n] # None => worker[n].stage # "failed"

Foreseen(n, e) == Ready(n, e) /\ (Flowing(n) => \E P \in [Nat -> States] : Path(n, e, P))

Predicted ==
    \E S \in [Nat -> States] : Chain(S) /\ \A n \in Node : Foreseen(n, S[Len(log) + 1])

\* Nothing concerns the pipeline of m, unless it comes to a stop.
Stay(m) ==
    /\ worker'[m] = worker[m] /\ believes'[m] \in {0, believes[m]}
    /\ \/ failed'[m]
       \/ /\ queue'[m] = queue[m] /\ caller'[m] = caller[m] /\ view'[m] = view[m]
          /\ wterm'[m] = wterm[m] /\ failed'[m] = failed[m]

\* Then what was foreseen stays foreseen.
LEMMA StayForeseen ==
  ASSUME UNCHANGED elections, NEW m \in Node, Stay(m), NEW e \in States, Foreseen(m, e)
  PROVE  Foreseen(m, e)'
<1>1. Term' = Term /\ (Proposing(m)' <=> Proposing(m)) BY DEF Term, Proposing, Stay
<1>2. Ready(m, e)' BY <1>1 DEF Ready, Foreseen, Stay
<1>3. ASSUME Flowing(m)' PROVE \E P \in [Nat -> States] : Path(m, e, P)'
  <2>1. /\ queue'[m] = queue[m] /\ caller'[m] = caller[m] /\ view'[m] = view[m]
        /\ wterm'[m] = wterm[m] /\ failed'[m] = failed[m] /\ worker'[m] = worker[m]
        /\ believes'[m] = believes[m]
    BY <1>1, <1>3 DEF Flowing, Stay
  <2>2. Flowing(m) BY <1>1, <1>3, <2>1 DEF Flowing
  <2>3. PICK P \in [Nat -> States] : Path(m, e, P) BY <2>2 DEF Foreseen
  <2>4. Target(m)' = Target(m) BY <2>1 DEF Target
  <2>5. Path(m, e, P)' BY <1>1, <2>1, <2>3, <2>4 DEF Path
  <2> QED BY <2>5
<1> QED BY <1>2, <1>3 DEF Foreseen

\* A step that leaves the log alone.
LEMMA ForeseenStep ==
  ASSUME Inv, Predicted, UNCHANGED <<log, hist>>,
         \A e \in States : (Committed = Len(log) => e = Last) /\ (\A n \in Node : Foreseen(n, e)) =>
            \A n \in Node : Foreseen(n, e)'
  PROVE  Predicted'
<1>1. PICK S \in [Nat -> States] : Chain(S) /\ \A n \in Node : Foreseen(n, S[Len(log) + 1])
  BY DEF Predicted
<1>2. Len(log) \in Nat /\ Committed \in Nat /\ Len(hist) = Committed + 1 BY Types DEF Inv
<1>3. PICK e \in States : e = S[Len(log) + 1] BY <1>1, <1>2
<1>4. Committed = Len(log) => e = Last BY <1>1, <1>2, <1>3 DEF Chain, Last
<1>5. \A n \in Node : Foreseen(n, e)' BY <1>1, <1>3, <1>4
<1>6. Chain(S)' BY <1>1 DEF Chain
<1>7. S[Len(log') + 1] = e BY <1>3
<1>8. \A n \in Node : Foreseen(n, S[Len(log) + 1])' BY <1>5, <1>7 DEF Foreseen, Ready, Path
<1> QED BY <1>1, <1>6, <1>8 DEF Predicted

\* A step of one node.
LEMMA NodeForeseen ==
  ASSUME Inv, Predicted, UNCHANGED <<elections, log, hist>>, NEW n \in Node,
         \A m \in Node : m # n => Stay(m),
         \A e \in States : (Committed = Len(log) => e = Last) /\ Foreseen(n, e) => Foreseen(n, e)'
  PROVE  Predicted'
BY ForeseenStep, StayForeseen

\* What may stop the pipeline of n but never changes it otherwise.
LEMMA StopForeseen ==
  ASSUME Inv, Predicted, NEW n \in Node,
         \/ RenewLease(n) \/ LeaseExpires(n) \/ CallerTimeout(n) \/ Restart(n) \/ WorkerLost(n)
         \/ \E s \in Shapes : CommitRefused(n, s) \/ CommitFenced(n, s)
  PROVE  Predicted'
<1>1. Typed BY DEF Inv
<1>2. CASE \/ RenewLease(n) \/ LeaseExpires(n) \/ CallerTimeout(n)
           \/ \E s \in Shapes : CommitRefused(n, s) \/ CommitFenced(n, s)
  <2>1. /\ UNCHANGED <<elections, log, hist, believes, queue, worker, view, wterm>>
        /\ \/ UNCHANGED <<failed, caller>>
           \/ /\ failed' = [failed EXCEPT ![n] = TRUE]
              /\ \/ UNCHANGED caller
                 \/ caller' = [caller EXCEPT ![n] = None]
    BY <1>2 DEF RenewLease, LeaseExpires, CallerTimeout, CommitRefused, CommitFenced, raftVars
  <2>2. \A m \in Node : Stay(m) BY <1>1, <2>1 DEF Stay, Typed
  <2> QED BY <2>1, <2>2, NodeForeseen, StayForeseen
<1>3. CASE Restart(n)
  <2>1. /\ UNCHANGED <<elections, log, hist>>
        /\ believes' = [believes EXCEPT ![n] = 0] /\ view' = [view EXCEPT ![n] = NoRecords]
        /\ wterm' = [wterm EXCEPT ![n] = 0] /\ failed' = [failed EXCEPT ![n] = FALSE]
        /\ queue' = [queue EXCEPT ![n] = <<>>] /\ worker' = [worker EXCEPT ![n] = None]
        /\ caller' = [caller EXCEPT ![n] = None]
    BY <1>3 DEF Restart
  <2>2. \A m \in Node : m # n => Stay(m) BY <1>1, <2>1 DEF Stay, Typed
  <2>3. ASSUME NEW e \in States PROVE Foreseen(n, e)'
    <3>1. believes'[n] = 0 BY <1>1, <2>1 DEF Typed
    <3> QED BY <3>1 DEF Foreseen, Ready, Flowing
  <2> QED BY <2>1, <2>2, <2>3, NodeForeseen
<1>4. CASE WorkerLost(n)
  <2> DEFINE w == [worker[n] EXCEPT !.stage = "failed"]
  <2>1. /\ UNCHANGED <<elections, log, hist, believes, queue, view, wterm, failed, caller>>
        /\ worker' = [worker EXCEPT ![n] = w] /\ worker[n] # None
    BY <1>4 DEF WorkerLost, raftVars
  <2>2. worker[n] \in Proposal BY <1>1, <2>1 DEF Typed
  <2>3. w \in Proposal /\ w.stage = "failed" BY <2>2 DEF Proposal
  <2>4. w # None BY <2>3, NoneAssumption
  <2> HIDE DEF w
  <2>5. \A m \in Node : m # n => Stay(m) BY <1>1, <2>1 DEF Stay, Typed
  <2>6. worker'[n] = w BY <1>1, <2>1 DEF Typed
  <2>7. ASSUME NEW e \in States PROVE Foreseen(n, e)'
    BY <2>3, <2>4, <2>6 DEF Foreseen, Ready, Flowing, Proposing
  <2> QED BY <2>1, <2>5, <2>7, NodeForeseen
<1> QED BY <1>2, <1>3, <1>4

\* A rebuild starts from the end of the log, with nothing outstanding.
LEMMA EnsureForeseen == ASSUME Inv, Predicted, NEW n \in Node, Ensure(n) PROVE Predicted'
<1>1. Typed /\ Committed \in Nat /\ Len(hist) = Committed + 1 BY Types DEF Inv
<1>2. /\ UNCHANGED <<elections, log, hist, believes, queue, worker, caller>>
      /\ view' = [view EXCEPT ![n] = hist[applied[n] + 1]]
      /\ wterm' = [wterm EXCEPT ![n] = Term] /\ failed' = [failed EXCEPT ![n] = FALSE]
      /\ Committed = Len(log) /\ applied[n] = Len(log) /\ Outstanding(n) = 0
  BY DEF Ensure, BaselineReady, raftVars
<1>3. view'[n] = Last /\ wterm'[n] = Term /\ Term' = Term BY <1>1, <1>2 DEF Typed, Last, Term
<1>4. Quiet(n) BY <1>2, EnsureQuiet
<1>5. \A m \in Node : m # n => Stay(m) BY <1>1, <1>2 DEF Stay, Typed
<1>6. ASSUME NEW e \in States, e = Last PROVE Foreseen(n, e)'
  <2>1. worker'[n] = None /\ queue'[n] = <<>> BY <1>2, <1>4 DEF Quiet
  <2>2. Target(n)' = e
    <3>1. Target(n)' = IF caller[n] # None /\ caller[n].cmd.rev[1] = wterm'[n] /\ caller[n].result # "error"
                       THEN caller[n].preview ELSE view'[n]
      BY <1>2 DEF Target
    <3> QED BY <1>3, <1>6, <3>1, EnsureCaller
  <2> DEFINE P == [i \in Nat |-> e]
  <2>3. P \in [Nat -> States] /\ P[1] = e /\ P[Len(queue'[n]) + 1] = e /\ Len(queue'[n]) = 0 BY <2>1
  <2> HIDE DEF P
  <2>4. Path(n, e, P)' BY <2>1, <2>2, <2>3 DEF Path, Proposing
  <2> QED BY <2>1, <2>3, <2>4 DEF Foreseen, Ready, Proposing
<1> QED BY <1>2, <1>5, <1>6, NodeForeseen

\* Publishing makes the preview the view.
LEMMA DoneForeseen == ASSUME Inv, Predicted, NEW n \in Node, CallerDone(n) PROVE Predicted'
<1>1. Typed BY DEF Inv
<1>2. /\ UNCHANGED <<elections, log, hist, believes, queue, worker, wterm>>
      /\ caller[n] # None /\ caller' = [caller EXCEPT ![n] = None]
  BY DEF CallerDone, raftVars
<1>3. \A m \in Node : m # n => Stay(m) BY <1>1, <1>2 DEF CallerDone, Stay, Typed
<1>4. Term' = Term /\ caller'[n] = None /\ (Proposing(n)' <=> Proposing(n)) BY <1>1, <1>2 DEF Term, Typed, Proposing
<1>5. ~failed'[n] => ~failed[n] /\ Target(n)' = Target(n)
  <2>1. Target(n)' = view'[n] BY <1>4 DEF Target
  <2>2. CASE caller[n].result = "error" /\ UNCHANGED <<view, failed>> BY <2>1, <2>2 DEF Target
  <2>3. CASE /\ caller[n].result = "ok" /\ wterm[n] = caller[n].cmd.rev[1] /\ UNCHANGED failed
             /\ view' = [view EXCEPT ![n] = caller[n].preview]
    BY <1>1, <1>2, <2>1, <2>3 DEF Target, Typed
  <2>4. CASE /\ caller[n].result = "ok" /\ UNCHANGED view
             /\ failed' = [failed EXCEPT ![n] = @ \/ wterm[n] = caller[n].cmd.rev[1]]
    <3> DEFINE cond == wterm[n] = caller[n].cmd.rev[1]
    <3>1. failed \in [Node -> BOOLEAN] /\ cond \in BOOLEAN /\ failed' = [failed EXCEPT ![n] = @ \/ cond]
      BY <1>1, <2>4 DEF Typed
    <3> HIDE DEF cond
    <3>2. failed'[n] <=> (failed[n] \/ cond) BY <3>1, Zenon
    <3> QED BY <1>2, <2>1, <2>4, <3>2 DEF Target, cond
  <2> QED BY <2>2, <2>3, <2>4 DEF CallerDone
<1>6. ASSUME NEW e \in States, Foreseen(n, e) PROVE Foreseen(n, e)'
  <2>1. Ready(n, e)' BY <1>2, <1>4, <1>6 DEF Foreseen, Ready
  <2>2. ASSUME Flowing(n)' PROVE \E P \in [Nat -> States] : Path(n, e, P)'
    <3>1. Flowing(n) /\ Target(n)' = Target(n) BY <1>2, <1>4, <1>5, <2>2 DEF Flowing
    <3>2. PICK P \in [Nat -> States] : Path(n, e, P) BY <1>6, <3>1 DEF Foreseen
    <3>3. Path(n, e, P)' BY <1>2, <1>4, <3>1, <3>2 DEF Path
    <3> QED BY <3>3
  <2> QED BY <2>1, <2>2 DEF Foreseen
<1> QED BY <1>2, <1>3, <1>6, NodeForeseen

\* A commit is accepted by the view, and its outcome comes after the queue.
LEMMA CommitForeseen ==
  ASSUME Inv, Predicted, NEW n \in Node, NEW s \in Shapes, CommitLocal(n, s) \/ CommitReplicated(n, s)
  PROVE  Predicted'
<1>1. Typed BY DEF Inv
<1>2. /\ Enqueue(n, s) /\ UNCHANGED <<elections, log, hist, believes, worker, wterm, failed>>
      /\ \/ view' = [view EXCEPT ![n] = Install(view[n], Command(n, s))] /\ UNCHANGED caller
         \/ /\ UNCHANGED view
            /\ caller' = [caller EXCEPT ![n] = [cmd |-> Command(n, s), result |-> "pending",
                                                preview |-> Install(view[n], Command(n, s))]]
  BY DEF CommitLocal, CommitReplicated, raftVars
<1>3. PICK c \in Transaction : c = Command(n, s) BY <1>2, EnqueueTail
<1>4. /\ Serving(n) /\ caller[n] = None /\ Accepts(view[n], c, wterm[n]) /\ c.rev = NextRev(n)
      /\ Len(queue[n]) \in Nat /\ Len(queue'[n]) = Len(queue[n]) + 1 /\ queue'[n][Len(queue[n]) + 1] = c
      /\ \A j \in 1..Len(queue[n]) : queue'[n][j] = queue[n][j]
      /\ \A m \in Node : m # n => queue'[m] = queue[m]
  BY <1>2, <1>3, EnqueueTail DEF Preflight
<1>5. /\ Term' = Term /\ wterm[n] = Term /\ believes[n] = Term /\ Term # 0 /\ ~failed[n]
      /\ c.rev[1] = wterm[n] /\ (Proposing(n)' <=> Proposing(n))
  BY <1>2, <1>4, ServingLeads DEF Term, NextRev, Proposing
<1>6. \A m \in Node : m # n => Stay(m) BY <1>1, <1>2, <1>4 DEF Stay, Typed
<1>7. PICK a \in States : a = Install(view[n], c) BY <1>1, InstallTyped DEF Typed
<1>8. Target(n) = view[n] /\ Target(n)' = a
  <2>1. Target(n) = view[n] BY <1>4 DEF Target
  <2>2. CASE view' = [view EXCEPT ![n] = a] /\ UNCHANGED caller
    BY <1>1, <1>4, <2>2 DEF Target, Typed
  <2>3. CASE UNCHANGED view /\ caller' = [caller EXCEPT ![n] = [cmd |-> c, result |-> "pending", preview |-> a]]
    <3> DEFINE w == [cmd |-> c, result |-> "pending", preview |-> a]
    <3>1. w \in Waiting /\ w.cmd = c /\ w.result = "pending" /\ w.preview = a BY <1>3, <1>7 DEF Waiting
    <3>2. w # None BY <3>1, NoneAssumption
    <3> HIDE DEF w
    <3>3. caller'[n] = w BY <1>1, <2>3 DEF Typed, w
    <3> QED BY <1>2, <1>5, <2>1, <3>1, <3>2, <3>3 DEF Target
  <2> QED BY <1>2, <1>3, <1>7, <2>1, <2>2, <2>3
<1>9. ASSUME NEW e \in States, Foreseen(n, e) PROVE Foreseen(n, e)'
  <2>1. Ready(n, e)' BY <1>2, <1>5, <1>9 DEF Foreseen, Ready
  <2>2. ASSUME Flowing(n)' PROVE \E P \in [Nat -> States] : Path(n, e, P)'
    <3>1. Flowing(n) BY <1>2, <1>5, <2>2 DEF Flowing
    <3>2. PICK P \in [Nat -> States] : Path(n, e, P) BY <1>9, <3>1 DEF Foreseen
    <3>3. PICK l \in Nat : l = Len(queue[n]) BY <1>4
    <3> DEFINE Q == [P EXCEPT ![l + 2] = a]
    <3>4. Q \in [Nat -> States] /\ Q[l + 2] = a /\ \A j \in 1..(l + 1) : Q[j] = P[j] BY <3>2, <3>3
    <3> HIDE DEF Q
    <3>5. /\ P[l + 1] = view[n]
          /\ \A j \in 1..l : Accepts(P[j], queue[n][j], Term) /\ P[j + 1] = Install(P[j], queue[n][j])
      BY <1>8, <3>2, <3>3 DEF Path
    <3>6. Q[1] = IF Proposing(n)' THEN Install(e, worker'[n].cmd) ELSE e
      <4>1. 1 \in 1..(l + 1) BY <3>3
      <4>2. Q[1] = P[1] BY <3>4, <4>1
      <4>3. P[1] = IF Proposing(n) THEN Install(e, worker[n].cmd) ELSE e BY <3>2 DEF Path
      <4>4. worker'[n] = worker[n] BY <1>2
      <4> QED BY <1>5, <4>2, <4>3, <4>4
    <3>7. ASSUME NEW j \in 1..Len(queue'[n])
          PROVE  Accepts(Q[j], queue'[n][j], Term') /\ Q[j + 1] = Install(Q[j], queue'[n][j])
      <4>1. CASE j = l + 1
        <5>1. Q[j] = view[n] /\ Q[j + 1] = a /\ queue'[n][j] = c BY <1>4, <3>3, <3>4, <3>5, <4>1
        <5> QED BY <1>4, <1>5, <1>7, <5>1
      <4>2. CASE j # l + 1
        <5>1. j \in 1..l /\ j \in 1..(l + 1) /\ j + 1 \in 1..(l + 1) BY <1>4, <3>3, <3>7, <4>2
        <5>2. Q[j] = P[j] /\ Q[j + 1] = P[j + 1] BY <3>4, <5>1
        <5>3. queue'[n][j] = queue[n][j] BY <1>4, <3>3, <5>1
        <5>4. Accepts(P[j], queue[n][j], Term) /\ P[j + 1] = Install(P[j], queue[n][j]) BY <3>5, <5>1
        <5> QED BY <1>5, <5>2, <5>3, <5>4
      <4> QED BY <4>1, <4>2
    <3>8. Q[Len(queue'[n]) + 1] = Target(n)' BY <1>4, <1>8, <3>3, <3>4
    <3>9. Path(n, e, Q)' BY <3>6, <3>7, <3>8 DEF Path
    <3> QED BY <3>4, <3>9
  <2> QED BY <2>1, <2>2 DEF Foreseen
<1> QED BY <1>2, <1>6, <1>9, NodeForeseen

\* What the worker takes is what comes next.
LEMMA TakeForeseen == ASSUME Inv, Predicted, NEW n \in Node, WorkerTake(n) PROVE Predicted'
<1>1. Typed /\ Leaders BY DEF Inv
<1>2. /\ Len(queue[n]) \in Nat /\ Len(queue[n]) >= 1 /\ worker[n] = None
      /\ Len(queue'[n]) = Len(queue[n]) - 1
      /\ \A j \in 1..Len(queue'[n]) : j + 1 \in 1..Len(queue[n]) /\ queue'[n][j] = queue[n][j + 1]
      /\ worker'[n] # None /\ worker'[n].cmd = queue[n][1]
      /\ worker'[n].stage = IF wterm[n] = queue[n][1].rev[1] /\ ~failed[n] /\ Authoritative(n)
                            THEN "propose" ELSE "failed"
      /\ \A m \in Node : m # n => queue'[m] = queue[m] /\ worker'[m] = worker[m]
      /\ UNCHANGED <<elections, log, hist, believes, view, wterm, failed, caller>>
  BY TakeTail DEF raftVars
<1>3. \A m \in Node : m # n => Stay(m) BY <1>2 DEF Stay
<1>4. Term' = Term /\ Target(n)' = Target(n) BY <1>2 DEF Term, Target
<1>5. ASSUME NEW e \in States, Foreseen(n, e) PROVE Foreseen(n, e)'
  <2>1. CASE worker'[n].stage = "failed" BY <1>2, <2>1 DEF Foreseen, Ready, Flowing, Proposing
  <2>2. CASE worker'[n].stage # "failed"
    <3>1. /\ worker'[n].stage = "propose" /\ wterm[n] = queue[n][1].rev[1] /\ ~failed[n]
          /\ believes[n] = Term /\ Term # 0
      BY <1>1, <1>2, <2>2 DEF Leaders, Authoritative
    <3>2. Proposing(n)' /\ ~Proposing(n) BY <1>2, <3>1 DEF Proposing
    <3>3. CASE wterm[n] # Term BY <1>2, <1>4, <3>1, <3>3 DEF Foreseen, Ready, Flowing
    <3>4. CASE wterm[n] = Term
      <4>1. Flowing(n) BY <1>2, <3>1, <3>4 DEF Flowing
      <4>2. PICK P \in [Nat -> States] : Path(n, e, P) BY <1>5, <4>1 DEF Foreseen
      <4>3. PICK l \in Nat : l = Len(queue[n]) /\ l >= 1 BY <1>2
      <4>4. /\ P[1] = e /\ P[l + 1] = Target(n)
            /\ \A j \in 1..l : Accepts(P[j], queue[n][j], Term) /\ P[j + 1] = Install(P[j], queue[n][j])
        BY <3>2, <4>2, <4>3 DEF Path
      <4>5. 1 \in 1..l /\ P[1 + 1] = P[2] BY <4>3
      <4>6. Accepts(e, queue[n][1], Term) /\ P[2] = Install(e, queue[n][1]) BY <4>4, <4>5
      <4>7. Ready(n, e)' BY <1>2, <1>4, <4>6 DEF Ready
      <4> DEFINE Q == [j \in Nat |-> P[j + 1]]
      <4>8. Q \in [Nat -> States] /\ \A j \in Nat : Q[j] = P[j + 1] BY <4>2
      <4> HIDE DEF Q
      <4>9. Q[1] = P[2] /\ Q[Len(queue'[n]) + 1] = P[l + 1]
        <5>1. Len(queue'[n]) + 1 = l BY <1>2, <4>3
        <5>2. Q[1] = P[1 + 1] /\ Q[l] = P[l + 1] BY <4>3, <4>8
        <5> QED BY <4>5, <5>1, <5>2
      <4>10. ASSUME NEW j \in 1..Len(queue'[n])
             PROVE  Accepts(Q[j], queue'[n][j], Term') /\ Q[j + 1] = Install(Q[j], queue'[n][j])
        <5>1. j \in Nat /\ j + 1 \in Nat /\ j + 1 \in 1..l /\ queue'[n][j] = queue[n][j + 1] BY <1>2, <4>3, <4>10
        <5>2. Q[j] = P[j + 1] /\ Q[j + 1] = P[(j + 1) + 1] BY <4>8, <5>1
        <5> QED BY <1>4, <4>4, <5>1, <5>2
      <4>11. Path(n, e, Q)' BY <1>2, <1>4, <3>2, <4>4, <4>6, <4>9, <4>10 DEF Path
      <4> QED BY <4>7, <4>8, <4>11 DEF Foreseen
    <3> QED BY <3>3, <3>4
  <2> QED BY <2>1, <2>2
<1> QED BY <1>2, <1>3, <1>5, NodeForeseen

\* What settles well leaves the prediction; what does not ends it.
LEMMA SettleForeseen == ASSUME Inv, Waits, Predicted, NEW n \in Node, WorkerSettle(n) PROVE Predicted'
<1>1. Typed /\ journal \in [Node -> SUBSET Rev] /\ PipelineTerm BY DEF Inv, Waits
<1>2. /\ UNCHANGED <<elections, log, hist, believes, queue, view, wterm>> /\ worker[n] # None
      /\ worker' = [worker EXCEPT ![n] = None] /\ worker[n].stage \in {"failed", "wait"}
  BY DEF WorkerSettle, WorkerAnswered, raftVars
<1>3. \A m \in Node : m # n => Stay(m) BY <1>1, <1>2, SettleEffect DEF Stay, Typed
<1>4. Term' = Term /\ worker'[n] = None BY <1>1, <1>2 DEF Term, Typed
<1>5. worker[n].cmd.rev[1] = wterm[n]
  <2>1. worker[n].cmd \in Transaction /\ InWorker(n, worker[n].cmd) BY <1>1, <1>2, Types DEF InWorker
  <2> QED BY <1>1, <2>1 DEF PipelineTerm
<1>6. ~failed'[n] => ~failed[n] /\ worker[n].stage # "failed" /\ Target(n)' = Target(n)
  <2> SUFFICES ASSUME ~failed'[n] PROVE ~failed[n] /\ worker[n].stage # "failed" /\ Target(n)' = Target(n)
    OBVIOUS
  <2>1. ~failed[n] /\ worker[n].stage # "failed" BY <1>1, <1>5, SettleEffect
  <2>2. CASE caller[n] = None
    <3>1. caller'[n] = None BY <1>1, <2>2, SettleEffect
    <3> QED BY <1>2, <2>1, <2>2, <3>1 DEF Target
  <2>3. CASE caller[n] # None
    <3>1. /\ caller'[n] # None /\ caller[n].result = "pending" /\ caller'[n].cmd = caller[n].cmd
          /\ caller'[n].preview = caller[n].preview
          /\ caller[n].cmd.rev[1] = wterm[n] => caller'[n].result # "error"
      BY <1>1, <2>3, SettleEffect
    <3> QED BY <1>2, <2>1, <2>3, <3>1 DEF Target
  <2> QED BY <2>2, <2>3
<1>7. ASSUME NEW e \in States, Foreseen(n, e) PROVE Foreseen(n, e)'
  <2>1. ~Proposing(n) /\ ~Proposing(n)' BY <1>2, <1>4 DEF Proposing
  <2>2. ASSUME Flowing(n)' PROVE \E P \in [Nat -> States] : Path(n, e, P)'
    <3>1. Flowing(n) /\ Target(n)' = Target(n) BY <1>2, <1>4, <1>6, <2>2 DEF Flowing
    <3>2. PICK P \in [Nat -> States] : Path(n, e, P) BY <1>7, <3>1 DEF Foreseen
    <3>3. Path(n, e, P)' BY <1>2, <1>4, <2>1, <3>1, <3>2 DEF Path
    <3> QED BY <3>3
  <2> QED BY <2>1, <2>2 DEF Foreseen, Ready
<1> QED BY <1>2, <1>3, <1>7, NodeForeseen

\* The leader's next entry is accepted at the end of the log.
LEMMA ProposeForeseen == ASSUME Inv, Waits, Predicted, NEW n \in Node, WorkerPropose(n) PROVE Predicted'
<1>1. Typed /\ Leaders /\ PipelineTerm BY DEF Inv, Waits
<1>2. PICK c \in Transaction : c = worker[n].cmd BY <1>1, Types DEF WorkerPropose
<1>3. PICK t \in Nat : t = Term BY <1>1, Types
<1>4. PICK l \in Nat : l = Len(log) BY <1>1, Types
<1> DEFINE w == [cmd |-> c, stage |-> "wait", term |-> t, at |-> l + 1]
           en == [term |-> t, cmd |-> c]
<1>5. /\ UNCHANGED <<elections, hist, believes, queue, view, wterm, failed, caller>>
      /\ worker[n] # None /\ worker[n].stage = "propose" /\ t # 0 /\ believes[n] = t
      /\ log' = Append(log, en) /\ worker' = [worker EXCEPT ![n] = w]
  BY <1>2, <1>3, <1>4 DEF WorkerPropose
<1>6. /\ en \in Entry /\ en.term = t /\ en.cmd = c /\ w \in Proposal /\ w.stage = "wait"
  BY <1>2, <1>3, <1>4 DEF Entry, Proposal
<1> HIDE DEF w, en
<1>7. /\ Len(log') = l + 1 /\ log'[l + 1] = en /\ \A i \in 1..l : log'[i] = log[i]
      /\ worker'[n] = w /\ w # None /\ Term' = t /\ Len(hist) <= l + 1 /\ Len(hist) \in Nat
  <2>1. log \in Seq(Entry) /\ Len(hist) = Committed + 1 /\ Committed <= Len(log) /\ Committed \in Nat
    BY <1>1, Types DEF Typed
  <2>2. Len(log') = l + 1 /\ log'[l + 1] = en /\ \A i \in 1..l : log'[i] = log[i]
    BY <1>4, <1>5, <1>6, <2>1
  <2>3. worker'[n] = w BY <1>1, <1>5 DEF Typed
  <2> QED BY <1>3, <1>4, <1>5, <1>6, <2>1, <2>2, <2>3, NoneAssumption DEF Term
<1>8. c.rev[1] = wterm[n]
  <2>1. InWorker(n, c) BY <1>2, <1>5 DEF InWorker
  <2> QED BY <1>1, <2>1 DEF PipelineTerm
<1>9. \A m \in Node : m # n => believes[m] # t BY <1>1, <1>3, <1>5 DEF Leaders
<1>10. PICK S \in [Nat -> States] : Chain(S) /\ \A m \in Node : Foreseen(m, S[Len(log) + 1])
  BY DEF Predicted
<1>11. PICK e \in States : e = S[l + 1] BY <1>4, <1>10
<1>12. Foreseen(n, e) BY <1>4, <1>10, <1>11
<1>13. c.rev[1] = t => Accepts(e, c, t)
  BY <1>2, <1>3, <1>5, <1>12 DEF Foreseen, Ready, Proposing
<1>14. PICK f \in States : f = Apply(e, c, t)
  <2>1. Install(e, c) \in States BY <1>2, InstallTyped
  <2> QED BY <1>11, <2>1 DEF Apply
<1> DEFINE R == [S EXCEPT ![l + 2] = f]
<1>15. R \in [Nat -> States] /\ R[l + 2] = f /\ \A j \in 1..(l + 1) : R[j] = S[j] BY <1>4, <1>10, <1>14
<1> HIDE DEF R
<1>16. Chain(R)'
  <2>1. \A j \in 1..Len(hist') : R[j] = hist'[j]
    <3> SUFFICES ASSUME NEW j \in 1..Len(hist) PROVE R[j] = hist[j] BY <1>5
    <3>1. j \in 1..(l + 1) BY <1>4, <1>7
    <3> QED BY <1>10, <1>15, <3>1 DEF Chain
  <2>2. ASSUME NEW i \in 1..Len(log')
        PROVE  /\ R[i + 1] = Apply(R[i], log'[i].cmd, log'[i].term)
               /\ log'[i].cmd.rev[1] = log'[i].term => Accepts(R[i], log'[i].cmd, log'[i].term)
    <3>1. CASE i = l + 1
      <4>1. i \in 1..(l + 1) /\ i + 1 = l + 2 BY <1>4, <3>1
      <4>2. R[i] = e /\ R[i + 1] = f BY <1>11, <1>15, <3>1, <4>1
      <4>3. log'[i].cmd = c /\ log'[i].term = t BY <1>6, <1>7, <3>1
      <4> QED BY <1>13, <1>14, <4>2, <4>3
    <3>2. CASE i # l + 1
      <4>1. i \in 1..l /\ i \in 1..(l + 1) /\ i + 1 \in 1..(l + 1) BY <1>4, <1>7, <2>2, <3>2
      <4>2. R[i] = S[i] /\ R[i + 1] = S[i + 1] /\ log'[i] = log[i] BY <1>7, <1>15, <4>1
      <4>3. /\ S[i + 1] = Apply(S[i], log[i].cmd, log[i].term)
            /\ log[i].cmd.rev[1] = log[i].term => Accepts(S[i], log[i].cmd, log[i].term)
        BY <1>4, <1>10, <4>1 DEF Chain
      <4> QED BY <4>2, <4>3
    <3> QED BY <3>1, <3>2
  <2> QED BY <2>1, <2>2 DEF Chain
<1>17. ASSUME NEW m \in Node PROVE Foreseen(m, f)'
  <2>1. CASE m # n
    <3>1. believes'[m] # Term' BY <1>5, <1>7, <1>9, <2>1
    <3> QED BY <3>1 DEF Foreseen, Ready, Flowing
  <2>2. CASE m = n
    <3>1. ~Proposing(n)' /\ Proposing(n) BY <1>5, <1>6, <1>7 DEF Proposing
    <3>2. ASSUME Flowing(n)' PROVE \E P \in [Nat -> States] : Path(n, f, P)'
      <4>1. Flowing(n) /\ wterm[n] = t BY <1>3, <1>5, <1>7, <3>2 DEF Flowing
      <4>2. PICK P \in [Nat -> States] : Path(n, e, P) BY <1>12, <4>1 DEF Foreseen
      <4>3. f = Install(e, c) BY <1>8, <1>13, <1>14, <4>1 DEF Apply
      <4>4. P[1] = f BY <1>2, <3>1, <4>2, <4>3 DEF Path
      <4>5. Target(n)' = Target(n) BY <1>5 DEF Target
      <4>6. Path(n, f, P)' BY <1>3, <1>5, <1>7, <3>1, <4>2, <4>4, <4>5 DEF Path
      <4> QED BY <4>6
    <3> QED BY <2>2, <3>1, <3>2 DEF Foreseen, Ready
  <2> QED BY <2>1, <2>2
<1>18. R[Len(log') + 1] = f
  <2>1. Len(log') + 1 = l + 2 BY <1>4, <1>7
  <2> QED BY <1>15, <2>1
<1>19. \A m \in Node : Foreseen(m, R[Len(log) + 1])' BY <1>17, <1>18 DEF Foreseen, Ready, Path
<1> QED BY <1>15, <1>16, <1>19 DEF Predicted

\* Raft's steps: the log is committed as predicted, and in a new term nothing
\* is predicted yet.
LEMMA RaftForeseen == ASSUME Inv, Predicted, RaftStep PROVE Predicted'
<1>1. Typed /\ Leaders /\ Term \in Nat /\ Len(log) \in Nat BY Types DEF Inv
<1>2. /\ UNCHANGED <<view, wterm, failed, queue, worker, caller>> /\ Term' >= Term
      /\ \A m \in Node : believes'[m] = 0 \/ believes'[m] > Term \/ believes'[m] = believes[m]
  BY RaftFrame
<1>3. PICK S \in [Nat -> States] : Chain(S) /\ \A m \in Node : Foreseen(m, S[Len(log) + 1])
  BY DEF Predicted
<1>4. ASSUME UNCHANGED <<elections, log>>, Chain(S)' PROVE Predicted'
  <2>1. Term' = Term BY <1>4 DEF Term
  <2>2. PICK e \in States : e = S[Len(log) + 1] BY <1>1, <1>3
  <2>3. ASSUME NEW m \in Node PROVE Foreseen(m, e)'
    <3>1. CASE believes'[m] \in {0, believes[m]}
      <4>1. Stay(m) BY <1>2, <3>1 DEF Stay
      <4> QED BY <1>3, <1>4, <2>2, <4>1, StayForeseen
    <3>2. CASE believes'[m] > Term
      <4>1. believes'[m] # Term' BY <1>1, <2>1, <3>2
      <4> QED BY <4>1 DEF Foreseen, Ready, Flowing
    <3> QED BY <1>2, <3>1, <3>2
  <2>4. S[Len(log') + 1] = e BY <1>4, <2>2
  <2>5. \A m \in Node : Foreseen(m, S[Len(log) + 1])' BY <2>3, <2>4 DEF Foreseen, Ready, Path
  <2> QED BY <1>3, <1>4, <2>5 DEF Predicted
<1>5. ASSUME UNCHANGED hist, Term' \in Nat, Term' > Term, Len(log') \in Nat, Len(log') <= Len(log),
             \A i \in 1..Len(log') : log'[i] = log[i]
      PROVE  Predicted'
  <2>1. Chain(S)'
    <3>1. \A i \in 1..Len(log') : i \in 1..Len(log) BY <1>1, <1>5
    <3> QED BY <1>3, <1>5, <3>1 DEF Chain
  <2>2. ASSUME NEW m \in Node, NEW e \in States PROVE Foreseen(m, e)'
    <3>1. wterm'[m] # Term'
      <4>1. wterm[m] \in Nat /\ wterm[m] <= Term BY <1>1 DEF Leaders, Typed
      <4> QED BY <1>1, <1>2, <1>5, <4>1
    <3>2. ASSUME Proposing(m)' PROVE worker'[m].cmd.rev[1] # Term'
      <4>1. worker[m] # None /\ worker[m].cmd \in Transaction BY <1>1, <1>2, <3>2, Types DEF Proposing
      <4>2. InWorker(m, worker[m].cmd) BY <4>1 DEF InWorker
      <4>3. Used(worker[m].cmd.rev) BY <4>1, <4>2 DEF Inv, Issue, PipelineUsed
      <4>4. worker[m].cmd.rev[1] \in Nat BY <4>1, RevPair DEF Transaction
      <4> QED BY <1>1, <1>2, <1>5, <4>3, <4>4 DEF Used
    <3> QED BY <3>1, <3>2 DEF Foreseen, Ready, Flowing
  <2>3. PICK e \in States : e = S[Len(log') + 1] BY <1>3, <1>5
  <2>4. \A m \in Node : Foreseen(m, S[Len(log) + 1])' BY <2>2, <2>3 DEF Foreseen, Ready, Path
  <2> QED BY <1>3, <2>1, <2>4 DEF Predicted
<1>6. CASE RaftCommit
  <2>1. UNCHANGED <<elections, log>> BY <1>6 DEF RaftCommit
  <2>2. PICK c \in Nat : c = Committed BY <1>1, Types
  <2>3. PICK f \in States : f = Apply(hist[c + 1], log[c + 1].cmd, log[c + 1].term)
    <3>1. c + 1 \in 1..Len(log) /\ c + 1 \in 1..Len(hist) BY <1>1, <1>6, <2>2, Types DEF RaftCommit
    <3>2. hist[c + 1] \in States /\ log[c + 1].cmd \in Transaction BY <1>1, <3>1, Types
    <3>3. Install(hist[c + 1], log[c + 1].cmd) \in States BY <3>2, InstallTyped
    <3> QED BY <3>2, <3>3 DEF Apply
  <2>4. Len(hist) = c + 1 /\ c + 1 \in 1..Len(log) BY <1>1, <1>6, <2>2, Types DEF RaftCommit
  <2>5. hist' = Append(hist, f) BY <1>6, <2>2, <2>3, <2>4 DEF RaftCommit
  <2>6. /\ Len(hist') = c + 2 /\ hist'[c + 2] = f /\ \A j \in 1..(c + 1) : hist'[j] = hist[j]
    <3>1. hist \in Seq(States) BY <1>1 DEF Typed
    <3> QED BY <2>2, <2>3, <2>4, <2>5, <3>1
  <2>7. ASSUME NEW j \in 1..Len(hist') PROVE S[j] = hist'[j]
    <3>1. CASE j = c + 2
      <4>1. S[(c + 1) + 1] = Apply(S[c + 1], log[c + 1].cmd, log[c + 1].term) BY <1>3, <2>4 DEF Chain
      <4>2. c + 1 \in 1..Len(hist) /\ (c + 1) + 1 = j BY <2>2, <2>4, <3>1
      <4>3. S[c + 1] = hist[c + 1] BY <1>3, <4>2 DEF Chain
      <4> QED BY <2>3, <2>6, <3>1, <4>1, <4>2, <4>3
    <3>2. CASE j # c + 2
      <4>1. j \in 1..(c + 1) /\ j \in 1..Len(hist) BY <2>2, <2>4, <2>6, <2>7, <3>2
      <4> QED BY <1>3, <2>6, <4>1 DEF Chain
    <3> QED BY <3>1, <3>2
  <2>8. Chain(S)' BY <1>3, <2>1, <2>7 DEF Chain
  <2> QED BY <1>4, <2>1, <2>8
<1>7. CASE VoterJoins \/ \E n \in Node : StepDown(n) \/ FsmApply(n)
  <2>1. UNCHANGED <<elections, log, hist>> BY <1>7 DEF VoterJoins, StepDown, FsmApply
  <2> QED BY <1>3, <1>4, <2>1 DEF Chain
<1>8. ASSUME NEW n \in Node, Elect(n) PROVE Predicted'
  <2>1. PICK k \in Committed..Len(log) : log' = SubSeq(log, 1, k) BY <1>8 DEF Elect
  <2>2. log \in Seq(Entry) /\ Committed \in Nat BY <1>1, Types DEF Typed
  <2>3. Len(log') = k /\ k \in Nat /\ k <= Len(log) /\ \A i \in 1..k : log'[i] = log[i] BY <2>1, <2>2
  <2>4. UNCHANGED hist /\ elections' = Append(elections, n) BY <1>8 DEF Elect
  <2>5. Term' = Term + 1 BY <1>1, <2>4 DEF Term, Typed
  <2> QED BY <1>1, <1>5, <2>3, <2>4, <2>5
<1>9. ASSUME NEW n \in Node, TransferLeadership(n) PROVE Predicted'
  <2>1. UNCHANGED <<log, hist>> BY <1>9 DEF TransferLeadership
  <2>2. CASE UNCHANGED elections BY <1>3, <1>4, <2>1, <2>2 DEF Chain
  <2>3. ASSUME NEW m \in Node, elections' = Append(elections, m) PROVE Predicted'
    <3>1. Term' = Term + 1 BY <1>1, <2>3 DEF Term, Typed
    <3> QED BY <1>1, <1>5, <2>1, <3>1
  <2> QED BY <1>9, <2>2, <2>3 DEF TransferLeadership
<1> QED BY <1>6, <1>7, <1>8, <1>9 DEF RaftStep

\* Every step keeps the prediction.
LEMMA PredictedNext == Inv /\ Waits /\ Predicted /\ [Next]_vars => Predicted'
<1> SUFFICES ASSUME Inv, Waits, Predicted, [Next]_vars PROVE Predicted' OBVIOUS
<1>1. CASE RaftStep BY <1>1, RaftForeseen
<1>2. CASE UNCHANGED vars
  <2>1. UNCHANGED <<elections, log, hist>> /\ \A m \in Node : Stay(m) BY <1>2 DEF vars, Stay
  <2> QED BY <2>1, ForeseenStep, StayForeseen
<1>3. CASE \E n \in Node : Ensure(n) BY <1>3, EnsureForeseen
<1>4. CASE \E n \in Node : CallerDone(n) BY <1>4, DoneForeseen
<1>5. CASE \E n \in Node : Worker(n)
  BY <1>5, TakeForeseen, ProposeForeseen, StopForeseen, SettleForeseen DEF Worker
<1>6. CASE \E n \in Node : \/ RenewLease(n) \/ LeaseExpires(n) \/ CallerTimeout(n) \/ Restart(n)
                           \/ \E s \in Shapes : CommitRefused(n, s) \/ CommitFenced(n, s)
  BY <1>6, StopForeseen
<1>7. CASE \E n \in Node : \E s \in Shapes : CommitLocal(n, s) \/ CommitReplicated(n, s)
  BY <1>7, CommitForeseen
<1> QED BY <1>1, <1>2, <1>3, <1>4, <1>5, <1>6, <1>7 DEF Next, RaftStep

\* Nothing is in the log at first.
LEMMA PredictedInit == Init => Predicted
<1> SUFFICES ASSUME Init PROVE Predicted OBVIOUS
<1>1. log = <<>> /\ elections = <<>> /\ hist = <<NoRecords>> BY DEF Init
<1>2. NoRecords \in States BY DEF NoRecords, States, Record, Rev, NoRev
<1> DEFINE S == [j \in Nat |-> NoRecords]
<1>3. S \in [Nat -> States] /\ \A j \in Nat : S[j] = NoRecords BY <1>2
<1> HIDE DEF S
<1>4. Chain(S) BY <1>1, <1>3 DEF Chain
<1>5. Term = 0 BY <1>1 DEF Term
<1>6. \A n \in Node : Foreseen(n, S[Len(log) + 1]) BY <1>5 DEF Foreseen, Ready, Flowing
<1> QED BY <1>3, <1>4, <1>6 DEF Predicted

\* A command that reached the committed log in the term it was issued for is
\* never rejected by state.Apply: the view it was checked against (commit,
\* async.go) predicted the replicated state, for every number of nodes, keys
\* and queued proposals.
THEOREM SpeculationsSound == Spec => []SpeculationSound
<1>1. Inv /\ Predicted => SpeculationSound
  <2> SUFFICES ASSUME Inv, Predicted, NEW i \in 1..Committed, log[i].cmd.rev[1] = log[i].term
               PROVE  Accepts(hist[i], log[i].cmd, log[i].term)
    BY DEF SpeculationSound
  <2>1. PICK S \in [Nat -> States] : Chain(S) BY DEF Predicted
  <2>2. Committed \in Nat /\ Len(log) \in Nat /\ Len(hist) = Committed + 1 /\ Committed <= Len(log)
    BY Types DEF Inv, Typed
  <2>3. i \in 1..Len(log) /\ i \in 1..Len(hist) BY <2>2
  <2> QED BY <2>1, <2>3 DEF Chain
<1>2. Spec => []Predicted
  <2>1. Init => Predicted BY PredictedInit
  <2>2. Inv /\ Waits /\ Predicted /\ [Next]_vars => Predicted' BY PredictedNext
  <2> QED BY <2>1, <2>2, WaitsInvariant, PTL DEF Spec
<1> QED BY <1>1, <1>2, Invariant, PTL
=============================================================================
