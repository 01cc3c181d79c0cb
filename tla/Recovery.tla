------------------------------ MODULE Recovery ------------------------------
(***************************************************************************)
(* Forced recovery and the generations that keep histories apart:          *)
(* internal/cluster recovery.go, recovery_generation.go,                   *)
(* raft_generation.go, rejoin_protocol.go, restore.go and the start of a   *)
(* node.                                                                   *)
(*                                                                         *)
(* A forced recovery rewrites a node's Raft history with the node as its   *)
(* only voter: a fork.  Quorums no longer intersect, so a fork is given a  *)
(* generation, in its own log, before it may speak to anyone, and every    *)
(* Raft connection is bound to one generation.  A node left behind moves   *)
(* its history away and starts empty.  The steps on disk are separate, and *)
(* a process may stop between any two.                                     *)
(***************************************************************************)
EXTENDS Integers, FiniteSets

CONSTANTS
    Node,
    Founders,  \* the voters of the original history
    MaxFork,   \* bound: forced recoveries
    MaxGen,    \* bound: numbers of generations
    MaxCrash,  \* bound: crashes
    MaxConn,   \* bound: connections at a time
    None

\* The forms of a generation, a history, a request and the journal of a reset.
Generation == [number : Nat, lineage : Nat]
HistoryOf  == [fork : Int, base : Generation, gen : Generation, voters : SUBSET Node, tail : BOOLEAN]
RequestOf  == [kind : {"recover"}, tail : BOOLEAN] \cup [kind : {"restore"}, gen : Generation]
ResetOf    == [moving : BOOLEAN, target : Generation]

VARIABLES
    disk,      \* disk[n]: the node's private directory
    proc,      \* proc[n]: its process
    watermark, \* recovery-generation.json on the shared volume
    dials,     \* hellos sent and not answered yet
    conns,     \* authorised connections, from the node that dialled
    forks,     \* forks so far
    crashes

vars == <<disk, proc, watermark, dials, conns, forks, crashes>>

Zero  == [number |-> 0, lineage |-> 0]
Unset == [number |-> 0, lineage |-> -1]   \* an intent whose generation is not chosen yet
Mixed == -1                               \* a history that holds entries of two forks
Off   == [phase |-> "off"]

RecoveryAssumption ==
    /\ Founders \subseteq Node /\ {MaxFork, MaxGen, MaxCrash, MaxConn} \subseteq Nat
    /\ None \notin Int \cup Generation \cup {Unset} \cup HistoryOf \cup RequestOf \cup ResetOf

\* History: the fork, the generation at its snapshot and the last one in its log,
\* its configuration, and whether the log holds entries behind the snapshot.
Founding == [fork |-> 0, base |-> Zero, gen |-> Zero, voters |-> Founders, tail |-> TRUE]

Init ==
    /\ disk = [n \in Node |->
                [db |-> IF n \in Founders THEN Founding ELSE None,
                 snap |-> IF n \in Founders THEN 0 ELSE None,
                 binding |-> None, intent |-> None, request |-> None, reset |-> None]]
    /\ proc = [n \in Node |-> Off]
    /\ watermark = Zero
    /\ dials = {} /\ conns = {} /\ forks = 0 /\ crashes = 0

Phase(n)   == proc[n].phase
Up(n)      == Phase(n) = "up"
Ready(n)   == Up(n) /\ ~ proc[n].pending
History(n) == disk[n].db
Empty(n)   == History(n) = None
Row(n)     == proc[n].row

Write(n, field, value) == disk' = [disk EXCEPT ![n] = [@ EXCEPT ![field] = value]]
Enter(n, phase)        == proc' = [proc EXCEPT ![n] = [phase |-> phase]]
Others(C, n)           == {c \in C : n \notin {c.from, c.to}}

-----------------------------------------------------------------------------
(* The files that request a recovery *)

MayRequest(n) == Phase(n) = "off" /\ disk[n].request = None /\ forks < MaxFork

\* recover-singleton.json names the last index of the log it is meant for; an
\* operator writes it, or performRecovery once Raft is closed.
RequestRecovery(n) ==
    /\ MayRequest(n) /\ ~ Empty(n)
    /\ Write(n, "request", [kind |-> "recover", tail |-> History(n).tail])
    /\ UNCHANGED <<proc, watermark, dials, conns, forks, crashes>>

\* restore-singleton.json names a backup, here of a history that some node has.
RequestRestore(n, m) ==
    /\ MayRequest(n) /\ n # m /\ Empty(n) /\ ~ Empty(m)
    /\ Write(n, "request", [kind |-> "restore", gen |-> History(m).gen])
    /\ UNCHANGED <<proc, watermark, dials, conns, forks, crashes>>

-----------------------------------------------------------------------------
(* start *)

Moving(n) == disk[n].reset # None /\ disk[n].reset.moving

\* validateSingleton: the request is for this log, and the node is one of its voters.
ValidSingleton(n) ==
    /\ ~ Empty(n) /\ disk[n].snap # None
    /\ disk[n].request.tail = History(n).tail /\ n \in History(n).voters

\* refuseExistingRestoreState
NothingToLose(n) == Empty(n) /\ disk[n].snap = None

Acceptable(n) ==
    LET r == disk[n].request IN
    \/ r = None
    \/ r # None /\ IF r.kind = "recover" THEN ValidSingleton(n) ELSE NothingToLose(n)

Start(n) ==
    /\ Phase(n) = "off"
    /\ \/ Moving(n) /\ Enter(n, "move")
       \/ /\ ~ Moving(n) /\ Acceptable(n)
          /\ Enter(n, IF disk[n].request = None THEN "guard" ELSE "prepare")
    /\ UNCHANGED <<disk, watermark, dials, conns, forks, crashes>>

\* An operator gives up on a request that the node refuses.
Withdraw(n) ==
    /\ Phase(n) = "off" /\ ~ Acceptable(n)
    /\ Write(n, "request", None)
    /\ UNCHANGED <<proc, watermark, dials, conns, forks, crashes>>

\* Mutant: the history is rewritten without a journalled intent.
PrepareNothing(n) ==
    /\ Phase(n) = "prepare" /\ Enter(n, "rewrite")
    /\ UNCHANGED <<disk, watermark, dials, conns, forks, crashes>>

\* prepareGenerationIntent: "A restart retries the same generation."
PrepareIntent(n) ==
    /\ Phase(n) = "prepare"
    /\ Write(n, "intent", IF disk[n].intent = None THEN Unset ELSE disk[n].intent)
    /\ Enter(n, "rewrite")
    /\ UNCHANGED <<watermark, dials, conns, forks, crashes>>

\* A snapshot of generation g whose configuration is this node alone.
Fork(n, g) ==
    /\ disk' = [disk EXCEPT ![n].db = [fork |-> forks + 1, base |-> g, gen |-> g,
                                       voters |-> {n}, tail |-> FALSE],
                            ![n].snap = forks + 1]
    /\ forks' = forks + 1
    /\ Enter(n, "consume")
    /\ UNCHANGED <<watermark, dials, conns, crashes>>

\* RecoverCluster commits the whole log of the survivor.
RecoverSingleton(n) ==
    /\ Phase(n) = "rewrite" /\ disk[n].request.kind = "recover"
    /\ Fork(n, History(n).gen)

InstallRestore(n) ==
    /\ Phase(n) = "rewrite" /\ disk[n].request.kind = "restore"
    /\ Fork(n, disk[n].request.gen)

ConsumeRequest(n) ==
    /\ Phase(n) = "consume"
    /\ Write(n, "request", None)
    /\ Enter(n, "guard")
    /\ UNCHANGED <<watermark, dials, conns, forks, crashes>>

Later(g, h)      == g.number > h.number
Supersedes(g, h) == Later(g, h) \/ (g.number = h.number /\ g # h)

\* newRaftGenerationGuard: a completed reset binds the node to the generation it was
\* reset for; a later generation in the log, applied or not, binds it too.
BindingAtStart(n) ==
    LET b == disk[n].binding
        r == disk[n].reset
        reset == IF r # None /\ (b = None \/ Supersedes(r.target, b)) THEN r.target ELSE b
        known == IF Empty(n) THEN Zero ELSE History(n).gen
    IN  IF Later(known, IF reset = None THEN Zero ELSE reset) THEN known ELSE reset

\* NewRaft restores the snapshot; the log behind it is applied once it is known to
\* be committed.
Guard(n) ==
    /\ Phase(n) = "guard"
    /\ Write(n, "binding", BindingAtStart(n))
    /\ proc' = [proc EXCEPT ![n] = [phase |-> "up", pending |-> disk[n].intent # None,
                                    published |-> FALSE, control |-> None,
                                    row |-> IF Empty(n) THEN Zero ELSE History(n).base]]
    /\ UNCHANGED <<watermark, dials, conns, forks, crashes>>

Apply(n) ==
    /\ Up(n) /\ ~ Empty(n) /\ Row(n) # History(n).gen
    /\ proc' = [proc EXCEPT ![n].row = History(n).gen]
    /\ UNCHANGED <<disk, watermark, dials, conns, forks, crashes>>

\* A crash, or an error that ends the process.
Crash(n) ==
    /\ Phase(n) # "off" /\ crashes < MaxCrash
    /\ crashes' = crashes + 1
    /\ proc' = [proc EXCEPT ![n] = Off]
    /\ dials' = Others(dials, n) /\ conns' = Others(conns, n)
    /\ UNCHANGED <<disk, watermark, forks>>

-----------------------------------------------------------------------------
(* startRecoveryGeneration, finishRecoveryGeneration: retried until it succeeds *)

\* effectiveLocked
EffectiveOf(binding, row) ==
    IF binding # None /\ Supersedes(binding, row)
    THEN binding ELSE row

Effective(n) == EffectiveOf(disk[n].binding, Row(n))

\* effective also persists a later generation of the state machine.
BindingNow(n) ==
    IF Row(n).number > 0 /\ (disk[n].binding = None \/ Later(Row(n), disk[n].binding))
    THEN Row(n) ELSE disk[n].binding

\* While the generation is pending the node speaks to nobody, so it leads only as
\* the single voter; the fence has applied its log.
Finishing(n) ==
    /\ Up(n) /\ proc[n].pending /\ ~ Empty(n)
    /\ History(n).voters = {n} /\ Row(n) = History(n).gen

\* The watermark may not have reached this node's copy of the volume.  Time is a floor
\* for the number; the lineage is random.
ChooseGeneration(n, number, seen) ==
    /\ Finishing(n) /\ disk[n].intent = Unset
    /\ seen \in {Zero, watermark}
    /\ \A g \in {Row(n), Effective(n), seen} : number > g.number
    /\ disk' = [disk EXCEPT ![n].binding = BindingNow(n),
                            ![n].intent = [number |-> number, lineage |-> History(n).fork]]
    /\ UNCHANGED <<proc, watermark, dials, conns, forks, crashes>>

CommitGeneration(n) ==
    /\ Finishing(n)
    /\ LET i == disk[n].intent IN
        /\ i # Unset /\ Later(i, Row(n))
        /\ disk' = [disk EXCEPT ![n].db.gen = i, ![n].db.tail = TRUE]
        /\ proc' = [proc EXCEPT ![n].row = i]
    /\ UNCHANGED <<watermark, dials, conns, forks, crashes>>

PublishGeneration(n) ==
    /\ Finishing(n) /\ Row(n) = disk[n].intent /\ ~ proc[n].published
    /\ Write(n, "binding", BindingNow(n))
    /\ watermark' = disk[n].intent
    /\ proc' = [proc EXCEPT ![n].published = TRUE]
    /\ UNCHANGED <<dials, conns, forks, crashes>>

ConsumeIntent(n) ==
    /\ Finishing(n) /\ proc[n].published
    /\ Write(n, "intent", None)
    /\ proc' = [proc EXCEPT ![n].pending = FALSE]
    /\ UNCHANGED <<watermark, dials, conns, forks, crashes>>

-----------------------------------------------------------------------------
(* tlsStream.authorize: each side sends its hello, reads the other's and decides *)

Hello(n) == [node |-> n, gen |-> Effective(n), empty |-> Empty(n)]

Dial(a, b) ==
    /\ a # b /\ Ready(a) /\ ~ Empty(a) /\ b \in History(a).voters
    /\ ~ \E d \in dials \cup conns : d.from = a /\ d.to = b
    /\ Cardinality(dials) + Cardinality(conns) < MaxConn
    /\ dials' = dials \cup {[from |-> a, to |-> b, hello |-> Hello(a)]}
    /\ Write(a, "binding", BindingNow(a))
    /\ UNCHANGED <<proc, watermark, conns, forks, crashes>>

\* raftGenerationGuard.authorize: an empty unbound node binds to its first peer.
BoundTo(n, hello) ==
    IF disk[n].binding = None /\ Empty(n) THEN hello.gen ELSE disk[n].binding

\* Mutant: the number alone is compared.
AuthorizesNumber(n, hello) ==
    LET own == EffectiveOf(BoundTo(n, hello), Row(n)) IN
    \/ own.number = hello.gen.number
    \/ hello.empty /\ Later(own, hello.gen) /\ ~ Empty(n) /\ hello.node \in History(n).voters

Authorizes(n, hello) ==
    LET own == EffectiveOf(BoundTo(n, hello), Row(n)) IN
    \/ own = hello.gen
    \/ hello.empty /\ Later(own, hello.gen) /\ ~ Empty(n) /\ hello.node \in History(n).voters

Accept(d) ==
    /\ Ready(d.to) /\ Authorizes(d.to, d.hello)
    /\ dials' = dials \ {d}
    /\ conns' = conns \cup {[from |-> d.from, to |-> d.to, answer |-> Hello(d.to),
                             near |-> None,
                             far |-> EffectiveOf(BoundTo(d.to, d.hello), Row(d.to))]}
    /\ Write(d.to, "binding", BoundTo(d.to, d.hello))
    /\ UNCHANGED <<proc, watermark, forks, crashes>>

Complete(c) ==
    /\ c.near = None /\ Ready(c.from) /\ Authorizes(c.from, c.answer)
    /\ conns' = (conns \ {c}) \cup {[c EXCEPT !.near = Effective(c.from)]}
    /\ UNCHANGED <<disk, proc, watermark, dials, forks, crashes>>

\* Either side refuses, or the connection is lost.
Hangup(c) ==
    /\ dials' = dials \ {c} /\ conns' = conns \ {c}
    /\ UNCHANGED <<disk, proc, watermark, forks, crashes>>

Merged(old, new) ==
    IF old = None THEN new
    ELSE IF old.fork # new.fork THEN [old EXCEPT !.fork = Mixed]
    ELSE [new EXCEPT !.gen = IF Later(old.gen, @) THEN old.gen ELSE @]

\* The leader's history reaches the other side, in part or in full.  generationConn's
\* Write and Read check the generations again.
Replicate(c, gen) ==
    /\ c.near # None
    /\ Ready(c.from) /\ Effective(c.from) = c.near /\ c.to \in History(c.from).voters
    /\ Ready(c.to) /\ Effective(c.to) = c.far
    /\ gen \in {History(c.from).base, History(c.from).gen}
    /\ LET h == [History(c.from) EXCEPT !.gen = gen] IN
       disk' = [disk EXCEPT ![c.to].db = Merged(@, h), ![c.to].snap = h.fork,
                            ![c.to].binding = BindingNow(c.to)]
    /\ UNCHANGED <<proc, watermark, dials, conns, forks, crashes>>

-----------------------------------------------------------------------------
(* Enrolment and the reset of a superseded history *)

\* prepareEnrollment: an empty node binds to the leader's generation before it asks.
BindEmpty(n, leader) ==
    /\ n # leader /\ Up(n) /\ Empty(n) /\ disk[n].binding = None /\ Ready(leader)
    /\ Write(n, "binding", Effective(leader))
    /\ UNCHANGED <<proc, watermark, dials, conns, forks, crashes>>

\* admit, as far as generations go: the node is empty, or had the leader's generation
\* when it was approved.  An approval is good for a minute, in which the node may have
\* recovered and moved on to a later generation.
Admit(leader, n) ==
    /\ n # leader /\ Ready(leader) /\ ~ Empty(leader) /\ Up(n)
    /\ n \notin History(leader).voters
    /\ Empty(n) \/ Row(n) = Row(leader) \/ Later(Row(n), Row(leader))
    /\ disk' = [disk EXCEPT ![leader].db.voters = @ \cup {n}]
    /\ UNCHANGED <<proc, watermark, dials, conns, forks, crashes>>

\* mayReset: never a node that is its own majority.  Whether the others of its
\* configuration answer is the network's choice.
MayReset(n) == ~ Empty(n) => History(n).voters # {n}

MaySignal(n, leader) ==
    n # leader /\ Up(n) /\ Ready(leader) /\ proc[n].control = None /\ MayReset(n)

\* rejoinServe answers reset_required.
SignalReset(n, leader) ==
    /\ MaySignal(n, leader) /\ ~ Empty(n) /\ ~ Empty(leader)
    /\ Supersedes(Row(leader), Row(n))
    /\ proc' = [proc EXCEPT ![n].control = Row(leader)]
    /\ UNCHANGED <<disk, watermark, dials, conns, forks, crashes>>

\* prepareEnrollment: the binding of an empty node is out of date.
SignalRebind(n, leader) ==
    /\ MaySignal(n, leader) /\ Empty(n) /\ disk[n].binding # None
    /\ Supersedes(Effective(leader), Effective(n))
    /\ proc' = [proc EXCEPT ![n].control = Effective(leader)]
    /\ UNCHANGED <<disk, watermark, dials, conns, forks, crashes>>

\* Runtime asks once more, closes Raft and journals the reset (archiveSuperseded).
PerformReset(n) ==
    /\ Up(n) /\ proc[n].control # None
    /\ IF MayReset(n)
       THEN /\ Write(n, "reset", [moving |-> TRUE, target |-> proc[n].control])
            /\ Enter(n, "move")
            /\ dials' = Others(dials, n) /\ conns' = Others(conns, n)
       ELSE /\ proc' = [proc EXCEPT ![n].control = None]
            /\ UNCHANGED <<disk, dials, conns>>
    /\ UNCHANGED <<watermark, forks, crashes>>

\* resumeSuperseded moves raft.db, then snapshots, then completes the journal.
Move(n) ==
    /\ Phase(n) = "move"
    /\ \/ ~ Empty(n) /\ Write(n, "db", None) /\ UNCHANGED proc
       \/ Empty(n) /\ disk[n].snap # None /\ Write(n, "snap", None) /\ UNCHANGED proc
       \/ /\ Empty(n) /\ disk[n].snap = None
          /\ disk' = [disk EXCEPT ![n].reset.moving = FALSE]
          /\ Enter(n, "off")
    /\ UNCHANGED <<watermark, dials, conns, forks, crashes>>

-----------------------------------------------------------------------------
Next ==
    \/ \E n \in Node :
        \/ Withdraw(n) \/ Start(n) \/ PrepareIntent(n) \/ RequestRecovery(n)
        \/ RecoverSingleton(n) \/ InstallRestore(n) \/ ConsumeRequest(n)
        \/ Guard(n) \/ Apply(n) \/ Crash(n) \/ CommitGeneration(n) \/ PublishGeneration(n)
        \/ ConsumeIntent(n) \/ PerformReset(n) \/ Move(n)
        \/ \E number \in 1..MaxGen, seen \in {Zero, watermark} : ChooseGeneration(n, number, seen)
        \/ \E m \in Node : \/ RequestRestore(n, m) \/ Dial(n, m) \/ BindEmpty(n, m)
                           \/ Admit(n, m) \/ SignalReset(n, m) \/ SignalRebind(n, m)
    \/ \E d \in dials : Accept(d)
    \/ \E c \in conns : \/ Complete(c)
                        \/ \E g \in {History(c.from).base, History(c.from).gen} : Replicate(c, g)
    \/ \E c \in dials \cup conns : Hangup(c)

Spec == Init /\ [][Next]_vars

-----------------------------------------------------------------------------
Whole(n) == Up(n) => (disk[n].db = None) = (disk[n].snap = None)

\* A node's history never receives an entry of another fork, and a running node has
\* the whole of its history or nothing.
HistoriesApart ==
    \A n \in Node : /\ Empty(n) \/ History(n).fork # Mixed
                    /\ Whole(n)

\* The generation a node speaks for, or will speak for when it starts again.
Claim(n) == IF Up(n) THEN Effective(n) ELSE EffectiveOf(BindingAtStart(n), History(n).base)
Claims(n) == ~ Empty(n) /\ disk[n].intent = None /\ ~ Moving(n)

\* Every fork has a generation of its own, whatever stops between the rewriting of the
\* history and the end of its journal: two nodes claim the same generation only for
\* the same fork, and the generation in a history is never earlier than at its start.
GenerationOnce ==
    /\ \A m, n \in Node : Claims(m) /\ Claims(n) /\ Claim(m) = Claim(n)
                          => History(m).fork = History(n).fork
    /\ \A n \in Node : ~ Empty(n) => ~ Later(History(n).base, History(n).gen)
=============================================================================
