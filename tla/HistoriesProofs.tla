--------------------------- MODULE HistoriesProofs ---------------------------
(***************************************************************************)
(* Proofs that a deployment has one history and keeps its policy of        *)
(* voters, for any number of nodes, recoveries, crashes and connections.   *)
(*                                                                         *)
(* Founding: when a history is founded by somebody who saw the first k     *)
(* nodes of the list, those k nodes had all been told of each other, so    *)
(* whoever ticks from then on sees at least those k.  It must ask one of   *)
(* them that has a log, and is refused.                                    *)
(*                                                                         *)
(* Recovery: a fork is given a name, its generation, at the end of its     *)
(* journal.  Until then it is one node's, which speaks to nobody; from     *)
(* then on whoever has a history of the fork speaks by that name.  Names   *)
(* differ by their lineage, which is drawn once for a fork, so a           *)
(* connection, which joins two nodes of one name, joins two of one fork.   *)
(*                                                                         *)
(* Members: what the controller decided on stays right until it is done,   *)
(* since a change under way keeps it from deciding anew, and the changes   *)
(* that others bring about in between give and take no vote.               *)
(***************************************************************************)
EXTENDS Histories, FiniteSetTheorems, TLAPS

Dir == [log : BOOLEAN, intent : BOOLEAN, history : BOOLEAN, marker : BOOLEAN]
Tour == [asked : SUBSET Rank, ready : BOOLEAN]
Starting == [view : Nat, stable : BOOLEAN, tick : Tour \cup {Nil}]

Ticking(p) == started[p].tick # Nil

GenesisShape ==
    /\ order \in Seq(Rank) /\ known \in [Rank -> Nat]
    /\ dirs \in [Rank -> Dir] /\ started \in [Rank -> Starting] /\ founders \subseteq Rank

\* Nobody is told of more than there is, and a list in use is the one it was told of.
ViewsKnown ==
    \A p \in Rank : known[p] <= Len(order) /\ (started[p].view = 0 \/ started[p].view = known[p])

\* Who asks has the lowest rank of its list, and those it asked knew as much.
TicksAsk ==
    \A p \in Rank : Ticking(p) =>
        /\ started[p].view = known[p] /\ p \in Seed!List(started[p].view)
        /\ \A m \in Seed!List(started[p].view) : p <= m
        /\ \A m \in started[p].tick.asked : known[m] >= started[p].view
        /\ started[p].tick.ready => started[p].tick.asked = Seed!List(started[p].view)

LogsListed == \A p \in Rank : dirs[p].log => p \in Seed!Listed

\* h keeps those who see the first k nodes, and everybody who ticks does, from founding.
Guards(k, h) ==
    /\ dirs[h].log
    /\ \A m \in Seed!List(k) : known[m] >= k
    /\ \A p \in Rank : Ticking(p) => h \notin started[p].tick.asked \/ dirs[p].log

Guarded == founders # {} => \E k \in 1..Len(order) : \E h \in Seed!List(k) : Guards(k, h)

GenesisInv == GenesisShape /\ ViewsKnown /\ TicksAsk /\ LogsListed /\ Guarded /\ Seed!OneGenesis

-----------------------------------------------------------------------------
(* The list *)

\* A longer part of the list has everybody a shorter one has.
LEMMA ListGrows == ASSUME NEW j \in Nat, NEW k \in Nat, j <= k PROVE Seed!List(j) \subseteq Seed!List(k)
BY DEF Seed!List

\* The list is of nodes.
LEMMA ListNodes == ASSUME GenesisShape, NEW k \in Nat, k <= Len(order) PROVE Seed!List(k) \subseteq Rank
<1>1. \A i \in 1..k : order[i] \in Rank BY DEF GenesisShape
<1> QED BY <1>1 DEF Seed!List

\* Where the list stays, so do its parts.
LEMMA SameList == ASSUME order' = order, NEW k \in Nat PROVE Seed!List(k)' = Seed!List(k) /\ Seed!Listed' = Seed!Listed
BY DEF Seed!List, Seed!Listed

\* Everybody who ticks sees a guard of the history that exists.
LEMMA GuardSeen ==
  ASSUME GenesisInv, NEW k \in 1..Len(order), NEW h \in Seed!List(k), Guards(k, h), NEW p \in Rank, Ticking(p)
  PROVE  h \in Seed!List(started[p].view)
<1>1. started[p].view = known[p] /\ p \in Seed!List(started[p].view) /\ started[p].view \in Nat /\ k \in Nat
  BY DEF GenesisInv, TicksAsk, GenesisShape, Starting
<1>2. started[p].view >= k
  <2>1. CASE p \in Seed!List(k) BY <1>1, <2>1 DEF Guards
  <2>2. CASE p \notin Seed!List(k) BY <1>1, <2>2, ListGrows
  <2> QED BY <2>1, <2>2
<1> QED BY <1>1, <1>2, ListGrows

-----------------------------------------------------------------------------
(* The steps *)

\* At the end of discovery's list a node is added.
LEMMA AppearInv == ASSUME GenesisInv, NEW n \in Rank, Seed!Appear(n) PROVE GenesisInv'
<1>1. /\ order' = Append(order, n) /\ UNCHANGED <<known, dirs, started, founders>>
      /\ order \in Seq(Rank) /\ Len(order) \in Nat
  BY DEF Seed!Appear, GenesisInv, GenesisShape
<1>2. /\ order' \in Seq(Rank) /\ Len(order') = Len(order) + 1
      /\ \A i \in 1..Len(order) : order'[i] = order[i]
  BY <1>1
<1>3. \A k \in 0..Len(order) : Seed!List(k)' = Seed!List(k)
  <2> SUFFICES ASSUME NEW k \in 0..Len(order) PROVE Seed!List(k)' = Seed!List(k) OBVIOUS
  <2>1. \A i \in 1..k : order'[i] = order[i] BY <1>1, <1>2
  <2> QED BY <2>1 DEF Seed!List
<1>4. GenesisShape' BY <1>1, <1>2 DEF GenesisInv, GenesisShape
<1>5. ViewsKnown'
  <2>1. \A p \in Rank : known[p] \in Nat BY DEF GenesisInv, GenesisShape
  <2> QED BY <1>1, <1>2, <2>1 DEF GenesisInv, ViewsKnown
<1>6. TicksAsk'
  <2>1. \A p \in Rank : Ticking(p)' = Ticking(p) BY <1>1 DEF Ticking
  <2>2. \A p \in Rank : Ticking(p) => started[p].view \in 0..Len(order)
    BY <1>1 DEF GenesisInv, TicksAsk, ViewsKnown, GenesisShape
  <2> QED BY <1>1, <1>3, <2>1, <2>2 DEF GenesisInv, TicksAsk
<1>7. LogsListed'
  <2>1. Seed!Listed \subseteq Seed!Listed'
    <3>1. \A i \in 1..Len(order) : i \in 1..Len(order') BY <1>1, <1>2
    <3> QED BY <1>2, <3>1 DEF Seed!Listed, Seed!List
  <2> QED BY <1>1, <2>1 DEF GenesisInv, LogsListed
<1>8. Guarded'
  <2>1. \A k, h : Guards(k, h) /\ k \in 0..Len(order) => Guards(k, h)'
    BY <1>1, <1>3 DEF Guards, Ticking
  <2>2. 1..Len(order) \subseteq 1..Len(order') /\ 1..Len(order) \subseteq 0..Len(order)
    BY <1>1, <1>2
  <2> QED BY <1>1, <1>3, <2>1, <2>2 DEF GenesisInv, Guarded
<1>9. Seed!OneGenesis' BY <1>1 DEF GenesisInv, Seed!OneGenesis
<1> QED BY <1>4, <1>5, <1>6, <1>7, <1>8, <1>9 DEF GenesisInv

\* One node goes on: what the others know, see and ask stays.
LEMMA NodeStep ==
  ASSUME GenesisInv, NEW n \in Rank, NEW q \in Starting, NEW k \in Nat, known[n] <= k, k <= Len(order),
         order' = order, known' = [known EXCEPT ![n] = k], started' = [started EXCEPT ![n] = q],
         q.view = 0 \/ q.view = k,
         q.tick # Nil =>
            /\ q.view = k /\ n \in Seed!List(k) /\ \A m \in Seed!List(k) : n <= m
            /\ \A m \in q.tick.asked : known'[m] >= k
            /\ q.tick.ready => q.tick.asked = Seed!List(k)
  PROVE  /\ ViewsKnown' /\ TicksAsk'
         /\ known' \in [Rank -> Nat] /\ started' \in [Rank -> Starting]
         /\ \A p \in Rank : known'[p] >= known[p]
         /\ started'[n] = q /\ \A p \in Rank : p # n => started'[p] = started[p]
<1>1. /\ known' \in [Rank -> Nat] /\ known'[n] = k
      /\ \A p \in Rank : p # n => known'[p] = known[p]
  BY DEF GenesisInv, GenesisShape
<1>2. /\ started' \in [Rank -> Starting] /\ started'[n] = q
      /\ \A p \in Rank : p # n => started'[p] = started[p]
  BY DEF GenesisInv, GenesisShape
<1>3. known \in [Rank -> Nat] BY DEF GenesisInv, GenesisShape
<1>4. \A p \in Rank : known'[p] >= known[p] BY <1>1, <1>3
<1>5. ViewsKnown' BY <1>1, <1>2 DEF GenesisInv, ViewsKnown
<1>6. TicksAsk'
  <2> SUFFICES ASSUME NEW p \in Rank, started'[p].tick # Nil
               PROVE  /\ started'[p].view = known'[p] /\ p \in Seed!List(started'[p].view)
                      /\ \A m \in Seed!List(started'[p].view) : p <= m
                      /\ \A m \in started'[p].tick.asked : known'[m] >= started'[p].view
                      /\ started'[p].tick.ready => started'[p].tick.asked = Seed!List(started'[p].view)
    BY DEF TicksAsk, Ticking, Seed!List
  <2>1. CASE p = n BY <1>1, <1>2, <2>1
  <2>2. CASE p # n
    <3>1. started'[p] = started[p] /\ Ticking(p) BY <1>2, <2>2 DEF Ticking
    <3>2. started[p].tick.asked \subseteq Rank /\ started[p].view \in Nat
      BY <3>1 DEF GenesisInv, GenesisShape, Starting, Tour, Ticking
    <3>3. \A m \in started[p].tick.asked : known'[m] >= started[p].view
      BY <1>1, <1>3, <1>4, <3>1, <3>2 DEF GenesisInv, TicksAsk
    <3> QED BY <1>1, <2>2, <3>1, <3>3 DEF GenesisInv, TicksAsk
  <2> QED BY <2>1, <2>2
<1> QED BY <1>1, <1>2, <1>4, <1>5, <1>6

\* Logs and lists only grow, and nobody asks a node with a log: the guards stay.
LEMMA GuardsStay ==
  ASSUME GenesisInv, founders # {}, order' = order,
         known' \in [Rank -> Nat], \A p \in Rank : known'[p] >= known[p],
         \A p \in Rank : dirs[p].log => dirs'[p].log,
         \A p \in Rank : started'[p].tick # Nil =>
            \A h \in Rank : dirs[h].log /\ h \in started'[p].tick.asked =>
                \/ Ticking(p) /\ h \in started[p].tick.asked
                \/ dirs'[p].log
  PROVE  \E k \in 1..Len(order) : \E h \in Seed!List(k) : Guards(k, h)'
<1>1. PICK k \in Nat : k \in 1..Len(order) /\ \E h \in Seed!List(k) : Guards(k, h)
  BY DEF GenesisInv, Guarded
<1>2. PICK h : h \in Seed!List(k) /\ Guards(k, h) BY <1>1
<1>3. Len(order) \in Nat /\ known \in [Rank -> Nat] BY DEF GenesisInv, GenesisShape
<1>4. Seed!List(k) \subseteq Rank /\ h \in Rank BY <1>1, <1>2, <1>3, ListNodes DEF GenesisInv
<1>5. Seed!List(k)' = Seed!List(k) BY SameList
<1>6. \A m \in Seed!List(k) : known'[m] >= k BY <1>2, <1>3, <1>4 DEF Guards
<1>7. \A p \in Rank : started'[p].tick # Nil => h \notin started'[p].tick.asked \/ dirs'[p].log
  BY <1>2, <1>4 DEF Guards
<1>8. Guards(k, h)' BY <1>2, <1>4, <1>5, <1>6, <1>7 DEF Guards, Ticking
<1> QED BY <1>1, <1>2, <1>8

\* A step of one node in which nobody founds a history and no log is lost.
LEMMA StepInv ==
  ASSUME GenesisInv, NEW n \in Rank, NEW q \in Starting, NEW k \in Nat, known[n] <= k, k <= Len(order),
         order' = order, known' = [known EXCEPT ![n] = k], started' = [started EXCEPT ![n] = q],
         q.view = 0 \/ q.view = k,
         q.tick # Nil =>
            /\ q.view = k /\ n \in Seed!List(k) /\ \A m \in Seed!List(k) : n <= m
            /\ \A m \in q.tick.asked : known'[m] >= k
            /\ q.tick.ready => q.tick.asked = Seed!List(k)
            /\ \A h \in q.tick.asked : dirs[h].log =>
                \/ Ticking(n) /\ h \in started[n].tick.asked
                \/ dirs'[n].log,
         dirs' \in [Rank -> Dir],
         \A p \in Rank : dirs[p].log => dirs'[p].log,
         \A p \in Rank : dirs'[p].log => dirs[p].log \/ p \in Seed!Listed,
         founders' = founders
  PROVE  GenesisInv'
<1>1. /\ ViewsKnown' /\ TicksAsk'
      /\ known' \in [Rank -> Nat] /\ started' \in [Rank -> Starting]
      /\ \A p \in Rank : known'[p] >= known[p]
      /\ started'[n] = q /\ \A p \in Rank : p # n => started'[p] = started[p]
  BY NodeStep
<1>2. GenesisShape' BY <1>1 DEF GenesisInv, GenesisShape
<1>3. LogsListed' BY SameList DEF GenesisInv, LogsListed
<1>4. Guarded'
  <2>1. ASSUME founders # {} PROVE \E j \in 1..Len(order) : \E h \in Seed!List(j) : Guards(j, h)'
    <3>1. \A p \in Rank : started'[p].tick # Nil =>
            \A h \in Rank : dirs[h].log /\ h \in started'[p].tick.asked =>
                \/ Ticking(p) /\ h \in started[p].tick.asked
                \/ dirs'[p].log
      BY <1>1 DEF Ticking
    <3> QED BY <1>1, <2>1, <3>1, GuardsStay
  <2> QED BY <2>1, SameList DEF Guarded
<1>5. Seed!OneGenesis' BY DEF GenesisInv, Seed!OneGenesis
<1> QED BY <1>1, <1>2, <1>3, <1>4, <1>5 DEF GenesisInv

-----------------------------------------------------------------------------
(* tick *)

\* A tick starts with the present list, for an empty node of the lowest rank.
LEMMA TickInv ==
  ASSUME GenesisInv, NEW n \in Rank, NEW k \in 1..Len(order), Seed!Tick(n, k)
  PROVE  GenesisInv'
<1> DEFINE stable    == started[n].stable /\ started[n].view = k
           candidate == n \in Seed!List(k) /\ \A m \in Seed!List(k) : n <= m
           goes      == ~ dirs[n].log /\ stable /\ candidate /\ ~ dirs[n].history
           t         == IF goes THEN [asked |-> {n}, ready |-> FALSE] ELSE Nil
           q         == [view |-> k, stable |-> stable, tick |-> t]
<1>1. /\ started' = [started EXCEPT ![n] = q] /\ known' = [known EXCEPT ![n] = k] /\ known[n] <= k
      /\ order' = order /\ founders' = founders
  <2>1. known[n] \in Nat /\ k \in Nat BY DEF GenesisInv, GenesisShape
  <2> QED BY <2>1 DEF Seed!Tick
<1>2. k \in Nat /\ k <= Len(order) /\ stable \in BOOLEAN BY DEF GenesisInv, GenesisShape, Starting
<1>3. t \in Tour \cup {Nil} BY DEF Tour
<1>4. q \in Starting /\ q.view = k /\ q.tick = t
  <2> HIDE DEF t, stable
  <2> QED BY <1>2, <1>3 DEF Starting
<1>5. t # Nil => /\ n \in Seed!List(k) /\ (\A m \in Seed!List(k) : n <= m) /\ ~ dirs[n].log
                 /\ t.asked = {n} /\ ~ t.ready
  OBVIOUS
<1>6. /\ dirs' \in [Rank -> Dir] /\ \A p \in Rank : dirs'[p].log = dirs[p].log
  BY DEF Seed!Tick, GenesisInv, GenesisShape, Dir
<1>7. known'[n] = k BY <1>1 DEF GenesisInv, GenesisShape
<1> HIDE DEF q, t, goes, stable, candidate
<1>8. q.tick # Nil =>
            /\ q.view = k /\ n \in Seed!List(k) /\ \A m \in Seed!List(k) : n <= m
            /\ \A m \in q.tick.asked : known'[m] >= k
            /\ q.tick.ready => q.tick.asked = Seed!List(k)
            /\ \A h \in q.tick.asked : ~ dirs[h].log
  BY <1>2, <1>4, <1>5, <1>7
<1>9. PICK j \in Nat : j = k BY <1>2
<1> QED BY <1>1, <1>2, <1>4, <1>6, <1>8, <1>9, StepInv

\* A step in which at most n's own process changes and no tick begins.
LEMMA QuietStep ==
  ASSUME GenesisInv, NEW n \in Rank, NEW q \in Starting, started' = [started EXCEPT ![n] = q],
         UNCHANGED <<order, known, founders>>,
         q.view = 0 \/ q.view = known[n],
         q.tick # Nil => /\ Ticking(n) /\ q.view = started[n].view
                         /\ q.tick.asked = started[n].tick.asked
                         /\ q.tick.ready => q.tick.asked = Seed!List(q.view),
         dirs' \in [Rank -> Dir],
         \A p \in Rank : dirs[p].log => dirs'[p].log,
         \A p \in Rank : dirs'[p].log => dirs[p].log \/ p \in Seed!Listed
  PROVE  GenesisInv'
<1>0. PICK k \in Nat : k = known[n] BY DEF GenesisInv, GenesisShape
<1>1. known' = [known EXCEPT ![n] = k] /\ known[n] <= k /\ k <= Len(order)
  BY <1>0 DEF GenesisInv, GenesisShape, ViewsKnown
<1>2. q.tick # Nil =>
            /\ q.view = k /\ n \in Seed!List(k) /\ \A m \in Seed!List(k) : n <= m
            /\ \A m \in q.tick.asked : known'[m] >= k
            /\ q.tick.ready => q.tick.asked = Seed!List(k)
            /\ \A h \in q.tick.asked : Ticking(n) /\ h \in started[n].tick.asked
  BY <1>0 DEF GenesisInv, TicksAsk
<1>3. q.view = 0 \/ q.view = k BY <1>0
<1> QED BY <1>1, <1>2, <1>3, StepInv

\* The present process of a node, for the steps that leave it alone.
LEMMA SameProc ==
  ASSUME GenesisInv, NEW n \in Rank
  PROVE  /\ started[n] \in Starting /\ started = [started EXCEPT ![n] = started[n]]
         /\ started[n].view = 0 \/ started[n].view = known[n]
         /\ started[n].tick # Nil => /\ Ticking(n)
                                     /\ started[n].tick.ready => started[n].tick.asked = Seed!List(started[n].view)
BY DEF GenesisInv, GenesisShape, ViewsKnown, TicksAsk, Ticking

\* The list has been the same for long.
LEMMA SettleInv == ASSUME GenesisInv, NEW n \in Rank, Seed!Settle(n) PROVE GenesisInv'
<1> DEFINE q == [started[n] EXCEPT !.stable = TRUE]
<1>1. started[n] \in Starting /\ started[n].tick = Nil
  BY DEF GenesisInv, GenesisShape, Seed!Settle
<1>2. q \in Starting /\ q.view = started[n].view /\ q.tick = Nil BY <1>1 DEF Starting
<1>3. started' = [started EXCEPT ![n] = q] BY DEF Seed!Settle, GenesisInv, GenesisShape
<1>4. q.view = 0 \/ q.view = known[n] BY <1>2 DEF GenesisInv, ViewsKnown
<1>5. UNCHANGED <<order, known, dirs, founders>> /\ dirs' \in [Rank -> Dir]
  BY DEF Seed!Settle, GenesisInv, GenesisShape
<1> HIDE DEF q
<1> QED BY <1>2, <1>3, <1>4, <1>5, QuietStep

\* A tick ends without a history.
LEMMA AbandonInv == ASSUME GenesisInv, NEW n \in Rank, Seed!Abandon(n) PROVE GenesisInv'
<1> DEFINE q == [view |-> started[n].view, stable |-> started[n].stable, tick |-> Nil]
<1>1. started[n] \in Starting BY DEF GenesisInv, GenesisShape
<1>2. q \in Starting BY <1>1 DEF Starting
<1>3. started' = [started EXCEPT ![n] = q]
  <2>1. [started[n] EXCEPT !.tick = Nil] = q BY <1>1 DEF Starting
  <2>2. started' = [started EXCEPT ![n] = [started[n] EXCEPT !.tick = Nil]]
    BY DEF Seed!Abandon, GenesisInv, GenesisShape
  <2> HIDE DEF q
  <2> QED BY <2>1, <2>2
<1>4. q.tick = Nil /\ (q.view = 0 \/ q.view = known[n]) BY DEF GenesisInv, ViewsKnown
<1>5. UNCHANGED <<order, known, dirs, founders>> /\ dirs' \in [Rank -> Dir]
  BY DEF Seed!Abandon, GenesisInv, GenesisShape
<1> HIDE DEF q
<1> QED BY <1>2, <1>3, <1>4, <1>5, QuietStep

\* A process that stops forgets its list and its tick.
LEMMA CrashInv == ASSUME GenesisInv, NEW n \in Rank, Seed!Crash(n) PROVE GenesisInv'
<1>1. Seed!Fresh \in Starting /\ Seed!Fresh.tick = Nil /\ Seed!Fresh.view = 0
  BY DEF Starting, Seed!Fresh
<1>2. started' = [started EXCEPT ![n] = Seed!Fresh] BY DEF Seed!Crash
<1>3. UNCHANGED <<order, known, dirs, founders>> /\ dirs' \in [Rank -> Dir]
  BY DEF Seed!Crash, GenesisInv, GenesisShape
<1> QED BY <1>1, <1>2, <1>3, QuietStep

\* The volume's marker is no log.
LEMMA SyncInv == ASSUME GenesisInv, NEW n \in Rank, NEW m \in Rank, Seed!Sync(n, m) PROVE GenesisInv'
<1>1. dirs' \in [Rank -> Dir] /\ \A p \in Rank : dirs'[p].log = dirs[p].log
  BY DEF Seed!Sync, GenesisInv, GenesisShape, Dir
<1>2. UNCHANGED <<order, known, started, founders>> BY DEF Seed!Sync
<1>3. started' = [started EXCEPT ![n] = started[n]] BY <1>2, SameProc
<1> QED BY <1>1, <1>2, <1>3, SameProc, QuietStep

\* A node that is enrolled has a log, and is listed.
LEMMA JoinInv == ASSUME GenesisInv, NEW n \in Rank, NEW m \in Rank, Seed!Join(n, m) PROVE GenesisInv'
<1>1. /\ dirs' \in [Rank -> Dir] /\ \A p \in Rank : dirs[p].log => dirs'[p].log
      /\ \A p \in Rank : dirs'[p].log => dirs[p].log \/ p \in Seed!Listed
  BY DEF Seed!Join, GenesisInv, GenesisShape, Dir
<1>2. UNCHANGED <<order, known, started, founders>> BY DEF Seed!Join
<1>3. started' = [started EXCEPT ![n] = started[n]] BY <1>2, SameProc
<1> QED BY <1>1, <1>2, <1>3, SameProc, QuietStep

\* All were asked; the intent is written, unless the marker is there.
LEMMA IntendInv == ASSUME GenesisInv, NEW n \in Rank, Seed!Intend(n) PROVE GenesisInv'
<1>1. /\ started[n] \in Starting /\ started[n].tick \in Tour /\ Ticking(n)
      /\ started[n].tick.asked = Seed!List(started[n].view)
  BY DEF Seed!Intend, GenesisInv, GenesisShape, Starting, Ticking
<1>2. UNCHANGED <<order, known, founders>> BY DEF Seed!Intend
<1>3. dirs' \in [Rank -> Dir] /\ \A p \in Rank : dirs'[p].log = dirs[p].log
  <2>1. dirs' = dirs \/ dirs' = [dirs EXCEPT ![n].intent = TRUE] BY DEF Seed!Intend
  <2>2. CASE dirs' = dirs BY <2>2 DEF GenesisInv, GenesisShape
  <2>3. CASE dirs' = [dirs EXCEPT ![n].intent = TRUE]
    <3>1. dirs \in [Rank -> Dir] BY DEF GenesisInv, GenesisShape
    <3> QED BY <2>3, <3>1 DEF Dir
  <2> QED BY <2>1, <2>2, <2>3
<1>4. CASE dirs[n].marker
  <2> DEFINE q == [started[n] EXCEPT !.tick = Nil]
  <2>1. q \in Starting /\ q.view = started[n].view /\ q.tick = Nil BY <1>1 DEF Starting
  <2>2. started' = [started EXCEPT ![n] = q] BY <1>4 DEF Seed!Intend, GenesisInv, GenesisShape
  <2>3. q.view = 0 \/ q.view = known[n] BY <2>1 DEF GenesisInv, ViewsKnown
  <2> HIDE DEF q
  <2> QED BY <1>2, <1>3, <2>1, <2>2, <2>3, QuietStep
<1>5. CASE ~ dirs[n].marker
  <2> DEFINE t == [started[n].tick EXCEPT !.ready = TRUE]
             q == [started[n] EXCEPT !.tick = t]
  <2>1. t \in Tour /\ t.asked = started[n].tick.asked BY <1>1 DEF Tour
  <2>2. started' = [started EXCEPT ![n] = q]
    BY <1>1, <1>5 DEF Seed!Intend, GenesisInv, GenesisShape, Starting
  <2> HIDE DEF t
  <2>3. q \in Starting /\ q.view = started[n].view /\ q.tick = t BY <1>1, <2>1 DEF Starting
  <2>4. q.view = 0 \/ q.view = known[n] BY <2>3 DEF GenesisInv, ViewsKnown
  <2> HIDE DEF q
  <2> QED BY <1>1, <1>2, <1>3, <2>1, <2>2, <2>3, <2>4, QuietStep
<1> QED BY <1>4, <1>5

\* A node that agrees sees the list of the one that asks; a node with a log does not agree.
LEMMA ProbeInv == ASSUME GenesisInv, NEW n \in Rank, NEW m \in Rank, Seed!Probe(n, m) PROVE GenesisInv'
<1>1. /\ started[n] \in Starting /\ started[n].tick \in Tour /\ Ticking(n)
      /\ m \in Seed!List(started[n].view) /\ m \notin started[n].tick.asked
  BY DEF Seed!Probe, GenesisInv, GenesisShape, Starting, Ticking
<1>2. UNCHANGED <<order, known, dirs, founders>> /\ dirs' \in [Rank -> Dir]
  BY DEF Seed!Probe, GenesisInv, GenesisShape
<1>3. CASE ~ Seed!Agrees(n, m)
  <2> DEFINE q == [started[n] EXCEPT !.tick = Nil]
  <2>1. q \in Starting /\ q.view = started[n].view /\ q.tick = Nil BY <1>1 DEF Starting
  <2>2. started' = [started EXCEPT ![n] = q] BY <1>3 DEF Seed!Probe, GenesisInv, GenesisShape
  <2>3. q.view = 0 \/ q.view = known[n] BY <2>1 DEF GenesisInv, ViewsKnown
  <2> HIDE DEF q
  <2> QED BY <1>2, <2>1, <2>2, <2>3, QuietStep
<1>4. CASE Seed!Agrees(n, m)
  <2> DEFINE t == [asked |-> started[n].tick.asked \cup {m}, ready |-> FALSE]
             q == [started[n] EXCEPT !.tick = t]
  <2>1. /\ t \in Tour /\ t.asked = started[n].tick.asked \cup {m} /\ ~ t.ready
    BY <1>1 DEF Tour
  <2>2. started' = [started EXCEPT ![n] = q]
    <3>1. started' = [started EXCEPT ![n].tick = IF Seed!Agrees(n, m) THEN t ELSE Nil]
      BY DEF Seed!Probe
    <3> HIDE DEF t
    <3> QED BY <1>4, <3>1 DEF GenesisInv, GenesisShape
  <2> HIDE DEF t
  <2>3. q \in Starting /\ q.view = started[n].view /\ q.tick = t BY <1>1, <2>1 DEF Starting
  <2> HIDE DEF q
  <2>4. PICK k \in Nat : k = known[n] BY DEF GenesisInv, GenesisShape
  <2>5. /\ q.view = k /\ n \in Seed!List(k) /\ (\A p \in Seed!List(k) : n <= p)
        /\ \A p \in started[n].tick.asked : known[p] >= k
    BY <1>1, <2>3, <2>4 DEF GenesisInv, TicksAsk
  <2>7. known[m] >= k
    <3>1. k > 0 BY <2>5, <2>4 DEF Seed!List
    <3>2. started[m].view = k BY <1>4, <2>3, <2>5 DEF Seed!Agrees
    <3> QED BY <2>4, <3>1, <3>2 DEF GenesisInv, ViewsKnown
  <2>8. ~ dirs[m].log BY <1>4 DEF Seed!Agrees
  <2>9. /\ known' = [known EXCEPT ![n] = k] /\ known[n] <= k /\ k <= Len(order)
    BY <1>2, <2>4 DEF GenesisInv, GenesisShape, ViewsKnown
  <2>10. q.tick # Nil =>
            /\ q.view = k /\ n \in Seed!List(k) /\ \A p \in Seed!List(k) : n <= p
            /\ \A p \in q.tick.asked : known'[p] >= k
            /\ q.tick.ready => q.tick.asked = Seed!List(k)
            /\ \A h \in q.tick.asked : dirs[h].log =>
                \/ Ticking(n) /\ h \in started[n].tick.asked
                \/ dirs'[n].log
    BY <1>1, <1>2, <2>1, <2>3, <2>5, <2>7, <2>8
  <2> QED BY <1>2, <2>3, <2>5, <2>2, <2>9, <2>10, StepInv
<1> QED BY <1>3, <1>4

\* Two that tick and asked each other are the same.
LEMMA AskedEachOther ==
  ASSUME GenesisInv, NEW n \in Rank, NEW p \in Rank, Ticking(n), Ticking(p),
         started[n].tick.asked = Seed!List(started[n].view), n \in started[p].tick.asked
  PROVE  p = n
<1>1. /\ started[n].view = known[n] /\ started[p].view = known[p] /\ known[n] >= started[p].view
      /\ n \in Seed!List(started[n].view) /\ p \in Seed!List(started[p].view)
      /\ started[n].view \in Nat /\ started[p].view \in Nat /\ n \in Nat /\ p \in Nat
  BY HistoriesAssumption DEF GenesisInv, TicksAsk, GenesisShape, Starting, Seed!GenesisAssumption
<1>2. p \in started[n].tick.asked BY <1>1, ListGrows
<1>3. known[p] >= started[n].view BY <1>2 DEF GenesisInv, TicksAsk
<1>4. started[p].view = started[n].view BY <1>1, <1>3
<1>5. p <= n /\ n <= p BY <1>1, <1>4 DEF GenesisInv, TicksAsk
<1> QED BY <1>1, <1>5

\* Whoever founds a history is the first, and guards it from then on.
LEMMA BootstrapInv == ASSUME GenesisInv, NEW n \in Rank, Seed!Bootstrap(n) PROVE GenesisInv'
<1> DEFINE q == [started[n] EXCEPT !.tick = Nil]
<1>1. /\ started[n] \in Starting /\ Ticking(n) /\ started[n].tick.ready
      /\ started[n].tick.asked = Seed!List(started[n].view) /\ n \in Seed!List(started[n].view)
      /\ started[n].view = known[n] /\ known[n] \in Nat /\ known[n] <= Len(order) /\ Len(order) \in Nat
  BY DEF Seed!Bootstrap, GenesisInv, GenesisShape, TicksAsk, ViewsKnown, Ticking
<1>2. q \in Starting /\ q.view = started[n].view /\ q.tick = Nil BY <1>1 DEF Starting
<1>3. started' = [started EXCEPT ![n] = q] BY DEF Seed!Bootstrap, GenesisInv, GenesisShape
<1> HIDE DEF q
<1>4. /\ dirs' \in [Rank -> Dir] /\ dirs'[n].log
      /\ \A p \in Rank : p # n => dirs'[p].log = dirs[p].log
  <2>1. dirs \in [Rank -> Dir] /\ dirs' = [dirs EXCEPT ![n].log = TRUE]
    BY DEF Seed!Bootstrap, GenesisInv, GenesisShape
  <2> QED BY <2>1 DEF Dir
<1>5. n \in Seed!Listed BY <1>1, ListGrows DEF Seed!Listed
<1>6. UNCHANGED <<order, known>> BY DEF Seed!Bootstrap
<1>7. CASE dirs[n].log
  <2>1. founders' = founders BY <1>7 DEF Seed!Bootstrap
  <2> QED BY <1>1, <1>2, <1>3, <1>4, <1>5, <1>6, <2>1, QuietStep
<1>8. CASE ~ dirs[n].log
  <2>1. founders = {}
    <3> SUFFICES ASSUME founders # {} PROVE FALSE OBVIOUS
    <3>1. PICK k \in Nat : k \in 1..Len(order) /\ \E h \in Seed!List(k) : Guards(k, h)
      BY DEF GenesisInv, Guarded
    <3>2. PICK h : h \in Seed!List(k) /\ Guards(k, h) BY <3>1
    <3>3. h \in Seed!List(started[n].view) BY <1>1, <3>1, <3>2, GuardSeen
    <3> QED BY <1>1, <1>8, <3>2, <3>3 DEF Guards
  <2>2. founders' = {n} BY <1>8, <2>1 DEF Seed!Bootstrap
  <2>3. PICK k \in Nat : k = known[n] BY <1>1
  <2>4. /\ known' = [known EXCEPT ![n] = k] /\ known[n] <= k /\ k <= Len(order)
        /\ q.view = k
    BY <1>1, <1>2, <1>6, <2>3 DEF GenesisInv, GenesisShape
  <2>5. /\ ViewsKnown' /\ TicksAsk' /\ started' \in [Rank -> Starting]
        /\ started'[n] = q /\ \A p \in Rank : p # n => started'[p] = started[p]
    BY <1>2, <1>3, <1>6, <2>4, NodeStep
  <2>6. GenesisShape' BY <1>4, <1>6, <2>2, <2>5 DEF GenesisInv, GenesisShape
  <2>7. LogsListed'
    <3>1. Seed!Listed' = Seed!Listed BY <1>6 DEF Seed!Listed, Seed!List
    <3> QED BY <1>4, <1>5, <3>1 DEF GenesisInv, LogsListed
  <2>8. Guards(k, n)'
    <3>1. \A m \in Seed!List(k) : known[m] >= k BY <1>1, <2>3 DEF GenesisInv, TicksAsk
    <3>2. \A p \in Rank : started'[p].tick # Nil => n \notin started'[p].tick.asked
      BY <1>1, <1>2, <2>5, AskedEachOther DEF Ticking
    <3>3. Seed!List(k)' = Seed!List(k) BY <1>6 DEF Seed!List
    <3> QED BY <1>4, <1>6, <3>1, <3>2, <3>3 DEF Guards, Ticking
  <2>9. Guarded'
    <3>1. k > 0 BY <1>1, <2>3 DEF Seed!List
    <3>2. k \in 1..Len(order') /\ n \in Seed!List(k)'
      BY <1>1, <1>6, <2>3, <2>4, <3>1 DEF Seed!List
    <3> QED BY <2>8, <3>2 DEF Guarded
  <2>10. Seed!OneGenesis' BY <2>2 DEF Seed!OneGenesis
  <2> QED BY <2>5, <2>6, <2>7, <2>9, <2>10 DEF GenesisInv
<1> QED BY <1>7, <1>8

\* A history is moved away when everybody knows the whole list, and another node keeps it.
LEMMA ResetInv == ASSUME GenesisInv, NEW n \in Rank, NEW m \in Rank, Seed!Reset(n, m) PROVE GenesisInv'
<1>1. /\ n # m /\ dirs[m].log /\ UNCHANGED <<order, known, founders>>
      /\ \A p \in Rank : started[p].tick = Nil /\ known[p] = Len(order)
  BY DEF Seed!Reset
<1>2. /\ dirs' \in [Rank -> Dir] /\ \A p \in Rank : p # n => dirs'[p] = dirs[p]
      /\ \A p \in Rank : dirs'[p].log => dirs[p].log
  <2>1. dirs \in [Rank -> Dir] /\ dirs' = [dirs EXCEPT ![n].log = FALSE]
    BY DEF Seed!Reset, GenesisInv, GenesisShape
  <2> QED BY <2>1 DEF Dir
<1>3. Seed!Fresh \in Starting /\ Seed!Fresh.view = 0 /\ Seed!Fresh.tick = Nil
  BY DEF Seed!Fresh, Starting
<1>4. /\ started' \in [Rank -> Starting] /\ \A p \in Rank : started'[p].tick = Nil
      /\ \A p \in Rank : started'[p].view = 0 \/ started'[p].view = started[p].view
  BY <1>1, <1>3 DEF Seed!Reset, GenesisInv, GenesisShape
<1>5. GenesisShape' BY <1>1, <1>2, <1>4 DEF GenesisInv, GenesisShape
<1>6. ViewsKnown' BY <1>1, <1>4 DEF GenesisInv, ViewsKnown
<1>7. TicksAsk' BY <1>4 DEF TicksAsk, Ticking
<1>8. Seed!Listed' = Seed!Listed /\ m \in Seed!Listed
  BY <1>1 DEF Seed!Listed, Seed!List, GenesisInv, LogsListed
<1>9. LogsListed' BY <1>2, <1>8 DEF GenesisInv, LogsListed
<1>10. PICK k \in Nat : k = Len(order) BY DEF GenesisInv, GenesisShape
<1>11. Guards(k, m)'
  <2>1. Seed!List(k)' = Seed!List(k) BY <1>1 DEF Seed!List
  <2>2. Seed!List(k) \subseteq Rank BY <1>10, ListNodes DEF GenesisInv
  <2>3. \A p \in Seed!List(k) : known'[p] >= k BY <1>1, <1>10, <2>2
  <2> QED BY <1>1, <1>2, <1>4, <2>1, <2>3 DEF Guards, Ticking
<1>12. m \in Seed!List(k)' /\ k \in 1..Len(order') BY <1>1, <1>8, <1>10 DEF Seed!Listed, Seed!List
<1>13. Guarded' BY <1>11, <1>12 DEF Guarded
<1>14. Seed!OneGenesis' BY <1>1 DEF GenesisInv, Seed!OneGenesis
<1> QED BY <1>5, <1>6, <1>7, <1>9, <1>13, <1>14 DEF GenesisInv

-----------------------------------------------------------------------------
(* The invariant *)

\* Nobody is listed at first, and nobody has a history.
LEMMA GenesisInit == Seed!Init => GenesisInv
<1> SUFFICES ASSUME Seed!Init PROVE GenesisInv OBVIOUS
<1>1. Seed!Fresh \in Starting /\ Seed!Fresh.view = 0 /\ Seed!Fresh.tick = Nil
  BY DEF Seed!Fresh, Starting
<1>2. GenesisShape BY <1>1 DEF Seed!Init, GenesisShape, Dir
<1>3. ViewsKnown /\ TicksAsk BY <1>1 DEF Seed!Init, ViewsKnown, TicksAsk, Ticking
<1>4. LogsListed /\ Guarded /\ Seed!OneGenesis
  BY DEF Seed!Init, LogsListed, Guarded, Seed!OneGenesis
<1> QED BY <1>2, <1>3, <1>4 DEF GenesisInv

\* Every step keeps the invariant.
LEMMA GenesisNext == ASSUME GenesisInv, [Seed!Next]_(Seed!vars) PROVE GenesisInv'
<1>1. CASE UNCHANGED Seed!vars
  <2>1. /\ \A k : Seed!List(k)' = Seed!List(k) /\ Seed!Listed' = Seed!Listed
        /\ \A p \in Rank : Ticking(p)' = Ticking(p)
    BY <1>1 DEF Seed!vars, Ticking, Seed!Listed, Seed!List
  <2>2. GenesisShape' /\ ViewsKnown' /\ Seed!OneGenesis'
    BY <1>1 DEF Seed!vars, GenesisInv, GenesisShape, ViewsKnown, Seed!OneGenesis
  <2>3. TicksAsk' /\ LogsListed' BY <1>1, <2>1 DEF Seed!vars, GenesisInv, TicksAsk, LogsListed
  <2>4. \A k, h : Guards(k, h)' = Guards(k, h) BY <1>1, <2>1 DEF Seed!vars, Guards
  <2>5. Guarded' BY <1>1, <2>1, <2>4 DEF Seed!vars, GenesisInv, Guarded
  <2> QED BY <2>2, <2>3, <2>5 DEF GenesisInv
<1>2. CASE Seed!Next
  <2>1. PICK n \in Rank :
        \/ Seed!Appear(n) \/ Seed!Settle(n) \/ Seed!Intend(n) \/ Seed!Bootstrap(n) \/ Seed!Abandon(n) \/ Seed!Crash(n)
        \/ \E k \in 1..Len(order) : Seed!Tick(n, k)
        \/ \E m \in Rank : Seed!Probe(n, m) \/ Seed!Sync(n, m) \/ Seed!Join(n, m) \/ Seed!Reset(n, m)
    BY <1>2 DEF Seed!Next
  <2>2. CASE Seed!Appear(n) BY <2>2, AppearInv
  <2>3. CASE Seed!Settle(n) BY <2>3, SettleInv
  <2>4. CASE Seed!Intend(n) BY <2>4, IntendInv
  <2>5. CASE Seed!Bootstrap(n) BY <2>5, BootstrapInv
  <2>6. CASE Seed!Abandon(n) BY <2>6, AbandonInv
  <2>7. CASE Seed!Crash(n) BY <2>7, CrashInv
  <2>8. CASE \E k \in 1..Len(order) : Seed!Tick(n, k) BY <2>8, TickInv
  <2>9. CASE \E m \in Rank : Seed!Probe(n, m) \/ Seed!Sync(n, m) \/ Seed!Join(n, m) \/ Seed!Reset(n, m)
    BY <2>9, ProbeInv, SyncInv, JoinInv, ResetInv
  <2> QED BY <2>1, <2>2, <2>3, <2>4, <2>5, <2>6, <2>7, <2>8, <2>9
<1> QED BY <1>1, <1>2

\* At most one node ever founds a history (automatic.go's unanimous bootstrap),
\* however many nodes there are, in whatever order discovery lists them and
\* they learn of each other, and wherever they stop.
THEOREM OneFounder == Seed!Spec => []Seed!OneGenesis
<1>1. Seed!Init => GenesisInv BY GenesisInit
<1>2. GenesisInv /\ [Seed!Next]_(Seed!vars) => GenesisInv' BY GenesisNext
<1>3. GenesisInv => Seed!OneGenesis BY DEF GenesisInv
<1> QED BY <1>1, <1>2, <1>3, PTL DEF Seed!Spec

-----------------------------------------------------------------------------
(* Recovery: the invariant *)

Disk ==
    [db : Rec!HistoryOf \cup {Nil}, snap : Int \cup {Nil}, binding : Rec!Generation \cup {Nil},
     intent : Rec!Generation \cup {Rec!Unset, Nil}, request : Rec!RequestOf \cup {Nil},
     reset : Rec!ResetOf \cup {Nil}]

\* A process that runs Raft.
Running ==
    [phase : {"up"}, pending : BOOLEAN, published : BOOLEAN,
     control : Rec!Generation \cup {Nil}, row : Rec!Generation]

Process == [phase : {"off", "prepare", "rewrite", "consume", "guard", "move"}] \cup Running

Shape ==
    /\ disk \in [Member -> Disk] /\ proc \in [Member -> Process] /\ forks \in Nat

HelloOf == [node : Member, gen : Rec!Generation, empty : BOOLEAN]
DialOf  == [from : Member, to : Member, hello : HelloOf]
ConnOf  == [from : Member, to : Member, answer : HelloOf, near : Rec!Generation \cup {Nil}, far : Rec!Generation]

Links == dials \subseteq DialOf /\ conns \subseteq ConnOf

ForkOf(n)   == Rec!History(n).fork
Intent(n)   == disk[n].intent
Binding(n)  == disk[n].binding
Chosen(n)   == Intent(n) # Nil /\ Intent(n) # Rec!Unset
Below(g, h) == g = h \/ g.number < h.number

\* A journalled request whose history is not rewritten yet.
Waiting(n) ==
    /\ Intent(n) = Rec!Unset /\ Rec!Phase(n) \in {"off", "prepare", "rewrite"}
    /\ disk[n].request # Nil /\ Rec!Acceptable(n) /\ ~ Rec!Moving(n)

\* The binding has taken up what the node was reset for.
ResetBound(n) ==
    disk[n].reset # Nil => Binding(n) # Nil /\ ~ Rec!Supersedes(disk[n].reset.target, Binding(n))

\* What the phases of a process rely on.
PhaseKept(n) ==
    /\ Rec!Phase(n) \in {"prepare", "rewrite", "consume", "guard", "up"} => ~ Rec!Moving(n)
    /\ Rec!Phase(n) = "move" => Rec!Moving(n)
    /\ Rec!Phase(n) \in {"prepare", "rewrite"} => disk[n].request # Nil /\ Rec!Acceptable(n)
    /\ Rec!Phase(n) = "rewrite" => Intent(n) # Nil
    /\ Rec!Phase(n) = "consume" => Intent(n) # Nil /\ ~ Rec!Empty(n)
    /\ Rec!Up(n) => proc[n].pending = (Intent(n) # Nil) /\ (Rec!Empty(n) => Rec!Row(n) = Rec!Zero)

DiskKept(n) ==
    /\ ~ Rec!Moving(n) => (Rec!Empty(n) <=> disk[n].snap = Nil)
    /\ ~ Rec!Empty(n) => ForkOf(n) \in 0..forks /\ Rec!History(n).base.number <= Rec!History(n).gen.number
    /\ Rec!Empty(n) /\ Intent(n) # Nil => Waiting(n)
    /\ Rec!Up(n) \/ Rec!Claims(n) \/ Chosen(n) => ResetBound(n)

\* A node of a fork that has its generation speaks for that generation.
NamedKept(names, n) ==
    ~ Rec!Empty(n) /\ names[ForkOf(n)] # Nil =>
        /\ Intent(n) = Nil \/ Waiting(n)
        /\ Rec!Claims(n) =>
            /\ \/ Binding(n) = names[ForkOf(n)]
               \/ Binding(n) = Nil /\ names[ForkOf(n)].number = 0
            /\ Below(Rec!History(n).base, names[ForkOf(n)])
            /\ Below(Rec!History(n).gen, names[ForkOf(n)])
            /\ Rec!Up(n) => Below(Rec!Row(n), names[ForkOf(n)])

\* A fork that has none yet is one node's, and its journal says which it will be.
UnnamedKept(names, n) ==
    ~ Rec!Empty(n) /\ names[ForkOf(n)] = Nil =>
        /\ Intent(n) # Nil /\ ~ Rec!Moving(n) /\ Rec!History(n).voters = {n}
        /\ Chosen(n) =>
            /\ Intent(n).number > 0 /\ Intent(n).lineage <= forks
            /\ Below(Rec!History(n).base, Intent(n)) /\ Below(Rec!History(n).gen, Intent(n))
            /\ Rec!Up(n) => Below(Rec!Row(n), Intent(n))
            /\ Binding(n) # Nil => Below(Binding(n), Intent(n))
        /\ Rec!Up(n) /\ proc[n].published =>
            Rec!Row(n) = Intent(n) /\ Rec!History(n).gen = Intent(n) /\ Binding(n) = Intent(n)

NodeKept(names, n) ==
    PhaseKept(n) /\ DiskKept(n) /\ NamedKept(names, n) /\ UnnamedKept(names, n)

\* Names of forks: the generations they were given.
Names == [Nat -> Rec!Generation \cup {Nil}]

NamesKept(names) ==
    /\ names[0] = Rec!Zero
    /\ \A f \in Nat : names[f] # Nil =>
        /\ f <= forks /\ names[f].lineage <= forks /\ (f > 0 => names[f].number > 0)
        /\ \A g \in Nat : names[g] # Nil /\ names[g].lineage = names[f].lineage => g = f

Private(names) ==
    \A m, n \in Member :
        ~ Rec!Empty(m) /\ ~ Rec!Empty(n) /\ m # n /\ ForkOf(m) = ForkOf(n) => names[ForkOf(n)] # Nil

\* No lineage is drawn twice.
LineageOnce(names) ==
    /\ \A n \in Member : Chosen(n) =>
        /\ \A f \in Nat : names[f] # Nil => names[f].lineage # Intent(n).lineage
        /\ \A m \in Member : Chosen(m) /\ m # n => Intent(m).lineage # Intent(n).lineage
    /\ \A n \in Member : ~ Rec!Empty(n) /\ names[ForkOf(n)] = Nil /\ Intent(n) = Rec!Unset =>
        /\ \A f \in Nat : names[f] # Nil => names[f].lineage # ForkOf(n)
        /\ \A m \in Member : Chosen(m) => Intent(m).lineage # ForkOf(n)

Core(names) ==
    /\ Shape /\ \A n \in Member : NodeKept(names, n)
    /\ NamesKept(names) /\ Private(names) /\ LineageOnce(names)

\* Who dialled still speaks for the generation the connection is bound to.
Speaks(names, n, g) == Rec!Ready(n) /\ ~ Rec!Empty(n) /\ names[ForkOf(n)] = g

LinksKept(names) ==
    /\ Links
    /\ \A d \in dials : Speaks(names, d.from, d.hello.gen) /\ ~ d.hello.empty
    /\ \A c \in conns : Speaks(names, c.from, c.far)

RecoveryInv == \E names \in Names : Core(names) /\ LinksKept(names)

-----------------------------------------------------------------------------
(* Records *)

\* None is nothing else.
LEMMA NoneApart ==
  /\ Nil \notin Int /\ Nil \notin Rec!Generation /\ Nil # Rec!Unset /\ Nil \notin Rec!HistoryOf
  /\ Nil \notin Rec!RequestOf /\ Nil \notin Rec!ResetOf /\ Rec!Unset \notin Rec!Generation
<1>1. Rec!Unset \notin Rec!Generation BY DEF Rec!Unset, Rec!Generation
<1> QED BY <1>1, HistoriesAssumption DEF Rec!RecoveryAssumption

\* The parts of a node's directory and process.
LEMMA Fields ==
  ASSUME Shape, NEW n \in Member
  PROVE  /\ disk[n] \in Disk /\ proc[n] \in Process
         /\ disk[n].db \in Rec!HistoryOf \cup {Nil} /\ disk[n].snap \in Int \cup {Nil}
         /\ disk[n].binding \in Rec!Generation \cup {Nil}
         /\ disk[n].intent \in Rec!Generation \cup {Rec!Unset, Nil}
         /\ disk[n].request \in Rec!RequestOf \cup {Nil} /\ disk[n].reset \in Rec!ResetOf \cup {Nil}
<1>1. disk[n] \in Disk /\ proc[n] \in Process BY DEF Shape
<1> QED BY <1>1 DEF Disk

\* A running process.
LEMMA UpFields ==
  ASSUME Shape, NEW n \in Member, Rec!Up(n)
  PROVE  /\ proc[n] \in Running
         /\ proc[n].pending \in BOOLEAN /\ proc[n].published \in BOOLEAN
         /\ proc[n].control \in Rec!Generation \cup {Nil} /\ proc[n].row \in Rec!Generation
<1>1. proc[n] \in Process /\ proc[n].phase = "up" BY Fields DEF Rec!Up, Rec!Phase
<1>2. proc[n] \notin [phase : {"off", "prepare", "rewrite", "consume", "guard", "move"}] BY <1>1
<1>3. proc[n] \in Running BY <1>1, <1>2 DEF Process
<1> QED BY <1>3 DEF Running

\* One field of a directory is written.
LEMMA Written ==
  ASSUME Shape, NEW n \in Member, NEW d, d \in Disk, disk' = [disk EXCEPT ![n] = d]
  PROVE  disk'[n] = d /\ \A m \in Member : m # n => disk'[m] = disk[m]
BY DEF Shape

\* The same of a field named by its string.
LEMMA WriteField ==
  ASSUME Shape, NEW n \in Member, NEW f, NEW v, Rec!Write(n, f, v)
  PROVE  /\ f = "db" /\ v \in Rec!HistoryOf \cup {Nil} =>
            \E d \in Disk : d = [disk[n] EXCEPT !.db = v] /\ disk' = [disk EXCEPT ![n] = d]
         /\ f = "snap" /\ v \in Int \cup {Nil} =>
            \E d \in Disk : d = [disk[n] EXCEPT !.snap = v] /\ disk' = [disk EXCEPT ![n] = d]
         /\ f = "binding" /\ v \in Rec!Generation \cup {Nil} =>
            \E d \in Disk : d = [disk[n] EXCEPT !.binding = v] /\ disk' = [disk EXCEPT ![n] = d]
         /\ f = "intent" /\ v \in Rec!Generation \cup {Rec!Unset, Nil} =>
            \E d \in Disk : d = [disk[n] EXCEPT !.intent = v] /\ disk' = [disk EXCEPT ![n] = d]
         /\ f = "request" /\ v \in Rec!RequestOf \cup {Nil} =>
            \E d \in Disk : d = [disk[n] EXCEPT !.request = v] /\ disk' = [disk EXCEPT ![n] = d]
         /\ f = "reset" /\ v \in Rec!ResetOf \cup {Nil} =>
            \E d \in Disk : d = [disk[n] EXCEPT !.reset = v] /\ disk' = [disk EXCEPT ![n] = d]
<1>1. disk[n] \in Disk BY Fields
<1>2. disk' = [disk EXCEPT ![n] = [disk[n] EXCEPT ![f] = v]] BY DEF Rec!Write
<1>3. CASE f = "db" BY <1>1, <1>2, <1>3 DEF Disk
<1>4. CASE f = "snap" BY <1>1, <1>2, <1>4 DEF Disk
<1>5. CASE f = "binding" BY <1>1, <1>2, <1>5 DEF Disk
<1>6. CASE f = "intent" BY <1>1, <1>2, <1>6 DEF Disk
<1>7. CASE f = "request" BY <1>1, <1>2, <1>7 DEF Disk
<1>8. CASE f = "reset" BY <1>1, <1>2, <1>8 DEF Disk
<1> QED BY <1>3, <1>4, <1>5, <1>6, <1>7, <1>8

-----------------------------------------------------------------------------
(* What does not change *)

\* A node whose directory and process stay the same keeps what it keeps, while more
\* forks are made and others are named.
LEMMA NodeFrame ==
  ASSUME NEW names \in Names, NEW other \in Names, Shape, NEW m \in Member, NodeKept(names, m),
         disk'[m] = disk[m], proc'[m] = proc[m], forks' \in Nat, forks <= forks',
         ~ Rec!Empty(m) => other[ForkOf(m)] = names[ForkOf(m)]
  PROVE  NodeKept(other, m)'
<1>1. /\ Rec!Phase(m)' = Rec!Phase(m) /\ Rec!Up(m)' = Rec!Up(m) /\ Rec!Empty(m)' = Rec!Empty(m) /\ Rec!Row(m)' = Rec!Row(m)
      /\ Rec!History(m)' = Rec!History(m) /\ ForkOf(m)' = ForkOf(m) /\ Intent(m)' = Intent(m)
      /\ Binding(m)' = Binding(m) /\ Rec!Moving(m)' = Rec!Moving(m)
  BY DEF Rec!Phase, Rec!Up, Rec!Empty, Rec!Row, Rec!History, ForkOf, Intent, Binding, Rec!Moving
<1>2. Rec!Acceptable(m)' = Rec!Acceptable(m)
  BY <1>1 DEF Rec!Acceptable, Rec!ValidSingleton, Rec!NothingToLose
<1>3. /\ Rec!Claims(m)' = Rec!Claims(m) /\ Chosen(m)' = Chosen(m) /\ ResetBound(m)' = ResetBound(m)
      /\ Waiting(m)' = Waiting(m)
  BY <1>1, <1>2 DEF Rec!Claims, Chosen, ResetBound, Waiting, Intent
<1>4. PhaseKept(m)' BY <1>1, <1>2 DEF NodeKept, PhaseKept
<1>5. DiskKept(m)'
  <2>1. forks \in Nat BY DEF Shape
  <2>2. ~ Rec!Empty(m) => ForkOf(m) \in 0..forks' BY <2>1 DEF NodeKept, DiskKept
  <2> QED BY <1>1, <1>3, <2>2 DEF NodeKept, DiskKept
<1>6. NamedKept(other, m)' BY <1>1, <1>3 DEF NodeKept, NamedKept
<1>7. UnnamedKept(other, m)'
  <2>1. ~ Rec!Empty(m) /\ other[ForkOf(m)] = Nil => names[ForkOf(m)] = Nil OBVIOUS
  <2>2. Chosen(m) => Intent(m).lineage \in Nat
    BY Fields DEF Chosen, Intent, Rec!Generation
  <2>3. Chosen(m) /\ Intent(m).lineage <= forks => Intent(m).lineage <= forks'
    BY <2>2 DEF Shape
  <2> QED BY <1>1, <1>3, <2>1, <2>3 DEF NodeKept, UnnamedKept
<1> QED BY <1>4, <1>5, <1>6, <1>7 DEF NodeKept

\* Names, private forks and lineages stay as they are when one node keeps its fork or
\* loses its history, and draws no generation.
LEMMA CrossFrame ==
  ASSUME NEW names \in Names, Core(names), forks' = forks, NEW n \in Member,
         \A m \in Member : m # n => disk'[m] = disk[m],
         ~ Rec!Empty(n)' => ~ Rec!Empty(n) /\ ForkOf(n)' = ForkOf(n),
         \/ Intent(n)' = Intent(n) \/ Intent(n)' = Nil
         \/ Intent(n)' = Rec!Unset /\ (~ Rec!Empty(n)' => names[ForkOf(n)'] # Nil)
  PROVE  NamesKept(names)' /\ Private(names)' /\ LineageOnce(names)'
<1>1. \A m \in Member : /\ ~ Rec!Empty(m)' => ~ Rec!Empty(m) /\ ForkOf(m)' = ForkOf(m)
                        /\ m # n => Intent(m)' = Intent(m) /\ Chosen(m)' = Chosen(m)
  BY DEF Rec!Empty, Rec!History, ForkOf, Intent, Chosen
<1>2. \A m \in Member : Chosen(m)' => Chosen(m) /\ Intent(m)' = Intent(m)
  BY <1>1 DEF Chosen
<1>3. NamesKept(names)' BY DEF Core, NamesKept
<1>4. Private(names)' BY <1>1 DEF Core, Private
<1>5. LineageOnce(names)'
  <2>1. ASSUME NEW m \in Member, Chosen(m)'
        PROVE  /\ \A f \in Nat : names[f] # Nil => names[f].lineage # Intent(m)'.lineage
               /\ \A k \in Member : Chosen(k)' /\ k # m => Intent(k)'.lineage # Intent(m)'.lineage
    BY <1>2, <2>1 DEF Core, LineageOnce
  <2>2. ASSUME NEW m \in Member, ~ Rec!Empty(m)', names[ForkOf(m)'] = Nil, Intent(m)' = Rec!Unset
        PROVE  /\ \A f \in Nat : names[f] # Nil => names[f].lineage # ForkOf(m)'
               /\ \A k \in Member : Chosen(k)' => Intent(k)'.lineage # ForkOf(m)'
    <3>1. ~ Rec!Empty(m) /\ ForkOf(m)' = ForkOf(m) BY <1>1, <2>2
    <3>2. Intent(m) = Rec!Unset
      <4>1. CASE m # n BY <1>1, <2>2, <4>1
      <4>2. CASE m = n
        <5>1. UnnamedKept(names, n) BY DEF Core, NodeKept
        <5>2. Intent(n) # Nil BY <2>2, <3>1, <4>2, <5>1 DEF UnnamedKept
        <5> QED BY <2>2, <4>2, <5>2, NoneApart
      <4> QED BY <4>1, <4>2
    <3> QED BY <1>2, <2>2, <3>1, <3>2 DEF Core, LineageOnce
  <2> QED BY <2>1, <2>2 DEF LineageOnce
<1> QED BY <1>3, <1>4, <1>5

\* A step of one node that keeps its fork or loses its history, and draws no generation.
LEMMA OneNode ==
  ASSUME NEW names \in Names, Core(names), NEW n \in Member, NEW d \in Disk, NEW p \in Process,
         disk' = [disk EXCEPT ![n] = d], proc' = [proc EXCEPT ![n] = p], forks' = forks,
         d.db # Nil => disk[n].db # Nil /\ d.db.fork = disk[n].db.fork,
         \/ d.intent = disk[n].intent \/ d.intent = Nil
         \/ d.intent = Rec!Unset /\ (d.db # Nil => names[d.db.fork] # Nil),
         NodeKept(names, n)'
  PROVE  Core(names)'
<1>1. Shape /\ disk'[n] = d /\ proc'[n] = p BY DEF Core, Shape
<1>2. \A m \in Member : m # n => disk'[m] = disk[m] /\ proc'[m] = proc[m] BY DEF Core, Shape
<1>3. Shape' BY <1>1 DEF Shape
<1>4. \A m \in Member : NodeKept(names, m)'
  <2> SUFFICES ASSUME NEW m \in Member, m # n PROVE NodeKept(names, m)' OBVIOUS
  <2>1. forks \in Nat /\ forks <= forks' /\ NodeKept(names, m) BY <1>1 DEF Core, Shape
  <2> QED BY <1>1, <1>2, <2>1, NodeFrame
<1>5. /\ ~ Rec!Empty(n)' => ~ Rec!Empty(n) /\ ForkOf(n)' = ForkOf(n)
      /\ \/ Intent(n)' = Intent(n) \/ Intent(n)' = Nil
         \/ Intent(n)' = Rec!Unset /\ (~ Rec!Empty(n)' => names[ForkOf(n)'] # Nil)
  BY <1>1 DEF Rec!Empty, Rec!History, ForkOf, Intent
<1>6. NamesKept(names)' /\ Private(names)' /\ LineageOnce(names)'
  BY <1>2, <1>5, CrossFrame
<1> QED BY <1>3, <1>4, <1>6 DEF Core

\* Connections that stay are still bound to what their nodes speak for.
LEMMA LinksFrame ==
  ASSUME NEW names \in Names, LinksKept(names), dials' \subseteq dials, conns' \subseteq conns,
         \A m \in Member : \/ \A l \in dials' \cup conns' : l.from # m
                           \/ Rec!Ready(m) /\ ~ Rec!Empty(m) =>
                                  Rec!Ready(m)' /\ ~ Rec!Empty(m)' /\ ForkOf(m)' = ForkOf(m)
  PROVE  LinksKept(names)'
<1>1. Links' BY DEF LinksKept, Links
<1>2. \A d \in dials' : d.from \in Member /\ Speaks(names, d.from, d.hello.gen) /\ ~ d.hello.empty
  BY DEF LinksKept, Links, DialOf
<1>3. \A c \in conns' : c.from \in Member /\ Speaks(names, c.from, c.far)
  BY DEF LinksKept, Links, ConnOf
<1>4. \A d \in dials' : Speaks(names, d.from, d.hello.gen)' BY <1>2 DEF Speaks
<1>5. \A c \in conns' : Speaks(names, c.from, c.far)' BY <1>3 DEF Speaks
<1> QED BY <1>1, <1>2, <1>4, <1>5 DEF LinksKept

-----------------------------------------------------------------------------
(* What a node speaks for *)

\* A binding and a state machine that have reached a generation, or not yet.
LEMMA Speaking ==
  ASSUME NEW g \in Rec!Generation, NEW b \in Rec!Generation \cup {Nil}, NEW x \in Rec!Generation,
         b = g \/ (b = Nil /\ g.number = 0), Below(x, g)
  PROVE  Rec!EffectiveOf(b, x) = g
<1>1. g.number \in Nat /\ x.number \in Nat BY DEF Rec!Generation
<1>2. CASE b = g BY <1>1, <1>2, NoneApart DEF Rec!EffectiveOf, Rec!Supersedes, Rec!Later, Below
<1>3. CASE b = Nil BY <1>1, <1>3, NoneApart DEF Rec!EffectiveOf, Below
<1> QED BY <1>2, <1>3

\* Who claims a generation has a fork of that name.
LEMMA Claimed ==
  ASSUME NEW names \in Names, Core(names), NEW n \in Member, Rec!Claims(n)
  PROVE  /\ disk[n].db \in Rec!HistoryOf /\ ForkOf(n) \in Nat /\ ForkOf(n) <= forks
         /\ names[ForkOf(n)] \in Rec!Generation
         /\ Binding(n) = names[ForkOf(n)] \/ (Binding(n) = Nil /\ names[ForkOf(n)].number = 0)
         /\ Below(Rec!History(n).base, names[ForkOf(n)]) /\ Below(Rec!History(n).gen, names[ForkOf(n)])
         /\ Rec!Up(n) => Below(Rec!Row(n), names[ForkOf(n)])
<1>1. NodeKept(names, n) /\ ~ Rec!Empty(n) /\ Intent(n) = Nil BY DEF Core, Rec!Claims, Intent
<1>2. disk[n].db \in Rec!HistoryOf BY <1>1, Fields DEF Core, Rec!Empty, Rec!History
<1>3. ForkOf(n) \in 0..forks /\ forks \in Nat BY <1>1 DEF NodeKept, DiskKept, Core, Shape
<1>4. ForkOf(n) \in Nat /\ ForkOf(n) <= forks BY <1>3
<1>5. names[ForkOf(n)] # Nil BY <1>1 DEF NodeKept, UnnamedKept
<1>6. names[ForkOf(n)] \in Rec!Generation BY <1>4, <1>5 DEF Names
<1> QED BY <1>1, <1>2, <1>4, <1>5, <1>6 DEF NodeKept, NamedKept

\* A running node of a named fork speaks for its name, and persists nothing else.
LEMMA ClaimUp ==
  ASSUME NEW names \in Names, Core(names), NEW n \in Member, Rec!Claims(n), Rec!Up(n)
  PROVE  Rec!Effective(n) = names[ForkOf(n)] /\ Rec!BindingNow(n) = Binding(n)
<1>1. Rec!Row(n) \in Rec!Generation BY UpFields DEF Core, Rec!Row
<1>2. Binding(n) \in Rec!Generation \cup {Nil} BY Fields DEF Core, Binding
<1>3. Rec!Effective(n) = names[ForkOf(n)]
  BY <1>1, <1>2, Claimed, Speaking DEF Rec!Effective, Binding
<1>4. Rec!BindingNow(n) = Binding(n)
  <2>1. names[ForkOf(n)].number \in Nat /\ Rec!Row(n).number \in Nat
    BY <1>1, Claimed DEF Rec!Generation
  <2>2. Rec!Row(n).number <= names[ForkOf(n)].number BY <2>1, Claimed DEF Below
  <2>3. CASE Binding(n) = names[ForkOf(n)]
    <3>1. Binding(n) # Nil BY <2>3, Claimed, NoneApart
    <3> QED BY <2>1, <2>2, <2>3, <3>1 DEF Rec!BindingNow, Rec!Later, Binding
  <2>4. CASE Binding(n) = Nil /\ names[ForkOf(n)].number = 0
    BY <2>1, <2>2, <2>4 DEF Rec!BindingNow, Binding
  <2> QED BY <2>3, <2>4, Claimed
<1> QED BY <1>3, <1>4

\* So does one that will start again.
LEMMA ClaimStart ==
  ASSUME NEW names \in Names, Core(names), NEW n \in Member, Rec!Claims(n)
  PROVE  Rec!BindingAtStart(n) = Binding(n)
<1>1. Binding(n) \in Rec!Generation \cup {Nil} /\ disk[n].reset \in Rec!ResetOf \cup {Nil}
  BY Fields DEF Core, Binding
<1>2. ResetBound(n) /\ ~ Rec!Empty(n) BY DEF Core, NodeKept, DiskKept, Rec!Claims
<1>3. names[ForkOf(n)] \in Rec!Generation /\ Below(Rec!History(n).gen, names[ForkOf(n)])
      /\ Rec!History(n).gen \in Rec!Generation
  BY Claimed DEF Rec!History, Rec!HistoryOf
<1>4. names[ForkOf(n)].number \in Nat /\ Rec!History(n).gen.number \in Nat
  BY <1>3 DEF Rec!Generation
<1>5. CASE Binding(n) = names[ForkOf(n)]
  <2>1. Binding(n) # Nil BY <1>3, <1>5, NoneApart
  <2> QED
    BY <1>2, <1>3, <1>4, <1>5, <2>1 DEF Rec!BindingAtStart, ResetBound, Binding, Rec!Later, Below
<1>6. CASE Binding(n) = Nil /\ names[ForkOf(n)].number = 0
  <2>1. disk[n].reset = Nil BY <1>2, <1>6 DEF ResetBound
  <2>2. Rec!History(n).gen.number = 0 BY <1>3, <1>4, <1>6 DEF Below
  <2> QED BY <1>2, <1>6, <2>1, <2>2 DEF Rec!BindingAtStart, Binding, Rec!Later, Rec!Zero
<1> QED BY <1>5, <1>6, Claimed

\* A node that starts is bound to what it was reset for or to something later.
LEMMA StartBound ==
  ASSUME Shape, NEW n \in Member
  PROVE  /\ Rec!BindingAtStart(n) \in Rec!Generation \cup {Nil}
         /\ disk[n].reset # Nil => /\ Rec!BindingAtStart(n) # Nil
                                   /\ ~ Rec!Supersedes(disk[n].reset.target, Rec!BindingAtStart(n))
<1> DEFINE b == disk[n].binding
           r == disk[n].reset
           s == IF r # Nil /\ (b = Nil \/ Rec!Supersedes(r.target, b)) THEN r.target ELSE b
           k == IF Rec!Empty(n) THEN Rec!Zero ELSE Rec!History(n).gen
<1>1. b \in Rec!Generation \cup {Nil} /\ r \in Rec!ResetOf \cup {Nil} BY Fields
<1>2. k \in Rec!Generation
  <2>1. Rec!Zero \in Rec!Generation BY DEF Rec!Zero, Rec!Generation
  <2>2. ~ Rec!Empty(n) => Rec!History(n).gen \in Rec!Generation
    BY Fields DEF Rec!Empty, Rec!History, Rec!HistoryOf
  <2> QED BY <2>1, <2>2
<1>3. Rec!BindingAtStart(n) = IF Rec!Later(k, IF s = Nil THEN Rec!Zero ELSE s) THEN k ELSE s
  BY DEF Rec!BindingAtStart
<1>4. r # Nil => r.target \in Rec!Generation BY <1>1 DEF Rec!ResetOf
<1>5. s \in Rec!Generation \cup {Nil} BY <1>1, <1>4
<1>6. ASSUME r # Nil PROVE s # Nil /\ s \in Rec!Generation /\ ~ Rec!Supersedes(r.target, s)
  <2>1. CASE b = Nil \/ Rec!Supersedes(r.target, b)
    <3>1. s = r.target BY <1>6, <2>1
    <3>2. ~ Rec!Supersedes(r.target, r.target)
      BY <1>4, <1>6 DEF Rec!Supersedes, Rec!Later, Rec!Generation
    <3> QED BY <1>4, <1>6, <3>1, <3>2, NoneApart
  <2>2. CASE ~ (b = Nil \/ Rec!Supersedes(r.target, b)) BY <1>1, <2>2
  <2> QED BY <2>1, <2>2
<1>7. ASSUME r # Nil, Rec!Later(k, s) PROVE ~ Rec!Supersedes(r.target, k)
  <2>1. r.target.number \in Nat /\ s.number \in Nat /\ k.number \in Nat
    BY <1>2, <1>4, <1>6, <1>7 DEF Rec!Generation
  <2>2. r.target.number <= s.number BY <1>6, <1>7, <2>1 DEF Rec!Supersedes, Rec!Later
  <2> QED BY <1>7, <2>1, <2>2 DEF Rec!Supersedes, Rec!Later
<1> QED BY <1>2, <1>3, <1>5, <1>6, <1>7, NoneApart

-----------------------------------------------------------------------------
(* Requests, starts and crashes *)

Kept(names) == Core(names) /\ LinksKept(names)

\* A process that does not run Raft goes on, and of its directory only the request changes.
LEMMA Quiet ==
  ASSUME NEW names \in Names, Core(names), NEW n \in Member, NEW d \in Disk, NEW p \in Process,
         disk' = [disk EXCEPT ![n] = d], proc' = [proc EXCEPT ![n] = p], forks' = forks,
         d.db = disk[n].db, d.snap = disk[n].snap, d.binding = disk[n].binding,
         d.intent = disk[n].intent, d.reset = disk[n].reset,
         p.phase # "up", PhaseKept(n)', Waiting(n) => Waiting(n)'
  PROVE  Core(names)'
<1>1. disk'[n] = d /\ proc'[n] = p /\ NodeKept(names, n) BY DEF Core, Shape
<1>2. /\ ~ Rec!Up(n)' /\ Rec!Empty(n)' = Rec!Empty(n) /\ Intent(n)' = Intent(n) /\ Rec!Moving(n)' = Rec!Moving(n)
      /\ Rec!History(n)' = Rec!History(n) /\ ForkOf(n)' = ForkOf(n) /\ Binding(n)' = Binding(n)
      /\ disk'[n].snap = disk[n].snap
  BY <1>1 DEF Rec!Up, Rec!Phase, Rec!Empty, Rec!History, Intent, Rec!Moving, ForkOf, Binding
<1>3. Rec!Claims(n)' = Rec!Claims(n) /\ Chosen(n)' = Chosen(n) /\ ResetBound(n)' = ResetBound(n)
  BY <1>1, <1>2 DEF Rec!Claims, Intent, Chosen, ResetBound
<1>4. DiskKept(n)' BY <1>1, <1>2, <1>3 DEF NodeKept, DiskKept
<1>5. NamedKept(names, n)' BY <1>1, <1>2, <1>3 DEF NodeKept, NamedKept
<1>6. UnnamedKept(names, n)' BY <1>1, <1>2, <1>3 DEF NodeKept, UnnamedKept
<1>7. NodeKept(names, n)' BY <1>4, <1>5, <1>6 DEF NodeKept
<1> QED BY <1>7, OneNode

\* Nobody dialled from a node that does not run Raft.
LEMMA QuietLinks ==
  ASSUME NEW names \in Names, Kept(names), NEW n \in Member,
         ~ Rec!Ready(n) \/ (Rec!Ready(n)' /\ ~ Rec!Empty(n)' /\ ForkOf(n)' = ForkOf(n)) \/ Rec!Empty(n),
         \A m \in Member : m # n => disk'[m] = disk[m] /\ proc'[m] = proc[m],
         dials' \subseteq dials, conns' \subseteq conns
  PROVE  LinksKept(names)'
<1>1. \A m \in Member : m # n => Rec!Ready(m)' = Rec!Ready(m) /\ Rec!Empty(m)' = Rec!Empty(m) /\ ForkOf(m)' = ForkOf(m)
  BY DEF Rec!Ready, Rec!Up, Rec!Phase, Rec!Empty, Rec!History, ForkOf
<1>2. \A m \in Member : Rec!Ready(m) /\ ~ Rec!Empty(m) =>
        Rec!Ready(m)' /\ ~ Rec!Empty(m)' /\ ForkOf(m)' = ForkOf(m)
  BY <1>1
<1> QED BY <1>2, LinksFrame DEF Kept

\* A file that requests a recovery is written or given up while the node is off.
LEMMA RequestKept ==
  ASSUME NEW names \in Names, Kept(names), NEW n \in Member, NEW v \in Rec!RequestOf \cup {Nil},
         Rec!Phase(n) = "off", ~ Waiting(n), Rec!Write(n, "request", v),
         UNCHANGED <<proc, dials, conns, forks>>
  PROVE  Kept(names)'
<1>1. PICK d \in Disk : d = [disk[n] EXCEPT !.request = v] /\ disk' = [disk EXCEPT ![n] = d]
  BY WriteField DEF Kept, Core
<1>2. Shape /\ disk[n] \in Disk /\ proc[n] \in Process BY Fields DEF Kept, Core
<1>3. /\ d.db = disk[n].db /\ d.snap = disk[n].snap /\ d.binding = disk[n].binding
      /\ d.intent = disk[n].intent /\ d.reset = disk[n].reset
  BY <1>1, <1>2 DEF Disk
<1>4. proc' = [proc EXCEPT ![n] = proc[n]] BY DEF Kept, Core, Shape
<1>5. PhaseKept(n)' BY DEF PhaseKept, Rec!Phase, Rec!Up
<1>6. Core(names)' BY <1>1, <1>2, <1>3, <1>4, <1>5, Quiet DEF Rec!Phase, Kept
<1>7. \A m \in Member : m # n => disk'[m] = disk[m] /\ proc'[m] = proc[m]
  BY <1>1, <1>2 DEF Shape
<1>8. ~ Rec!Ready(n) BY DEF Rec!Ready, Rec!Up
<1> QED BY <1>6, <1>7, <1>8, QuietLinks DEF Kept

LEMMA RequestRecoveryKept ==
  ASSUME NEW names \in Names, Kept(names), NEW n \in Member, Rec!RequestRecovery(n)
  PROVE  Kept(names)'
<1>1. [kind |-> "recover", tail |-> Rec!History(n).tail] \in Rec!RequestOf
  BY Fields
     DEF Rec!RequestRecovery, Kept, Core, Rec!Empty, Rec!History, Rec!HistoryOf, Rec!RequestOf
<1>2. Rec!Phase(n) = "off" /\ ~ Waiting(n) BY DEF Rec!RequestRecovery, Rec!MayRequest, Waiting
<1> QED BY <1>1, <1>2, RequestKept DEF Rec!RequestRecovery

LEMMA RequestRestoreKept ==
  ASSUME NEW names \in Names, Kept(names), NEW n \in Member, NEW m \in Member, Rec!RequestRestore(n, m)
  PROVE  Kept(names)'
<1>1. [kind |-> "restore", gen |-> Rec!History(m).gen] \in Rec!RequestOf
  BY Fields DEF Rec!RequestRestore, Kept, Core, Rec!Empty, Rec!History, Rec!HistoryOf, Rec!RequestOf
<1>2. Rec!Phase(n) = "off" /\ ~ Waiting(n) BY DEF Rec!RequestRestore, Rec!MayRequest, Waiting
<1> QED BY <1>1, <1>2, RequestKept DEF Rec!RequestRestore

LEMMA WithdrawKept ==
  ASSUME NEW names \in Names, Kept(names), NEW n \in Member, Rec!Withdraw(n)
  PROVE  Kept(names)'
<1>1. Rec!Phase(n) = "off" /\ ~ Waiting(n) BY DEF Rec!Withdraw, Waiting
<1> QED BY <1>1, RequestKept DEF Rec!Withdraw

\* The phases of a process before it runs Raft, and after a crash.
LEMMA PhaseStep ==
  ASSUME NEW names \in Names, Kept(names), NEW n \in Member,
         NEW phase \in {"off", "prepare", "rewrite", "consume", "guard", "move"}, Rec!Enter(n, phase),
         UNCHANGED <<disk, forks>>, dials' \subseteq dials, conns' \subseteq conns,
         ~ Rec!Ready(n) \/ \A l \in dials' \cup conns' : l.from # n,
         PhaseKept(n)', Waiting(n) => Waiting(n)'
  PROVE  Kept(names)'
<1>1. Shape /\ disk[n] \in Disk BY Fields DEF Kept, Core
<1>2. [phase |-> phase] \in Process /\ [phase |-> phase].phase # "up" BY DEF Process
<1>3. disk' = [disk EXCEPT ![n] = disk[n]] BY <1>1 DEF Shape
<1>4. proc' = [proc EXCEPT ![n] = [phase |-> phase]] BY DEF Rec!Enter
<1>5. Core(names)' BY <1>1, <1>2, <1>3, <1>4, Quiet DEF Kept
<1>6. \A m \in Member : m # n => Rec!Ready(m)' = Rec!Ready(m) /\ Rec!Empty(m)' = Rec!Empty(m) /\ ForkOf(m)' = ForkOf(m)
  BY <1>1, <1>4 DEF Shape, Rec!Ready, Rec!Up, Rec!Phase, Rec!Empty, Rec!History, ForkOf
<1>7. LinksKept(names)' BY <1>6, LinksFrame DEF Kept
<1> QED BY <1>5, <1>7 DEF Kept

LEMMA StartKept ==
  ASSUME NEW names \in Names, Kept(names), NEW n \in Member, Rec!Start(n)
  PROVE  Kept(names)'
<1>1. Rec!Phase(n) = "off" /\ ~ Rec!Ready(n) /\ Shape
  BY DEF Rec!Start, Rec!Ready, Rec!Up, Kept, Core
<1>2. UNCHANGED <<disk, dials, conns, forks>> BY DEF Rec!Start
<1>3. Rec!Moving(n)' = Rec!Moving(n) /\ Rec!Acceptable(n)' = Rec!Acceptable(n) /\ Intent(n)' = Intent(n)
  BY <1>2
     DEF Rec!Moving, Rec!Acceptable, Rec!ValidSingleton, Rec!NothingToLose, Rec!Empty, Rec!History, Intent
<1>4. CASE Rec!Moving(n) /\ Rec!Enter(n, "move")
  <2>1. proc'[n] = [phase |-> "move"] BY <1>1, <1>4 DEF Rec!Enter, Shape
  <2>2. PhaseKept(n)' BY <1>3, <1>4, <2>1 DEF PhaseKept, Rec!Phase, Rec!Up
  <2>3. ~ Waiting(n) BY <1>4 DEF Waiting
  <2> QED BY <1>1, <1>2, <1>4, <2>2, <2>3, PhaseStep
<1>5. CASE ~ Rec!Moving(n) /\ Rec!Acceptable(n) /\ disk[n].request = Nil /\ Rec!Enter(n, "guard")
  <2>1. proc'[n] = [phase |-> "guard"] BY <1>1, <1>5 DEF Rec!Enter, Shape
  <2>2. PhaseKept(n)' BY <1>3, <1>5, <2>1 DEF PhaseKept, Rec!Phase, Rec!Up
  <2>3. ~ Waiting(n) BY <1>5 DEF Waiting
  <2> QED BY <1>1, <1>2, <1>5, <2>2, <2>3, PhaseStep
<1>6. CASE ~ Rec!Moving(n) /\ Rec!Acceptable(n) /\ disk[n].request # Nil /\ Rec!Enter(n, "prepare")
  <2>1. proc'[n] = [phase |-> "prepare"] BY <1>1, <1>6 DEF Rec!Enter, Shape
  <2>2. PhaseKept(n)' BY <1>2, <1>3, <1>6, <2>1 DEF PhaseKept, Rec!Phase, Rec!Up
  <2>3. Waiting(n) => Waiting(n)' BY <1>2, <1>3, <2>1 DEF Waiting, Rec!Phase
  <2> QED BY <1>1, <1>2, <1>6, <2>2, <2>3, PhaseStep
<1> QED BY <1>4, <1>5, <1>6 DEF Rec!Start

LEMMA CrashKept ==
  ASSUME NEW names \in Names, Kept(names), NEW n \in Member, Rec!Crash(n)
  PROVE  Kept(names)'
<1>1. Rec!Enter(n, "off") /\ Shape BY DEF Rec!Crash, Rec!Enter, Rec!Off, Kept, Core
<1>2. UNCHANGED <<disk, forks>> /\ dials' \subseteq dials /\ conns' \subseteq conns
      /\ \A l \in dials' \cup conns' : l.from # n
  BY DEF Rec!Crash, Rec!Others
<1>3. proc'[n] = [phase |-> "off"] BY <1>1 DEF Rec!Enter, Shape
<1>4. PhaseKept(n)' BY <1>3 DEF PhaseKept, Rec!Phase, Rec!Up
<1>5. Rec!Moving(n)' = Rec!Moving(n) /\ Rec!Acceptable(n)' = Rec!Acceptable(n) /\ Intent(n)' = Intent(n)
  BY <1>2
     DEF Rec!Moving, Rec!Acceptable, Rec!ValidSingleton, Rec!NothingToLose, Rec!Empty, Rec!History, Intent
<1>6. Waiting(n) => Waiting(n)' BY <1>2, <1>3, <1>5 DEF Waiting, Rec!Phase
<1> QED BY <1>1, <1>2, <1>4, <1>6, PhaseStep

LEMMA PrepareIntentKept ==
  ASSUME NEW names \in Names, Kept(names), NEW n \in Member, Rec!PrepareIntent(n)
  PROVE  Kept(names)'
<1> DEFINE v == IF disk[n].intent = Nil THEN Rec!Unset ELSE disk[n].intent
           p == [phase |-> "rewrite"]
<1>1. Rec!Phase(n) = "prepare" /\ ~ Rec!Ready(n) /\ ~ Rec!Up(n) /\ Shape /\ NodeKept(names, n)
  BY DEF Rec!PrepareIntent, Rec!Ready, Rec!Up, Kept, Core
<1>2. v \in Rec!Generation \cup {Rec!Unset, Nil} /\ v # Nil /\ disk[n] \in Disk
  BY <1>1, Fields, NoneApart
<1>3. PICK d \in Disk : d = [disk[n] EXCEPT !.intent = v] /\ disk' = [disk EXCEPT ![n] = d]
  BY <1>1, <1>2, WriteField DEF Rec!PrepareIntent
<1>4. p \in Process /\ proc' = [proc EXCEPT ![n] = p] /\ forks' = forks
      /\ UNCHANGED <<dials, conns>>
  BY DEF Rec!PrepareIntent, Rec!Enter, Process
<1>5. /\ d.db = disk[n].db /\ d.snap = disk[n].snap /\ d.binding = disk[n].binding
      /\ d.intent = v /\ d.reset = disk[n].reset /\ d.request = disk[n].request
  BY <1>2, <1>3 DEF Disk
<1>6. disk'[n] = d /\ proc'[n] = p BY <1>1, <1>3, <1>4 DEF Shape
<1>7. /\ Rec!Phase(n)' = "rewrite" /\ ~ Rec!Up(n)' /\ Rec!Empty(n)' = Rec!Empty(n) /\ Intent(n)' = v
      /\ Rec!Moving(n)' = Rec!Moving(n) /\ Rec!History(n)' = Rec!History(n) /\ ForkOf(n)' = ForkOf(n)
      /\ Binding(n)' = Binding(n) /\ disk'[n].snap = disk[n].snap
      /\ disk'[n].request = disk[n].request
  BY <1>5, <1>6 DEF Rec!Up, Rec!Phase, Rec!Empty, Rec!History, Intent, Rec!Moving, ForkOf, Binding
<1>8. ~ Rec!Moving(n) /\ disk[n].request # Nil /\ Rec!Acceptable(n)
  BY <1>1 DEF NodeKept, PhaseKept
<1>9. Rec!Acceptable(n)' BY <1>7, <1>8 DEF Rec!Acceptable, Rec!ValidSingleton, Rec!NothingToLose
<1>10. /\ ~ Rec!Claims(n)' /\ ResetBound(n)' = ResetBound(n) /\ (Chosen(n)' => Chosen(n))
       /\ Chosen(n) => Intent(n)' = Intent(n)
  BY <1>2, <1>5, <1>6, <1>7, NoneApart DEF Rec!Claims, Intent, Chosen, ResetBound, Binding
<1>11. v = Rec!Unset => Waiting(n)' BY <1>7, <1>8, <1>9 DEF Waiting
<1>12. PhaseKept(n)' BY <1>2, <1>7, <1>8, <1>9 DEF PhaseKept
<1>13. Intent(n) = Nil \/ Waiting(n) => v = Rec!Unset BY DEF Waiting, Intent
<1>14. DiskKept(n)' BY <1>1, <1>2, <1>4, <1>7, <1>10, <1>11, <1>13 DEF NodeKept, DiskKept, Intent
<1>15. NamedKept(names, n)' BY <1>1, <1>7, <1>10, <1>11, <1>13 DEF NodeKept, NamedKept
<1>16. UnnamedKept(names, n)' BY <1>1, <1>2, <1>4, <1>7, <1>8, <1>10 DEF NodeKept, UnnamedKept
<1>17. NodeKept(names, n)' BY <1>12, <1>14, <1>15, <1>16 DEF NodeKept
<1>18. v = disk[n].intent \/ (v = Rec!Unset /\ (d.db # Nil => names[d.db.fork] # Nil))
  <2>1. Intent(n) = Nil /\ ~ Rec!Empty(n) => names[ForkOf(n)] # Nil
    BY <1>1 DEF NodeKept, UnnamedKept
  <2> QED BY <1>5, <2>1 DEF Intent, Rec!Empty, Rec!History, ForkOf
<1>19. Core(names)' BY <1>3, <1>4, <1>5, <1>17, <1>18, OneNode DEF Kept
<1>20. \A m \in Member : m # n => disk'[m] = disk[m] /\ proc'[m] = proc[m]
  BY <1>1, <1>3, <1>4 DEF Shape
<1> QED BY <1>1, <1>4, <1>19, <1>20, QuietLinks DEF Kept

LEMMA ConsumeRequestKept ==
  ASSUME NEW names \in Names, Kept(names), NEW n \in Member, Rec!ConsumeRequest(n)
  PROVE  Kept(names)'
<1>1. Rec!Phase(n) = "consume" /\ ~ Rec!Ready(n) /\ Shape /\ NodeKept(names, n) /\ disk[n] \in Disk
  BY Fields DEF Rec!ConsumeRequest, Rec!Ready, Rec!Up, Kept, Core
<1>2. PICK d \in Disk : d = [disk[n] EXCEPT !.request = Nil] /\ disk' = [disk EXCEPT ![n] = d]
  BY <1>1, WriteField DEF Rec!ConsumeRequest
<1>3. [phase |-> "guard"] \in Process /\ proc' = [proc EXCEPT ![n] = [phase |-> "guard"]]
      /\ forks' = forks /\ UNCHANGED <<dials, conns>>
  BY DEF Rec!ConsumeRequest, Rec!Enter, Process
<1>4. /\ d.db = disk[n].db /\ d.snap = disk[n].snap /\ d.binding = disk[n].binding
      /\ d.intent = disk[n].intent /\ d.reset = disk[n].reset
  BY <1>1, <1>2 DEF Disk
<1>5. disk'[n] = d /\ proc'[n] = [phase |-> "guard"] BY <1>1, <1>2, <1>3 DEF Shape
<1>6. Rec!Moving(n)' = Rec!Moving(n) /\ ~ Rec!Moving(n)
  BY <1>1, <1>4, <1>5 DEF Rec!Moving, NodeKept, PhaseKept
<1>7. PhaseKept(n)' BY <1>5, <1>6 DEF PhaseKept, Rec!Phase, Rec!Up
<1>8. ~ Waiting(n) BY <1>1 DEF Waiting
<1>9. Core(names)' BY <1>2, <1>3, <1>4, <1>7, <1>8, Quiet DEF Kept
<1>10. \A m \in Member : m # n => disk'[m] = disk[m] /\ proc'[m] = proc[m]
  BY <1>1, <1>2, <1>3 DEF Shape
<1> QED BY <1>1, <1>3, <1>9, <1>10, QuietLinks DEF Kept

-----------------------------------------------------------------------------
(* Rewriting a history *)

\* A generation is chosen only for a fork that has none.
LEMMA ChosenUnnamed ==
  ASSUME NEW names \in Names, Core(names), NEW n \in Member, Chosen(n)
  PROVE  /\ ~ Rec!Empty(n) /\ names[ForkOf(n)] = Nil /\ Intent(n) \in Rec!Generation
         /\ Intent(n).number > 0 /\ Intent(n).lineage <= forks
<1>1. NodeKept(names, n) /\ ~ Waiting(n) /\ Intent(n) # Nil BY DEF Core, Chosen, Waiting
<1>2. ~ Rec!Empty(n) BY <1>1 DEF NodeKept, DiskKept
<1>3. names[ForkOf(n)] = Nil BY <1>1, <1>2 DEF NodeKept, NamedKept
<1>4. Intent(n) \in Rec!Generation BY Fields DEF Core, Chosen, Intent
<1> QED BY <1>1, <1>2, <1>3, <1>4 DEF NodeKept, UnnamedKept

\* The number of a new fork is nobody's and nothing's.
LEMMA ForkNew ==
  ASSUME NEW names \in Names, Core(names)
  PROVE  /\ forks \in Nat /\ names[forks + 1] = Nil
         /\ \A m \in Member : ~ Rec!Empty(m) => ForkOf(m) # forks + 1
         /\ \A m \in Member : Chosen(m) => Intent(m).lineage # forks + 1
         /\ \A f \in Nat : names[f] # Nil => names[f].lineage # forks + 1
<1>1. forks \in Nat /\ forks + 1 \in Nat /\ ~ (forks + 1 <= forks) BY DEF Core, Shape
<1>2. names[forks + 1] = Nil BY <1>1 DEF Core, NamesKept
<1>3. \A m \in Member : ~ Rec!Empty(m) => ForkOf(m) # forks + 1
  BY <1>1 DEF Core, NodeKept, DiskKept
<1>4. \A m \in Member : Chosen(m) => Intent(m).lineage # forks + 1 BY <1>1, ChosenUnnamed
<1>5. \A f \in Nat : names[f] # Nil => names[f].lineage # forks + 1
  BY <1>1 DEF Core, NamesKept
<1> QED BY <1>1, <1>2, <1>3, <1>4, <1>5

LEMMA ForkKept ==
  ASSUME NEW names \in Names, Kept(names), NEW n \in Member, NEW g \in Rec!Generation,
         Rec!Phase(n) = "rewrite", Rec!Fork(n, g), Chosen(n) => Below(g, Intent(n))
  PROVE  Kept(names)'
<1> DEFINE h == [fork |-> forks + 1, base |-> g, gen |-> g, voters |-> {n}, tail |-> FALSE]
           d == [disk[n] EXCEPT !.db = h, !.snap = forks + 1]
           p == [phase |-> "consume"]
<1>1. Core(names) /\ Shape /\ NodeKept(names, n) /\ ~ Rec!Ready(n) /\ disk[n] \in Disk
  BY Fields DEF Kept, Core, Rec!Ready, Rec!Up
<1>2. forks \in Nat /\ forks + 1 \in Nat /\ forks + 1 \in Int BY <1>1 DEF Shape
<1>3. h \in Rec!HistoryOf BY <1>2 DEF Rec!HistoryOf
<1>4. d \in Disk BY <1>1, <1>2, <1>3 DEF Disk
<1>5. /\ disk' = [disk EXCEPT ![n] = d] /\ proc' = [proc EXCEPT ![n] = p] /\ forks' = forks + 1
      /\ UNCHANGED <<dials, conns>>
  BY <1>1 DEF Rec!Fork, Rec!Enter, Shape
<1>6. /\ d.db = h /\ d.snap = forks + 1 /\ d.binding = disk[n].binding
      /\ d.intent = disk[n].intent /\ d.reset = disk[n].reset
  BY <1>1 DEF Disk
<1>7. disk'[n] = d /\ proc'[n] = p BY <1>1, <1>5 DEF Shape
<1>8. \A m \in Member : m # n => disk'[m] = disk[m] /\ proc'[m] = proc[m] BY <1>1, <1>5 DEF Shape
<1>9. Shape' BY <1>1, <1>2, <1>4, <1>5 DEF Shape, Process
<1>10. /\ Rec!Phase(n)' = "consume" /\ ~ Rec!Up(n)' /\ ~ Rec!Empty(n)' /\ Intent(n)' = Intent(n)
       /\ Rec!Moving(n)' = Rec!Moving(n) /\ Rec!History(n)' = h /\ ForkOf(n)' = forks + 1
       /\ Binding(n)' = Binding(n) /\ disk'[n].snap # Nil
  <2>1. /\ disk'[n].db = h /\ disk'[n].snap = forks + 1 /\ disk'[n].binding = disk[n].binding
        /\ disk'[n].intent = disk[n].intent /\ disk'[n].reset = disk[n].reset
    BY <1>6, <1>7
  <2>2. h # Nil /\ forks + 1 # Nil BY <1>2, <1>3, NoneApart
  <2>3. Rec!Phase(n)' = "consume" /\ ~ Rec!Up(n)' BY <1>7 DEF Rec!Phase, Rec!Up
  <2> QED BY <2>1, <2>2, <2>3 DEF Rec!Empty, Rec!History, Intent, Rec!Moving, ForkOf, Binding
<1>11. Intent(n) # Nil /\ ~ Rec!Moving(n) BY <1>1 DEF NodeKept, PhaseKept
<1>12. NodeKept(names, n)'
  <2>1. PhaseKept(n)' BY <1>10, <1>11 DEF PhaseKept
  <2>2. ~ Rec!Claims(n)' /\ Chosen(n)' = Chosen(n) /\ ResetBound(n)' = ResetBound(n)
    BY <1>6, <1>7, <1>10, <1>11 DEF Rec!Claims, Intent, Chosen, ResetBound
  <2>3. DiskKept(n)'
    <3>1. forks + 1 \in 0..forks' /\ g.number <= g.number BY <1>2, <1>5 DEF Rec!Generation
    <3> QED BY <1>1, <1>10, <2>2, <3>1 DEF NodeKept, DiskKept
  <2>4. names[forks + 1] = Nil BY <1>1, ForkNew
  <2>5. NamedKept(names, n)' BY <1>10, <2>4 DEF NamedKept
  <2>6. UnnamedKept(names, n)'
    <3>1. Chosen(n) => /\ Intent(n).number > 0 /\ Intent(n).lineage <= forks'
                       /\ Binding(n) # Nil => Below(Binding(n), Intent(n))
      <4>1. SUFFICES ASSUME Chosen(n) PROVE /\ Intent(n).number > 0 /\ Intent(n).lineage <= forks'
                                            /\ Binding(n) # Nil => Below(Binding(n), Intent(n))
        OBVIOUS
      <4>2. Intent(n).lineage \in Nat BY <1>1, <4>1, ChosenUnnamed DEF Rec!Generation
      <4> QED BY <1>1, <1>2, <1>5, <4>1, <4>2, ChosenUnnamed DEF NodeKept, UnnamedKept
    <3> QED BY <1>10, <1>11, <2>2, <3>1 DEF UnnamedKept
  <2> QED BY <2>1, <2>3, <2>5, <2>6 DEF NodeKept
<1>13. \A m \in Member : NodeKept(names, m)'
  <2> SUFFICES ASSUME NEW m \in Member, m # n PROVE NodeKept(names, m)' BY <1>12
  <2>1. forks' \in Nat /\ forks <= forks' /\ NodeKept(names, m) BY <1>1, <1>2, <1>5 DEF Core
  <2> QED BY <1>1, <1>8, <2>1, NodeFrame
<1>14. NamesKept(names)'
  <2>1. \A f \in Nat : names[f] # Nil => f <= forks' /\ names[f].lineage <= forks'
    <3> SUFFICES ASSUME NEW f \in Nat, names[f] # Nil
                 PROVE  f <= forks' /\ names[f].lineage <= forks' OBVIOUS
    <3>1. names[f].lineage \in Nat BY DEF Names, Rec!Generation
    <3> QED BY <1>1, <1>2, <1>5, <3>1 DEF Core, NamesKept
  <2> QED BY <1>1, <2>1 DEF Core, NamesKept
<1>15. \A m \in Member : m # n => Rec!Empty(m)' = Rec!Empty(m) /\ ForkOf(m)' = ForkOf(m)
                                /\ Intent(m)' = Intent(m)
  BY <1>8 DEF Rec!Empty, Rec!History, ForkOf, Intent
<1>16. Private(names)'
  <2>1. \A m \in Member : m # n /\ ~ Rec!Empty(m)' => ForkOf(m)' # ForkOf(n)'
    BY <1>1, <1>10, <1>15, ForkNew
  <2> QED BY <1>1, <1>15, <2>1 DEF Private, Core
<1>17. LineageOnce(names)'
  <2>1. \A m \in Member : Chosen(m)' = Chosen(m) /\ Intent(m)' = Intent(m)
    BY <1>10, <1>15 DEF Chosen
  <2>2. \A m \in Member : Chosen(m)' =>
        /\ \A f \in Nat : names[f] # Nil => names[f].lineage # Intent(m)'.lineage
        /\ \A k \in Member : Chosen(k)' /\ k # m => Intent(k)'.lineage # Intent(m)'.lineage
    BY <1>1, <2>1 DEF Core, LineageOnce
  <2>3. \A m \in Member : ~ Rec!Empty(m)' /\ names[ForkOf(m)'] = Nil /\ Intent(m)' = Rec!Unset =>
        /\ \A f \in Nat : names[f] # Nil => names[f].lineage # ForkOf(m)'
        /\ \A k \in Member : Chosen(k)' => Intent(k)'.lineage # ForkOf(m)'
    <3> SUFFICES ASSUME NEW m \in Member, ~ Rec!Empty(m)', names[ForkOf(m)'] = Nil, Intent(m)' = Rec!Unset
                 PROVE  /\ \A f \in Nat : names[f] # Nil => names[f].lineage # ForkOf(m)'
                        /\ \A k \in Member : Chosen(k)' => Intent(k)'.lineage # ForkOf(m)'
      OBVIOUS
    <3>1. CASE m = n BY <1>1, <1>10, <2>1, <3>1, ForkNew
    <3>2. CASE m # n BY <1>1, <1>15, <2>1, <3>2 DEF Core, LineageOnce
    <3> QED BY <3>1, <3>2
  <2> QED BY <2>2, <2>3 DEF LineageOnce
<1>18. Core(names)' BY <1>9, <1>13, <1>14, <1>16, <1>17 DEF Core
<1> QED BY <1>1, <1>5, <1>8, <1>18, QuietLinks DEF Kept

\* The survivor's own history, whether or not it is already a fork that a crash left
\* without its generation.
LEMMA RecoverSingletonKept ==
  ASSUME NEW names \in Names, Kept(names), NEW n \in Member, Rec!RecoverSingleton(n)
  PROVE  Kept(names)'
<1>1. Rec!Phase(n) = "rewrite" /\ Core(names) /\ NodeKept(names, n)
  BY DEF Rec!RecoverSingleton, Kept, Core
<1>2. Rec!Acceptable(n) /\ disk[n].request.kind = "recover" /\ disk[n].request # Nil
  BY <1>1 DEF Rec!RecoverSingleton, NodeKept, PhaseKept
<1>3. ~ Rec!Empty(n) BY <1>2 DEF Rec!Acceptable, Rec!ValidSingleton
<1>4. Rec!History(n).gen \in Rec!Generation
  BY <1>1, <1>3, Fields DEF Core, Rec!Empty, Rec!History, Rec!HistoryOf
<1>5. Chosen(n) => Below(Rec!History(n).gen, Intent(n))
  BY <1>1, ChosenUnnamed DEF NodeKept, UnnamedKept
<1> QED BY <1>1, <1>4, <1>5, ForkKept DEF Rec!RecoverSingleton

\* A backup, on a node that has nothing.
LEMMA InstallRestoreKept ==
  ASSUME NEW names \in Names, Kept(names), NEW n \in Member, Rec!InstallRestore(n)
  PROVE  Kept(names)'
<1>1. Rec!Phase(n) = "rewrite" /\ Core(names) /\ NodeKept(names, n)
  BY DEF Rec!InstallRestore, Kept, Core
<1>2. Rec!Acceptable(n) /\ disk[n].request.kind = "restore" /\ disk[n].request # Nil
  BY <1>1 DEF Rec!InstallRestore, NodeKept, PhaseKept
<1>3. Rec!Empty(n) BY <1>2 DEF Rec!Acceptable, Rec!NothingToLose
<1>4. disk[n].request.gen \in Rec!Generation BY <1>1, <1>2, Fields DEF Core, Rec!RequestOf
<1>5. ~ Chosen(n) BY <1>1, <1>3, ChosenUnnamed
<1> QED BY <1>1, <1>4, <1>5, ForkKept DEF Rec!InstallRestore

-----------------------------------------------------------------------------
(* A node runs Raft *)

\* A binding that has taken up the reset changes only for what the log has.
LEMMA StartLog ==
  ASSUME Shape, NEW n \in Member, ResetBound(n), ~ Rec!Empty(n)
  PROVE  Rec!BindingAtStart(n) = Binding(n) \/ Rec!BindingAtStart(n) = Rec!History(n).gen
BY DEF Rec!BindingAtStart, ResetBound, Binding

LEMMA GuardKept ==
  ASSUME NEW names \in Names, Kept(names), NEW n \in Member, Rec!Guard(n)
  PROVE  Kept(names)'
<1> DEFINE b == Rec!BindingAtStart(n)
           row == IF Rec!Empty(n) THEN Rec!Zero ELSE Rec!History(n).base
           p == [phase |-> "up", pending |-> disk[n].intent # Nil, published |-> FALSE,
                 control |-> Nil, row |-> row]
<1>1. Core(names) /\ Shape /\ NodeKept(names, n) /\ Rec!Phase(n) = "guard" /\ ~ Rec!Ready(n) /\ disk[n] \in Disk
  BY Fields DEF Kept, Core, Rec!Ready, Rec!Up, Rec!Guard
<1>2. b \in Rec!Generation \cup {Nil} BY <1>1, StartBound
<1>3. row \in Rec!Generation /\ (~ Rec!Empty(n) => Rec!History(n) \in Rec!HistoryOf)
  <2>1. Rec!Zero \in Rec!Generation BY DEF Rec!Zero, Rec!Generation
  <2>2. ~ Rec!Empty(n) => Rec!History(n) \in Rec!HistoryOf
    BY <1>1, Fields DEF Rec!Empty, Rec!History
  <2> QED BY <2>1, <2>2 DEF Rec!HistoryOf
<1>4. PICK d \in Disk : d = [disk[n] EXCEPT !.binding = b] /\ disk' = [disk EXCEPT ![n] = d]
  BY <1>1, <1>2, WriteField DEF Rec!Guard
<1>5. p \in Process
  <2>1. (disk[n].intent # Nil) \in BOOLEAN OBVIOUS
  <2> QED BY <1>3, <2>1 DEF Process, Running
<1>6. proc' = [proc EXCEPT ![n] = p] /\ forks' = forks /\ UNCHANGED <<dials, conns>>
  BY DEF Rec!Guard
<1>7. /\ d.db = disk[n].db /\ d.snap = disk[n].snap /\ d.binding = b
      /\ d.intent = disk[n].intent /\ d.reset = disk[n].reset /\ d.request = disk[n].request
  BY <1>1, <1>4 DEF Disk
<1>8. disk'[n] = d /\ proc'[n] = p BY <1>1, <1>4, <1>6 DEF Shape
<1>9. /\ Rec!Phase(n)' = "up" /\ Rec!Up(n)' /\ Rec!Empty(n)' = Rec!Empty(n) /\ Intent(n)' = Intent(n)
      /\ Rec!Moving(n)' = Rec!Moving(n) /\ Rec!History(n)' = Rec!History(n) /\ ForkOf(n)' = ForkOf(n)
      /\ Binding(n)' = b /\ disk'[n].snap = disk[n].snap /\ disk'[n].reset = disk[n].reset
      /\ Rec!Row(n)' = row /\ proc'[n].published = FALSE /\ proc'[n].pending = (Intent(n) # Nil)
  BY <1>7, <1>8
     DEF Rec!Up, Rec!Phase, Rec!Empty, Rec!History, Intent, Rec!Moving, ForkOf, Binding, Rec!Row
<1>10. ~ Rec!Moving(n) /\ ~ Waiting(n) BY <1>1 DEF NodeKept, PhaseKept, Waiting
<1>11. PhaseKept(n)' BY <1>9, <1>10 DEF PhaseKept
<1>12. Chosen(n)' = Chosen(n) /\ Rec!Claims(n)' = Rec!Claims(n)
  BY <1>9 DEF Chosen, Rec!Claims, Intent
<1>13. ResetBound(n)' BY <1>1, <1>9, StartBound DEF ResetBound
<1>14. DiskKept(n)' BY <1>1, <1>6, <1>9, <1>10, <1>13 DEF NodeKept, DiskKept
<1>15. NamedKept(names, n)'
  <2> SUFFICES ASSUME ~ Rec!Empty(n), names[ForkOf(n)] # Nil PROVE NamedKept(names, n)'
    BY <1>9 DEF NamedKept
  <2>1. Intent(n) = Nil BY <1>1, <1>10 DEF NodeKept, NamedKept
  <2>2. Rec!Claims(n) BY <1>10, <2>1 DEF Rec!Claims, Intent
  <2>3. b = Binding(n) BY <1>1, <2>2, ClaimStart
  <2> QED BY <1>1, <1>9, <1>12, <2>1, <2>2, <2>3, Claimed DEF NamedKept
<1>16. UnnamedKept(names, n)'
  <2> SUFFICES ASSUME ~ Rec!Empty(n), names[ForkOf(n)] = Nil PROVE UnnamedKept(names, n)'
    BY <1>9 DEF UnnamedKept
  <2>1. UnnamedKept(names, n) BY <1>1 DEF NodeKept
  <2>2. Chosen(n) => b = Binding(n) \/ b = Rec!History(n).gen
    BY <1>1, StartLog DEF NodeKept, DiskKept
  <2>3. Chosen(n) /\ b # Nil => Below(b, Intent(n)) BY <2>1, <2>2 DEF UnnamedKept
  <2> QED BY <1>6, <1>9, <1>12, <2>1, <2>3 DEF UnnamedKept
<1>17. NodeKept(names, n)' BY <1>11, <1>14, <1>15, <1>16 DEF NodeKept
<1>18. Core(names)' BY <1>1, <1>4, <1>5, <1>6, <1>7, <1>17, OneNode
<1>19. \A m \in Member : m # n => disk'[m] = disk[m] /\ proc'[m] = proc[m]
  BY <1>1, <1>4, <1>6 DEF Shape
<1> QED BY <1>1, <1>6, <1>18, <1>19, QuietLinks DEF Kept

\* A running node goes on: its history stays on its fork, its journals stay.
LEMMA UpCore ==
  ASSUME NEW names \in Names, Core(names), NEW n \in Member, Rec!Up(n), NEW d \in Disk, NEW p \in Running,
         disk' = [disk EXCEPT ![n] = d], proc' = [proc EXCEPT ![n] = p], forks' = forks,
         p.pending = proc[n].pending, d.intent = Intent(n), d.reset = disk[n].reset,
         d.db = Nil <=> Rec!Empty(n), d.snap = Nil <=> Rec!Empty(n),
         d.db # Nil => d.db.fork = ForkOf(n) /\ d.db.base.number <= d.db.gen.number,
         Rec!Empty(n) => p.row = Rec!Zero,
         d.reset # Nil => d.binding # Nil /\ ~ Rec!Supersedes(d.reset.target, d.binding),
         Rec!Claims(n) => /\ d.binding = Binding(n)
                          /\ \A g \in {d.db.base, d.db.gen, p.row} : Below(g, names[ForkOf(n)]),
         Intent(n) # Nil => d.db.voters = {n},
         Chosen(n) => /\ \A g \in {d.db.base, d.db.gen, p.row} : Below(g, Intent(n))
                      /\ d.binding # Nil => Below(d.binding, Intent(n)),
         p.published /\ Intent(n) # Nil =>
            p.row = Intent(n) /\ d.db.gen = Intent(n) /\ d.binding = Intent(n)
  PROVE  /\ Core(names)' /\ Rec!Ready(n)' = Rec!Ready(n) /\ Rec!Empty(n)' = Rec!Empty(n)
         /\ ~ Rec!Empty(n) => ForkOf(n)' = ForkOf(n)
         /\ \A m \in Member : m # n => disk'[m] = disk[m] /\ proc'[m] = proc[m]
<1>1. Shape /\ NodeKept(names, n) /\ p \in Process BY DEF Core, Process
<1>2. disk'[n] = d /\ proc'[n] = p /\ p.phase = "up" BY <1>1 DEF Shape, Running
<1>3. /\ Rec!Phase(n)' = "up" /\ Rec!Up(n)' /\ Rec!Empty(n)' = Rec!Empty(n) /\ Intent(n)' = Intent(n)
      /\ Rec!Moving(n)' = Rec!Moving(n) /\ Rec!History(n)' = d.db /\ (~ Rec!Empty(n) => ForkOf(n)' = ForkOf(n))
      /\ Binding(n)' = d.binding /\ disk'[n].snap = d.snap /\ disk'[n].reset = d.reset
      /\ Rec!Row(n)' = p.row /\ proc'[n].published = p.published /\ proc'[n].pending = p.pending
  BY <1>2
     DEF Rec!Up, Rec!Phase, Rec!Empty, Rec!History, Intent, Rec!Moving, ForkOf, Binding, Rec!Row
<1>4. /\ ~ Rec!Moving(n) /\ ~ Waiting(n) /\ proc[n].pending = (Intent(n) # Nil)
  BY <1>1 DEF NodeKept, PhaseKept, Waiting, Rec!Up
<1>5. PhaseKept(n)' BY <1>3, <1>4 DEF PhaseKept
<1>6. Chosen(n)' = Chosen(n) /\ Rec!Claims(n)' = Rec!Claims(n)
  BY <1>3 DEF Chosen, Rec!Claims, Intent
<1>7. ResetBound(n)' BY <1>3 DEF ResetBound
<1>8. DiskKept(n)'
  <2>1. Rec!Empty(n) => Intent(n) = Nil BY <1>1, <1>4 DEF NodeKept, DiskKept
  <2>2. ~ Rec!Empty(n) => ForkOf(n) \in 0..forks BY <1>1 DEF NodeKept, DiskKept
  <2> QED BY <1>3, <1>7, <2>1, <2>2, NoneApart DEF DiskKept, Rec!Empty
<1>9. NamedKept(names, n)' BY <1>1, <1>3, <1>4, <1>6 DEF NodeKept, NamedKept
<1>10. UnnamedKept(names, n)'
  <2> SUFFICES ASSUME ~ Rec!Empty(n), names[ForkOf(n)] = Nil PROVE UnnamedKept(names, n)'
    BY <1>3 DEF UnnamedKept
  <2>1. /\ Intent(n) # Nil
        /\ Chosen(n) => Intent(n).number > 0 /\ Intent(n).lineage <= forks
    BY <1>1 DEF NodeKept, UnnamedKept
  <2> QED BY <1>3, <1>4, <1>6, <2>1 DEF UnnamedKept
<1>11. NodeKept(names, n)' BY <1>5, <1>8, <1>9, <1>10 DEF NodeKept
<1>12. d.db # Nil => disk[n].db # Nil /\ d.db.fork = disk[n].db.fork
  BY DEF Rec!Empty, Rec!History, ForkOf
<1>13. Core(names)' BY <1>1, <1>11, <1>12, OneNode DEF Intent
<1>14. \A m \in Member : m # n => disk'[m] = disk[m] /\ proc'[m] = proc[m] BY <1>1 DEF Shape
<1>15. Rec!Ready(n)' = Rec!Ready(n) BY <1>3 DEF Rec!Ready
<1> QED BY <1>3, <1>13, <1>14, <1>15

\* What holds of a running node's binding, state machine and journal.
LEMMA UpFacts ==
  ASSUME NEW names \in Names, Core(names), NEW n \in Member, Rec!Up(n)
  PROVE  /\ ~ Rec!Moving(n) /\ (disk[n].snap = Nil <=> Rec!Empty(n))
         /\ Rec!Empty(n) => Rec!Row(n) = Rec!Zero /\ Intent(n) = Nil
         /\ ~ Rec!Empty(n) => Rec!History(n) \in Rec!HistoryOf /\ Rec!History(n).base.number <= Rec!History(n).gen.number
         /\ ResetBound(n)
         /\ Rec!Claims(n) => \A g \in {Rec!History(n).base, Rec!History(n).gen, Rec!Row(n)} :
                            Below(g, names[ForkOf(n)])
         /\ Intent(n) # Nil => ~ Rec!Empty(n) /\ names[ForkOf(n)] = Nil /\ Rec!History(n).voters = {n}
         /\ Chosen(n) => /\ \A g \in {Rec!History(n).base, Rec!History(n).gen, Rec!Row(n)} : Below(g, Intent(n))
                         /\ Binding(n) # Nil => Below(Binding(n), Intent(n))
         /\ proc[n].published /\ Intent(n) # Nil =>
                Rec!Row(n) = Intent(n) /\ Rec!History(n).gen = Intent(n) /\ Binding(n) = Intent(n)
         /\ proc[n].pending = (Intent(n) # Nil)
         /\ Rec!Ready(n) => Intent(n) = Nil
         /\ Rec!Ready(n) /\ ~ Rec!Empty(n) => Rec!Claims(n)
<1>1. NodeKept(names, n) /\ ~ Waiting(n) /\ Shape BY DEF Core, Waiting, Rec!Up
<1>2. /\ ~ Rec!Moving(n) /\ (Rec!Empty(n) => Rec!Row(n) = Rec!Zero) /\ proc[n].pending = (Intent(n) # Nil)
  BY <1>1 DEF NodeKept, PhaseKept, Rec!Up
<1>3. /\ (disk[n].snap = Nil <=> Rec!Empty(n)) /\ (Rec!Empty(n) => Intent(n) = Nil) /\ ResetBound(n)
      /\ ~ Rec!Empty(n) => Rec!History(n).base.number <= Rec!History(n).gen.number
  BY <1>1, <1>2 DEF NodeKept, DiskKept
<1>4. ~ Rec!Empty(n) => Rec!History(n) \in Rec!HistoryOf
  BY <1>1, Fields DEF Rec!Empty, Rec!History
<1>5. Rec!Claims(n) => \A g \in {Rec!History(n).base, Rec!History(n).gen, Rec!Row(n)} : Below(g, names[ForkOf(n)])
  BY Claimed
<1>6. Intent(n) # Nil => ~ Rec!Empty(n) /\ names[ForkOf(n)] = Nil
  BY <1>1, <1>3 DEF NodeKept, NamedKept
<1>7. UnnamedKept(names, n) BY <1>1 DEF NodeKept
<1>8. Intent(n) # Nil => Rec!History(n).voters = {n} BY <1>6, <1>7 DEF UnnamedKept
<1>9. Chosen(n) => /\ \A g \in {Rec!History(n).base, Rec!History(n).gen, Rec!Row(n)} : Below(g, Intent(n))
                   /\ Binding(n) # Nil => Below(Binding(n), Intent(n))
  BY <1>6, <1>7 DEF UnnamedKept, Chosen
<1>10. proc[n].published /\ Intent(n) # Nil =>
          Rec!Row(n) = Intent(n) /\ Rec!History(n).gen = Intent(n) /\ Binding(n) = Intent(n)
  BY <1>6, <1>7 DEF UnnamedKept
<1>11. Rec!Ready(n) => Intent(n) = Nil BY <1>2 DEF Rec!Ready
<1>12. Rec!Ready(n) /\ ~ Rec!Empty(n) => Rec!Claims(n) BY <1>2, <1>11 DEF Rec!Claims, Intent
<1> QED BY <1>2, <1>3, <1>4, <1>5, <1>6, <1>8, <1>9, <1>10, <1>11, <1>12

\* The same with the connections there are.
LEMMA UpLinks ==
  ASSUME NEW names \in Names, Kept(names), NEW n \in Member, Core(names)',
         Rec!Ready(n)' = Rec!Ready(n), Rec!Empty(n)' = Rec!Empty(n), ~ Rec!Empty(n) => ForkOf(n)' = ForkOf(n),
         \A m \in Member : m # n => disk'[m] = disk[m] /\ proc'[m] = proc[m],
         dials' \subseteq dials, conns' \subseteq conns
  PROVE  Kept(names)'
BY QuietLinks DEF Kept

\* A running node whose process and binding alone change.
LEMMA UpBinding ==
  ASSUME NEW names \in Names, Core(names), NEW n \in Member, Rec!Up(n), NEW p \in Running,
         NEW b \in Rec!Generation \cup {Nil}, NEW d \in Disk, d = [disk[n] EXCEPT !.binding = b],
         disk' = [disk EXCEPT ![n] = d], proc' = [proc EXCEPT ![n] = p], forks' = forks,
         p.pending = proc[n].pending, p.row = Rec!Row(n) \/ (~ Rec!Empty(n) /\ p.row = Rec!History(n).gen),
         disk[n].reset # Nil => b # Nil /\ ~ Rec!Supersedes(disk[n].reset.target, b),
         Rec!Claims(n) => b = Binding(n),
         Chosen(n) => (b # Nil => Below(b, Intent(n))),
         p.published /\ Intent(n) # Nil =>
            Rec!Row(n) = Intent(n) /\ Rec!History(n).gen = Intent(n) /\ b = Intent(n)
  PROVE  /\ Core(names)' /\ Rec!Ready(n)' = Rec!Ready(n) /\ Rec!Empty(n)' = Rec!Empty(n)
         /\ ~ Rec!Empty(n) => ForkOf(n)' = ForkOf(n)
         /\ \A m \in Member : m # n => disk'[m] = disk[m] /\ proc'[m] = proc[m]
<1>1. /\ d.db = disk[n].db /\ d.snap = disk[n].snap /\ d.binding = b
      /\ d.intent = Intent(n) /\ d.reset = disk[n].reset
  BY Fields DEF Core, Disk, Intent
<1>2. d.db = Rec!History(n) /\ (d.db = Nil <=> Rec!Empty(n)) /\ (d.snap = Nil <=> Rec!Empty(n))
  BY <1>1, UpFacts DEF Rec!History, Rec!Empty
<1>3. d.db # Nil => d.db.fork = ForkOf(n) /\ d.db.base.number <= d.db.gen.number
  BY <1>2, UpFacts DEF ForkOf
<1>4. Rec!Empty(n) => p.row = Rec!Zero BY UpFacts
<1>5. Rec!Claims(n) => \A g \in {d.db.base, d.db.gen, p.row} : Below(g, names[ForkOf(n)])
  BY <1>2, UpFacts
<1>6. Intent(n) # Nil => d.db.voters = {n} BY <1>2, UpFacts
<1>7. Chosen(n) => \A g \in {d.db.base, d.db.gen, p.row} : Below(g, Intent(n)) BY <1>2, UpFacts
<1>8. p.published /\ Intent(n) # Nil =>
            p.row = Intent(n) /\ d.db.gen = Intent(n) /\ d.binding = Intent(n)
  BY <1>1, <1>2
<1>9. d.reset # Nil => d.binding # Nil /\ ~ Rec!Supersedes(d.reset.target, d.binding) BY <1>1
<1>10. Rec!Claims(n) => /\ d.binding = Binding(n)
                        /\ \A g \in {d.db.base, d.db.gen, p.row} : Below(g, names[ForkOf(n)])
  BY <1>1, <1>5
<1>11. Chosen(n) => /\ \A g \in {d.db.base, d.db.gen, p.row} : Below(g, Intent(n))
                    /\ d.binding # Nil => Below(d.binding, Intent(n))
  BY <1>1, <1>7
<1> QED BY <1>1, <1>2, <1>3, <1>4, <1>6, <1>8, <1>9, <1>10, <1>11, UpCore

\* A running node whose process alone changes.
LEMMA UpProcess ==
  ASSUME NEW names \in Names, Kept(names), NEW n \in Member, Rec!Up(n), NEW p \in Running,
         proc' = [proc EXCEPT ![n] = p], UNCHANGED <<disk, dials, conns, forks>>,
         p.pending = proc[n].pending, p.published = proc[n].published,
         p.row = Rec!Row(n) \/ (~ Rec!Empty(n) /\ p.row = Rec!History(n).gen)
  PROVE  Kept(names)'
<1>1. Core(names) /\ Shape /\ disk[n] \in Disk BY Fields DEF Kept, Core
<1>2. Binding(n) \in Rec!Generation \cup {Nil} BY <1>1, Fields DEF Binding
<1>3. disk[n] = [disk[n] EXCEPT !.binding = Binding(n)] /\ disk' = [disk EXCEPT ![n] = disk[n]]
  <2>1. [disk[n] EXCEPT !.binding = Binding(n)] = disk[n] BY <1>1 DEF Disk, Binding
  <2> QED BY <1>1, <2>1 DEF Shape
<1>4. ResetBound(n) /\ (Chosen(n) => (Binding(n) # Nil => Below(Binding(n), Intent(n))))
      /\ (p.published /\ Intent(n) # Nil =>
            Rec!Row(n) = Intent(n) /\ Rec!History(n).gen = Intent(n) /\ Binding(n) = Intent(n))
  BY <1>1, UpFacts
<1>5. /\ Core(names)' /\ Rec!Ready(n)' = Rec!Ready(n) /\ Rec!Empty(n)' = Rec!Empty(n)
      /\ ~ Rec!Empty(n) => ForkOf(n)' = ForkOf(n)
      /\ \A m \in Member : m # n => disk'[m] = disk[m] /\ proc'[m] = proc[m]
  BY <1>1, <1>2, <1>3, <1>4, UpBinding DEF ResetBound
<1> QED BY <1>5, UpLinks

LEMMA ApplyKept ==
  ASSUME NEW names \in Names, Kept(names), NEW n \in Member, Rec!Apply(n)
  PROVE  Kept(names)'
<1> DEFINE p == [proc[n] EXCEPT !.row = Rec!History(n).gen]
<1>1. Core(names) /\ Shape /\ NodeKept(names, n) /\ Rec!Up(n) /\ ~ Rec!Empty(n)
  BY DEF Kept, Core, Rec!Apply
<1>2. proc[n] \in Running BY <1>1, UpFields
<1>3. Rec!History(n).gen \in Rec!Generation
  BY <1>1, Fields DEF Rec!Empty, Rec!History, Rec!HistoryOf
<1>4. p \in Running /\ p.pending = proc[n].pending /\ p.published = proc[n].published
      /\ p.row = Rec!History(n).gen
  BY <1>2, <1>3 DEF Running
<1>5. proc' = [proc EXCEPT ![n] = p] /\ UNCHANGED <<disk, dials, conns, forks>>
  BY <1>1 DEF Rec!Apply, Shape
<1> QED BY <1>1, <1>4, <1>5, UpProcess

\* A signal to reset, or its refusal.
LEMMA ControlKept ==
  ASSUME NEW names \in Names, Kept(names), NEW n \in Member, Rec!Up(n), NEW g \in Rec!Generation \cup {Nil},
         proc' = [proc EXCEPT ![n].control = g], UNCHANGED <<disk, dials, conns, forks>>
  PROVE  Kept(names)'
<1> DEFINE p == [proc[n] EXCEPT !.control = g]
<1>1. Shape /\ proc[n] \in Running BY UpFields DEF Kept, Core
<1>2. p \in Running /\ p.pending = proc[n].pending /\ p.published = proc[n].published
      /\ p.row = proc[n].row
  BY <1>1 DEF Running
<1>3. proc' = [proc EXCEPT ![n] = p] BY <1>1 DEF Shape
<1> QED BY <1>2, <1>3, UpProcess DEF Rec!Row

\* A running node's generations are generations.
LEMMA EffectiveType ==
  ASSUME Shape, NEW n \in Member, Rec!Up(n)
  PROVE  Rec!Row(n) \in Rec!Generation /\ Rec!Effective(n) \in Rec!Generation
         /\ Rec!BindingNow(n) \in Rec!Generation \cup {Nil}
<1>1. Rec!Row(n) \in Rec!Generation /\ disk[n].binding \in Rec!Generation \cup {Nil}
  BY Fields, UpFields DEF Rec!Row
<1> QED BY <1>1 DEF Rec!Effective, Rec!EffectiveOf, Rec!BindingNow

LEMMA SignalResetKept ==
  ASSUME NEW names \in Names, Kept(names), NEW n \in Member, NEW leader \in Member,
         Rec!SignalReset(n, leader)
  PROVE  Kept(names)'
<1>1. Rec!Up(n) /\ Rec!Up(leader) /\ Shape
  BY DEF Rec!SignalReset, Rec!MaySignal, Rec!Ready, Kept, Core
<1>2. Rec!Row(leader) \in Rec!Generation BY <1>1, EffectiveType
<1> QED BY <1>1, <1>2, ControlKept DEF Rec!SignalReset

LEMMA SignalRebindKept ==
  ASSUME NEW names \in Names, Kept(names), NEW n \in Member, NEW leader \in Member,
         Rec!SignalRebind(n, leader)
  PROVE  Kept(names)'
<1>1. Rec!Up(n) /\ Rec!Up(leader) /\ Shape
  BY DEF Rec!SignalRebind, Rec!MaySignal, Rec!Ready, Kept, Core
<1>2. Rec!Effective(leader) \in Rec!Generation BY <1>1, EffectiveType
<1> QED BY <1>1, <1>2, ControlKept DEF Rec!SignalRebind

\* What effective persists is no step back from the reset nor beyond the journal.
LEMMA BindingNowKept ==
  ASSUME NEW names \in Names, Core(names), NEW n \in Member, Rec!Up(n)
  PROVE  /\ disk[n].reset # Nil =>
            Rec!BindingNow(n) # Nil /\ ~ Rec!Supersedes(disk[n].reset.target, Rec!BindingNow(n))
         /\ Rec!Claims(n) => Rec!BindingNow(n) = Binding(n)
         /\ Chosen(n) => (Rec!BindingNow(n) # Nil => Below(Rec!BindingNow(n), Intent(n)))
<1>1. Shape /\ ResetBound(n) BY UpFacts DEF Core
<1>2. Rec!Row(n) \in Rec!Generation BY <1>1, EffectiveType
<1>3. ASSUME disk[n].reset # Nil
      PROVE  Rec!BindingNow(n) # Nil /\ ~ Rec!Supersedes(disk[n].reset.target, Rec!BindingNow(n))
  <2>1. Binding(n) # Nil /\ ~ Rec!Supersedes(disk[n].reset.target, Binding(n))
    BY <1>1, <1>3 DEF ResetBound
  <2>2. disk[n].reset.target.number \in Nat /\ Binding(n).number \in Nat /\ Rec!Row(n).number \in Nat
    BY <1>1, <1>2, <1>3, <2>1, Fields DEF Rec!ResetOf, Rec!Generation, Binding
  <2>3. CASE Rec!Later(Rec!Row(n), Binding(n))
    BY <1>2, <2>1, <2>2, <2>3, NoneApart DEF Rec!BindingNow, Binding, Rec!Supersedes, Rec!Later
  <2>4. CASE ~ Rec!Later(Rec!Row(n), Binding(n)) BY <2>1, <2>4 DEF Rec!BindingNow, Binding
  <2> QED BY <2>3, <2>4
<1>4. Rec!Claims(n) => Rec!BindingNow(n) = Binding(n) BY ClaimUp
<1>5. Chosen(n) => (Rec!BindingNow(n) # Nil => Below(Rec!BindingNow(n), Intent(n)))
  <2>1. Rec!BindingNow(n) = Rec!Row(n) \/ Rec!BindingNow(n) = Binding(n)
    BY DEF Rec!BindingNow, Binding
  <2> QED BY <2>1, UpFacts
<1> QED BY <1>3, <1>4, <1>5

\* The commit of the chosen generation in the fork's own log.
LEMMA CommitGenerationKept ==
  ASSUME NEW names \in Names, Kept(names), NEW n \in Member, Rec!CommitGeneration(n)
  PROVE  Kept(names)'
<1> DEFINE i == Intent(n)
           h == [disk[n].db EXCEPT !.gen = i, !.tail = TRUE]
           d == [disk[n] EXCEPT !.db = h]
           p == [proc[n] EXCEPT !.row = i]
<1>1. Core(names) /\ Shape /\ Rec!Up(n) /\ ~ Rec!Empty(n) /\ proc[n].pending /\ disk[n] \in Disk
      /\ proc[n] \in Running
  BY Fields, UpFields DEF Kept, Core, Rec!CommitGeneration, Rec!Finishing
<1>2. Chosen(n) BY <1>1, UpFacts DEF Rec!CommitGeneration, Chosen, Intent
<1>3. i \in Rec!Generation BY <1>1, <1>2, ChosenUnnamed
<1>4. disk[n].db \in Rec!HistoryOf BY <1>1, UpFacts DEF Rec!History
<1>5. h \in Rec!HistoryOf /\ h.fork = ForkOf(n) /\ h.base = Rec!History(n).base /\ h.gen = i
      /\ h.voters = Rec!History(n).voters
  BY <1>3, <1>4 DEF Rec!HistoryOf, ForkOf, Rec!History
<1>6. d \in Disk /\ p \in Running BY <1>1, <1>3, <1>5 DEF Disk, Running
<1>7. disk' = [disk EXCEPT ![n] = d] /\ proc' = [proc EXCEPT ![n] = p] /\ forks' = forks
      /\ UNCHANGED <<dials, conns>>
  BY <1>1, <1>4 DEF Rec!CommitGeneration, Intent, Shape
<1>8. /\ d.db = h /\ d.snap = disk[n].snap /\ d.binding = Binding(n) /\ d.intent = Intent(n)
      /\ d.reset = disk[n].reset
  BY <1>1 DEF Disk, Binding, Intent
<1>9. p.pending = proc[n].pending /\ p.published = proc[n].published /\ p.row = i
  BY <1>1, <1>3 DEF Running
<1> HIDE DEF h, d, p
<1>10. (d.db = Nil <=> Rec!Empty(n)) /\ (d.snap = Nil <=> Rec!Empty(n))
  BY <1>1, <1>5, <1>8, NoneApart, UpFacts
<1>11. d.db.base.number <= d.db.gen.number
  <2>1. Below(h.base, i) BY <1>1, <1>2, <1>5, UpFacts
  <2>2. h.base.number \in Nat /\ i.number \in Nat BY <1>3, <1>5 DEF Rec!HistoryOf, Rec!Generation
  <2> QED BY <1>5, <1>8, <2>1, <2>2 DEF Below
<1>12. ~ Rec!Claims(n) /\ Intent(n) # Nil BY <1>2 DEF Rec!Claims, Chosen, Intent
<1>13. d.reset # Nil => d.binding # Nil /\ ~ Rec!Supersedes(d.reset.target, d.binding)
  BY <1>1, <1>8, UpFacts DEF ResetBound
<1>14. d.db.voters = {n} BY <1>1, <1>5, <1>8, <1>12, UpFacts
<1>15. /\ \A g \in {d.db.base, d.db.gen, p.row} : Below(g, Intent(n))
       /\ d.binding # Nil => Below(d.binding, Intent(n))
  BY <1>1, <1>2, <1>5, <1>8, <1>9, UpFacts DEF Below
<1>16. ~ p.published
  <2>1. proc[n].published => Rec!Row(n) = i BY <1>1, <1>12, UpFacts
  <2>2. ~ Rec!Later(i, i) BY <1>3 DEF Rec!Later, Rec!Generation
  <2> QED BY <1>9, <2>1, <2>2 DEF Rec!CommitGeneration, Intent
<1>17. /\ Core(names)' /\ Rec!Ready(n)' = Rec!Ready(n) /\ Rec!Empty(n)' = Rec!Empty(n)
       /\ ~ Rec!Empty(n) => ForkOf(n)' = ForkOf(n)
       /\ \A m \in Member : m # n => disk'[m] = disk[m] /\ proc'[m] = proc[m]
  BY <1>1, <1>5, <1>6, <1>7, <1>8, <1>9, <1>10, <1>11, <1>12, <1>13, <1>14, <1>15, <1>16, UpCore
<1> QED BY <1>7, <1>17, UpLinks

\* The generation is published: the node is bound to it.
LEMMA PublishGenerationKept ==
  ASSUME NEW names \in Names, Kept(names), NEW n \in Member, Rec!PublishGeneration(n)
  PROVE  Kept(names)'
<1> DEFINE p == [proc[n] EXCEPT !.published = TRUE]
<1>1. Core(names) /\ Shape /\ Rec!Up(n) /\ ~ Rec!Empty(n) /\ proc[n].pending /\ disk[n] \in Disk
      /\ proc[n] \in Running /\ Rec!Row(n) = Intent(n) /\ Rec!Row(n) = Rec!History(n).gen
  BY Fields, UpFields DEF Kept, Core, Rec!PublishGeneration, Rec!Finishing, Intent
<1>2. Rec!BindingNow(n) \in Rec!Generation \cup {Nil} /\ Rec!Row(n) \in Rec!Generation
  BY <1>1, EffectiveType
<1>3. Chosen(n) BY <1>1, <1>2, NoneApart DEF Chosen
<1>4. PICK d \in Disk : d = [disk[n] EXCEPT !.binding = Rec!BindingNow(n)] /\ disk' = [disk EXCEPT ![n] = d]
  BY <1>1, <1>2, WriteField DEF Rec!PublishGeneration
<1>5. p \in Running /\ p.pending = proc[n].pending /\ p.row = Rec!Row(n)
  BY <1>1 DEF Running, Rec!Row
<1>6. proc' = [proc EXCEPT ![n] = p] /\ forks' = forks /\ UNCHANGED <<dials, conns>>
  BY <1>1 DEF Rec!PublishGeneration, Shape
<1>7. Rec!BindingNow(n) = Intent(n)
  <2>1. Rec!Row(n).number > 0 BY <1>1, <1>3, ChosenUnnamed
  <2>2. CASE Binding(n) = Nil BY <1>1, <2>1, <2>2 DEF Rec!BindingNow, Binding
  <2>3. CASE Binding(n) # Nil
    <3>1. Below(Binding(n), Intent(n)) BY <1>1, <1>3, <2>3, UpFacts
    <3>2. Binding(n).number \in Nat /\ Rec!Row(n).number \in Nat
      BY <1>1, <1>2, <2>3, Fields DEF Binding, Rec!Generation
    <3> QED BY <1>1, <2>1, <2>3, <3>1, <3>2 DEF Below, Rec!BindingNow, Binding, Rec!Later
  <2> QED BY <2>2, <2>3
<1> HIDE DEF p
<1>8. /\ Core(names)' /\ Rec!Ready(n)' = Rec!Ready(n) /\ Rec!Empty(n)' = Rec!Empty(n)
      /\ ~ Rec!Empty(n) => ForkOf(n)' = ForkOf(n)
      /\ \A m \in Member : m # n => disk'[m] = disk[m] /\ proc'[m] = proc[m]
  BY <1>1, <1>2, <1>4, <1>5, <1>6, <1>7, BindingNowKept, UpBinding
<1> QED BY <1>6, <1>8, UpLinks

\* A generation is drawn: it is later than all the node knows, and its lineage is the
\* fork's, which nobody else has.
LEMMA ChooseGenerationKept ==
  ASSUME NEW names \in Names, Kept(names), NEW n \in Member, NEW number \in Nat, number > 0,
         NEW seen, Rec!ChooseGeneration(n, number, seen)
  PROVE  Kept(names)'
<1> DEFINE i == [number |-> number, lineage |-> ForkOf(n)]
           d == [disk[n] EXCEPT !.binding = Rec!BindingNow(n), !.intent = i]
<1>1. Core(names) /\ Shape /\ Rec!Up(n) /\ ~ Rec!Empty(n) /\ proc[n].pending /\ disk[n] \in Disk
      /\ Rec!Row(n) = Rec!History(n).gen /\ NodeKept(names, n) /\ Intent(n) = Rec!Unset /\ ~ Rec!Ready(n)
  BY Fields DEF Kept, Core, Rec!ChooseGeneration, Rec!Finishing, Intent, Rec!Ready
<1>2. Rec!BindingNow(n) \in Rec!Generation \cup {Nil} /\ Rec!Row(n) \in Rec!Generation
  BY <1>1, EffectiveType
<1>3. Rec!History(n) \in Rec!HistoryOf /\ Rec!History(n).base.number <= Rec!History(n).gen.number
      /\ names[ForkOf(n)] = Nil /\ Rec!History(n).voters = {n} /\ ~ Rec!Moving(n)
  BY <1>1, UpFacts, NoneApart
<1>4. ForkOf(n) \in Nat /\ ForkOf(n) <= forks /\ ForkOf(n) \in 0..forks
  <2>1. ForkOf(n) \in 0..forks /\ forks \in Nat BY <1>1 DEF NodeKept, DiskKept, Shape
  <2> QED BY <2>1
<1>5. i \in Rec!Generation /\ i.number = number /\ i.lineage = ForkOf(n)
  BY <1>4 DEF Rec!Generation
<1>6. d \in Disk BY <1>1, <1>2, <1>5 DEF Disk
<1>7. disk' = [disk EXCEPT ![n] = d] /\ UNCHANGED <<proc, dials, conns, forks>>
  BY <1>1 DEF Rec!ChooseGeneration, ForkOf, Shape
<1>8. /\ d.db = disk[n].db /\ d.snap = disk[n].snap /\ d.binding = Rec!BindingNow(n)
      /\ d.intent = i /\ d.reset = disk[n].reset
  BY <1>1 DEF Disk
<1> HIDE DEF i, d
<1>9. disk'[n] = d /\ proc'[n] = proc[n] BY <1>1, <1>6, <1>7 DEF Shape
<1>10. \A m \in Member : m # n => disk'[m] = disk[m] /\ proc'[m] = proc[m] BY <1>1, <1>7 DEF Shape
<1>11. /\ Rec!Phase(n)' = "up" /\ Rec!Up(n)' /\ ~ Rec!Empty(n)' /\ Intent(n)' = i
       /\ Rec!Moving(n)' = Rec!Moving(n) /\ Rec!History(n)' = Rec!History(n) /\ ForkOf(n)' = ForkOf(n)
       /\ Binding(n)' = Rec!BindingNow(n) /\ disk'[n].snap = disk[n].snap
       /\ disk'[n].reset = disk[n].reset /\ Rec!Row(n)' = Rec!Row(n)
  BY <1>1, <1>8, <1>9
     DEF Rec!Up, Rec!Phase, Rec!Empty, Rec!History, Intent, Rec!Moving, ForkOf, Binding, Rec!Row
<1>12. i # Nil /\ i # Rec!Unset /\ Chosen(n)' BY <1>5, <1>11, NoneApart DEF Chosen
<1>13. \A g \in {Rec!History(n).base, Rec!History(n).gen, Rec!Row(n)} : g.number < number
  <2>1. Rec!Row(n).number < number BY <1>2 DEF Rec!ChooseGeneration, Rec!Generation
  <2>2. Rec!History(n).base.number \in Nat /\ Rec!Row(n).number \in Nat
    BY <1>2, <1>3 DEF Rec!HistoryOf, Rec!Generation
  <2> QED BY <1>1, <1>3, <2>1, <2>2
<1>14. Rec!BindingNow(n) # Nil => Rec!BindingNow(n).number < number
  <2> SUFFICES ASSUME Rec!BindingNow(n) # Nil, Rec!BindingNow(n) = Binding(n)
               PROVE  Rec!BindingNow(n).number < number
    BY <1>13 DEF Rec!BindingNow, Binding
  <2>1. Binding(n) \in Rec!Generation BY <1>2
  <2>2. Binding(n).number \in Nat /\ Rec!Row(n).number \in Nat BY <1>2, <2>1 DEF Rec!Generation
  <2>3. CASE Rec!Supersedes(Binding(n), Rec!Row(n))
    <3>1. Rec!Effective(n) = Binding(n)
      BY <2>1, <2>3, NoneApart DEF Rec!Effective, Rec!EffectiveOf, Binding
    <3>2. number > Rec!Effective(n).number BY DEF Rec!ChooseGeneration
    <3> QED BY <2>2, <3>1, <3>2
  <2>4. CASE ~ Rec!Supersedes(Binding(n), Rec!Row(n))
    <3>1. Binding(n).number <= Rec!Row(n).number BY <2>2, <2>4 DEF Rec!Supersedes, Rec!Later
    <3> QED BY <1>13, <2>2, <3>1
  <2> QED BY <2>3, <2>4
<1>15. ~ proc[n].published
  BY <1>1, <1>2, UpFacts, NoneApart
<1>16. NodeKept(names, n)'
  <2>1. PhaseKept(n)'
    BY <1>1, <1>3, <1>9, <1>11, <1>12 DEF PhaseKept
  <2>2. ResetBound(n)' BY <1>1, <1>11, BindingNowKept DEF ResetBound
  <2>3. disk[n].snap # Nil BY <1>1, UpFacts
  <2>4. DiskKept(n)' BY <1>3, <1>4, <1>7, <1>11, <2>2, <2>3 DEF DiskKept
  <2>5. NamedKept(names, n)' BY <1>3, <1>11 DEF NamedKept
  <2>6. UnnamedKept(names, n)'
    BY <1>3, <1>4, <1>5, <1>7, <1>9, <1>11, <1>12, <1>13, <1>14, <1>15 DEF UnnamedKept, Below
  <2> QED BY <2>1, <2>4, <2>5, <2>6 DEF NodeKept
<1>17. \A m \in Member : NodeKept(names, m)'
  <2> SUFFICES ASSUME NEW m \in Member, m # n PROVE NodeKept(names, m)' BY <1>16
  <2>1. forks' \in Nat /\ forks <= forks' /\ NodeKept(names, m) BY <1>1, <1>7 DEF Core, Shape
  <2> QED BY <1>1, <1>10, <2>1, NodeFrame
<1>18. Shape' BY <1>1, <1>6, <1>7 DEF Shape
<1>19. NamesKept(names)' BY <1>1, <1>7 DEF Core, NamesKept
<1>20. \A m \in Member : /\ Rec!Empty(m)' = Rec!Empty(m) /\ ForkOf(m)' = ForkOf(m)
                         /\ m # n => Intent(m)' = Intent(m) /\ Chosen(m)' = Chosen(m)
  BY <1>1, <1>10, <1>11 DEF Rec!Empty, Rec!History, ForkOf, Intent, Chosen
<1>21. Private(names)' BY <1>1, <1>20 DEF Core, Private
<1>22. LineageOnce(names)'
  <2>1. /\ \A f \in Nat : names[f] # Nil => names[f].lineage # ForkOf(n)
        /\ \A m \in Member : Chosen(m) => Intent(m).lineage # ForkOf(n)
    BY <1>1, <1>3 DEF Core, LineageOnce
  <2>2. \A m \in Member : Chosen(m)' =>
        /\ \A f \in Nat : names[f] # Nil => names[f].lineage # Intent(m)'.lineage
        /\ \A k \in Member : Chosen(k)' /\ k # m => Intent(k)'.lineage # Intent(m)'.lineage
    BY <1>1, <1>5, <1>11, <1>20, <2>1 DEF Core, LineageOnce
  <2>3. ASSUME NEW m \in Member, ~ Rec!Empty(m)', names[ForkOf(m)'] = Nil, Intent(m)' = Rec!Unset
        PROVE  /\ \A f \in Nat : names[f] # Nil => names[f].lineage # ForkOf(m)'
               /\ \A k \in Member : Chosen(k)' => Intent(k)'.lineage # ForkOf(m)'
    <3>1. m # n BY <1>11, <1>12, <2>3
    <3>2. ForkOf(m) # ForkOf(n) BY <1>1, <1>3, <1>20, <2>3, <3>1 DEF Core, Private
    <3> QED BY <1>1, <1>5, <1>11, <1>20, <2>3, <3>1, <3>2 DEF Core, LineageOnce
  <2> QED BY <2>2, <2>3 DEF LineageOnce
<1>23. Core(names)' BY <1>17, <1>18, <1>19, <1>21, <1>22 DEF Core
<1> QED BY <1>1, <1>7, <1>10, <1>23, QuietLinks DEF Kept

\* The end of the journal: the fork has its name.
LEMMA ConsumeIntentKept ==
  ASSUME NEW names \in Names, Kept(names), NEW n \in Member, Rec!ConsumeIntent(n)
  PROVE  \E other \in Names : Kept(other)'
<1> DEFINE i == Intent(n)
           p == [proc[n] EXCEPT !.pending = FALSE]
<1>1. Core(names) /\ Shape /\ Rec!Up(n) /\ ~ Rec!Empty(n) /\ proc[n].pending /\ disk[n] \in Disk
      /\ NodeKept(names, n) /\ ~ Rec!Ready(n) /\ proc[n].published /\ proc[n] \in Running
  BY Fields, UpFields DEF Kept, Core, Rec!ConsumeIntent, Rec!Finishing, Rec!Ready
<1>2. /\ i # Nil /\ Rec!Row(n) = i /\ Rec!History(n).gen = i /\ Binding(n) = i
      /\ names[ForkOf(n)] = Nil /\ ~ Rec!Moving(n) /\ ResetBound(n)
      /\ Rec!History(n) \in Rec!HistoryOf /\ Rec!History(n).base.number <= Rec!History(n).gen.number
      /\ (disk[n].snap = Nil <=> Rec!Empty(n))
  BY <1>1, UpFacts
<1>3. Chosen(n) BY <1>1, <1>2, EffectiveType, NoneApart DEF Chosen
<1>4. i \in Rec!Generation /\ i.number > 0 /\ i.lineage <= forks /\ Below(Rec!History(n).base, i)
  BY <1>1, <1>3, ChosenUnnamed, UpFacts
<1>5. ForkOf(n) \in Nat /\ ForkOf(n) <= forks /\ ForkOf(n) \in 0..forks
  <2>1. ForkOf(n) \in 0..forks /\ forks \in Nat BY <1>1 DEF NodeKept, DiskKept, Shape
  <2> QED BY <2>1
<1>6. PICK other \in Names :
        other[ForkOf(n)] = i /\ \A f \in Nat : f # ForkOf(n) => other[f] = names[f]
  <2>1. [names EXCEPT ![ForkOf(n)] = i] \in Names BY <1>4, <1>5 DEF Names
  <2> QED BY <1>5, <2>1 DEF Names
<1>7. PICK d \in Disk : d = [disk[n] EXCEPT !.intent = Nil] /\ disk' = [disk EXCEPT ![n] = d]
  BY <1>1, WriteField DEF Rec!ConsumeIntent
<1>8. /\ d.db = disk[n].db /\ d.snap = disk[n].snap /\ d.binding = disk[n].binding
      /\ d.intent = Nil /\ d.reset = disk[n].reset
  BY <1>1, <1>7 DEF Disk
<1>9. p \in Running /\ p \in Process /\ p.phase = "up" /\ p.pending = FALSE /\ p.row = proc[n].row
  BY <1>1 DEF Running, Process
<1>10. proc' = [proc EXCEPT ![n] = p] /\ forks' = forks /\ UNCHANGED <<dials, conns>>
  BY <1>1 DEF Rec!ConsumeIntent, Shape
<1> HIDE DEF p
<1>11. disk'[n] = d /\ proc'[n] = p BY <1>1, <1>7, <1>10 DEF Shape
<1>12. \A m \in Member : m # n => disk'[m] = disk[m] /\ proc'[m] = proc[m]
  BY <1>1, <1>7, <1>10 DEF Shape
<1>13. /\ Rec!Phase(n)' = "up" /\ Rec!Up(n)' /\ ~ Rec!Empty(n)' /\ Intent(n)' = Nil
       /\ Rec!Moving(n)' = Rec!Moving(n) /\ Rec!History(n)' = Rec!History(n) /\ ForkOf(n)' = ForkOf(n)
       /\ Binding(n)' = Binding(n) /\ disk'[n].snap = disk[n].snap
       /\ disk'[n].reset = disk[n].reset /\ Rec!Row(n)' = Rec!Row(n) /\ proc'[n].pending = FALSE
  BY <1>1, <1>8, <1>9, <1>11
     DEF Rec!Up, Rec!Phase, Rec!Empty, Rec!History, Intent, Rec!Moving, ForkOf, Binding, Rec!Row
<1>14. NodeKept(other, n)'
  <2>1. PhaseKept(n)' BY <1>2, <1>13 DEF PhaseKept
  <2>2. ResetBound(n)' BY <1>2, <1>13 DEF ResetBound
  <2>3. DiskKept(n)' BY <1>1, <1>2, <1>5, <1>10, <1>13, <2>2 DEF DiskKept
  <2>4. NamedKept(other, n)' BY <1>2, <1>4, <1>6, <1>13 DEF NamedKept, Below
  <2>5. UnnamedKept(other, n)' BY <1>2, <1>6, <1>13 DEF UnnamedKept
  <2> QED BY <2>1, <2>3, <2>4, <2>5 DEF NodeKept
<1>15. \A m \in Member : m # n /\ ~ Rec!Empty(m) => ForkOf(m) # ForkOf(n) /\ other[ForkOf(m)] = names[ForkOf(m)]
  <2> SUFFICES ASSUME NEW m \in Member, m # n, ~ Rec!Empty(m)
               PROVE  ForkOf(m) # ForkOf(n) /\ other[ForkOf(m)] = names[ForkOf(m)]
    OBVIOUS
  <2>1. ForkOf(m) # ForkOf(n) BY <1>1, <1>2 DEF Core, Private
  <2>2. ForkOf(m) \in 0..forks /\ forks \in Nat BY <1>1 DEF Core, NodeKept, DiskKept, Shape
  <2> QED BY <1>6, <2>1, <2>2
<1>16. \A m \in Member : NodeKept(other, m)'
  <2> SUFFICES ASSUME NEW m \in Member, m # n PROVE NodeKept(other, m)' BY <1>14
  <2>1. forks' \in Nat /\ forks <= forks' /\ NodeKept(names, m) BY <1>1, <1>10 DEF Core, Shape
  <2> QED BY <1>1, <1>6, <1>12, <1>15, <2>1, NodeFrame
<1>17. Shape' BY <1>1, <1>7, <1>9, <1>10 DEF Shape
<1>18. \A f \in Nat : names[f] # Nil => names[f].lineage # i.lineage
  BY <1>1, <1>3 DEF Core, LineageOnce
<1>19. NamesKept(other)'
  <2>1. ForkOf(n) # 0 /\ names[0] = Rec!Zero
    <3>1. names[0] = Rec!Zero /\ Rec!Zero \in Rec!Generation
      BY <1>1 DEF Core, NamesKept, Rec!Zero, Rec!Generation
    <3> QED BY <1>2, <3>1, NoneApart
  <2>2. other[0] = Rec!Zero BY <1>6, <2>1
  <2>3. ASSUME NEW f \in Nat, other[f] # Nil
        PROVE  /\ f <= forks /\ other[f].lineage <= forks /\ (f > 0 => other[f].number > 0)
               /\ \A g \in Nat : other[g] # Nil /\ other[g].lineage = other[f].lineage => g = f
    <3>1. CASE f = ForkOf(n) BY <1>4, <1>5, <1>6, <1>18, <3>1
    <3>2. CASE f # ForkOf(n)
      <4>1. other[f] = names[f] BY <1>6, <3>2
      <4> QED BY <1>1, <1>6, <1>18, <2>3, <4>1 DEF Core, NamesKept
    <3> QED BY <3>1, <3>2
  <2> QED BY <1>10, <2>2, <2>3 DEF NamesKept
<1>20. \A m \in Member : /\ Rec!Empty(m)' = Rec!Empty(m) /\ ForkOf(m)' = ForkOf(m)
                         /\ m # n => Intent(m)' = Intent(m)
  BY <1>1, <1>12, <1>13 DEF Rec!Empty, Rec!History, ForkOf, Intent
<1>21. \A m \in Member : Chosen(m)' => m # n /\ Chosen(m) /\ Intent(m)' = Intent(m)
  BY <1>13, <1>20 DEF Chosen
<1>22. Private(other)'
  BY <1>1, <1>15, <1>20 DEF Core, Private
<1>23. LineageOnce(other)'
  <2>1. ASSUME NEW m \in Member, Chosen(m)'
        PROVE  /\ \A f \in Nat : other[f] # Nil => other[f].lineage # Intent(m)'.lineage
               /\ \A k \in Member : Chosen(k)' /\ k # m => Intent(k)'.lineage # Intent(m)'.lineage
    <3>1. m # n /\ Chosen(m) /\ Intent(m)' = Intent(m) BY <1>21, <2>1
    <3>2. Intent(m).lineage # i.lineage BY <1>1, <1>3, <3>1 DEF Core, LineageOnce
    <3>3. \A f \in Nat : other[f] # Nil => other[f].lineage # Intent(m)'.lineage
      BY <1>1, <1>6, <3>1, <3>2 DEF Core, LineageOnce
    <3> QED BY <1>1, <1>21, <3>1, <3>3 DEF Core, LineageOnce
  <2>2. ASSUME NEW m \in Member, ~ Rec!Empty(m)', other[ForkOf(m)'] = Nil, Intent(m)' = Rec!Unset
        PROVE  /\ \A f \in Nat : other[f] # Nil => other[f].lineage # ForkOf(m)'
               /\ \A k \in Member : Chosen(k)' => Intent(k)'.lineage # ForkOf(m)'
    <3>1. m # n BY <1>13, <2>2, NoneApart
    <3>2. /\ ~ Rec!Empty(m) /\ names[ForkOf(m)] = Nil /\ Intent(m) = Rec!Unset /\ ForkOf(m)' = ForkOf(m)
      BY <1>15, <1>20, <2>2, <3>1
    <3>3. /\ \A f \in Nat : names[f] # Nil => names[f].lineage # ForkOf(m)
          /\ \A k \in Member : Chosen(k) => Intent(k).lineage # ForkOf(m)
      BY <1>1, <3>2 DEF Core, LineageOnce
    <3>4. i.lineage # ForkOf(m) BY <1>3, <3>3
    <3> QED BY <1>6, <1>21, <3>2, <3>3, <3>4
  <2> QED BY <2>1, <2>2 DEF LineageOnce
<1>24. Core(other)' BY <1>16, <1>17, <1>19, <1>22, <1>23 DEF Core
<1>25. LinksKept(other)'
  <2>1. Links' BY <1>10 DEF Kept, LinksKept, Links
  <2>2. \A m \in Member, g \in Rec!Generation : Speaks(names, m, g) => Speaks(other, m, g)'
    <3> SUFFICES ASSUME NEW m \in Member, NEW g \in Rec!Generation, Speaks(names, m, g)
                 PROVE  Speaks(other, m, g)'
      OBVIOUS
    <3>1. m # n /\ Rec!Ready(m) /\ ~ Rec!Empty(m) BY <1>1 DEF Speaks
    <3>2. Rec!Ready(m)' BY <1>12, <3>1 DEF Rec!Ready, Rec!Up, Rec!Phase
    <3> QED BY <1>15, <1>20, <3>1, <3>2 DEF Speaks
  <2>3. /\ \A l \in dials : l.from \in Member /\ l.hello.gen \in Rec!Generation
        /\ \A c \in conns : c.from \in Member /\ c.far \in Rec!Generation
    BY DEF Kept, LinksKept, Links, DialOf, HelloOf, ConnOf
  <2> QED BY <1>10, <2>1, <2>2, <2>3 DEF Kept, LinksKept
<1> QED BY <1>6, <1>24, <1>25 DEF Kept

-----------------------------------------------------------------------------
(* The reset of a superseded history *)

\* While a history is moved away nothing is claimed for it.
LEMMA MovingCore ==
  ASSUME NEW names \in Names, Core(names), NEW n \in Member, NEW d \in Disk, NEW p \in Process,
         disk' = [disk EXCEPT ![n] = d], proc' = [proc EXCEPT ![n] = p], forks' = forks,
         Intent(n) = Nil, d.intent = Nil, d.db = Nil \/ d.db = disk[n].db,
         \/ d.reset # Nil /\ d.reset.moving /\ p.phase = "move"
         \/ d.reset # Nil /\ ~ d.reset.moving /\ p.phase = "off" /\ d.db = Nil /\ d.snap = Nil
  PROVE  Core(names)'
<1>1. Shape /\ NodeKept(names, n) BY DEF Core
<1>2. disk'[n] = d /\ proc'[n] = p BY <1>1 DEF Shape
<1>3. /\ Rec!Phase(n)' = p.phase /\ ~ Rec!Up(n)' /\ Intent(n)' = Nil /\ Rec!History(n)' = d.db
      /\ Rec!Moving(n)' \/ (Rec!Empty(n)' /\ ~ Rec!Moving(n)')
      /\ ~ Rec!Claims(n)' /\ ~ Chosen(n)'
  BY <1>2 DEF Rec!Phase, Rec!Up, Intent, Rec!History, Rec!Moving, Rec!Empty, Rec!Claims, Chosen
<1>4. ~ Rec!Empty(n)' => ~ Rec!Empty(n) /\ Rec!History(n)' = Rec!History(n) /\ ForkOf(n)' = ForkOf(n)
  BY <1>2 DEF Rec!Empty, Rec!History, ForkOf
<1>5. PhaseKept(n)' BY <1>2, <1>3 DEF PhaseKept, Rec!Phase, Rec!Up, Rec!Moving
<1>6. DiskKept(n)'
  <2>1. ~ Rec!Moving(n)' => (Rec!Empty(n)' <=> disk'[n].snap = Nil) BY <1>2, <1>3 DEF Rec!Moving
  <2> QED BY <1>1, <1>3, <1>4, <2>1 DEF NodeKept, DiskKept
<1>7. NamedKept(names, n)' BY <1>3 DEF NamedKept
<1>8. UnnamedKept(names, n)'
  <2>1. ~ Rec!Empty(n) => names[ForkOf(n)] # Nil BY <1>1 DEF NodeKept, UnnamedKept
  <2> QED BY <1>4, <2>1 DEF UnnamedKept
<1>9. NodeKept(names, n)' BY <1>5, <1>6, <1>7, <1>8 DEF NodeKept
<1>10. d.db # Nil => disk[n].db # Nil /\ d.db.fork = disk[n].db.fork OBVIOUS
<1> QED BY <1>9, <1>10, OneNode

\* A node that is its own majority is never reset, so no fork loses its journal.
LEMMA ResetSettled ==
  ASSUME NEW names \in Names, Core(names), NEW n \in Member, Rec!Up(n), Rec!MayReset(n)
  PROVE  Intent(n) = Nil
<1>1. Intent(n) # Nil => ~ Rec!Empty(n) /\ Rec!History(n).voters = {n} BY UpFacts
<1> QED BY <1>1 DEF Rec!MayReset

LEMMA PerformResetKept ==
  ASSUME NEW names \in Names, Kept(names), NEW n \in Member, Rec!PerformReset(n)
  PROVE  Kept(names)'
<1>1. Core(names) /\ Shape /\ Rec!Up(n) /\ proc[n].control # Nil /\ forks' = forks /\ disk[n] \in Disk
  BY Fields DEF Kept, Core, Rec!PerformReset
<1>2. CASE Rec!MayReset(n)
  <2> DEFINE r == [moving |-> TRUE, target |-> proc[n].control]
             p == [phase |-> "move"]
  <2>1. r \in Rec!ResetOf /\ p \in Process BY <1>1, UpFields DEF Rec!ResetOf, Process
  <2>2. PICK d \in Disk : d = [disk[n] EXCEPT !.reset = r] /\ disk' = [disk EXCEPT ![n] = d]
    BY <1>1, <1>2, <2>1, WriteField DEF Rec!PerformReset
  <2>3. proc' = [proc EXCEPT ![n] = p] BY <1>2 DEF Rec!PerformReset, Rec!Enter
  <2>4. d.db = disk[n].db /\ d.intent = disk[n].intent /\ d.reset = r BY <1>1, <2>2 DEF Disk
  <2>5. Intent(n) = Nil BY <1>1, <1>2, ResetSettled
  <2>6. d.reset # Nil /\ d.reset.moving /\ p.phase = "move"
    <3>1. r # Nil BY <2>1, NoneApart
    <3>2. r.moving /\ p.phase = "move" OBVIOUS
    <3> QED BY <2>4, <3>1, <3>2
  <2>7. Core(names)' BY <1>1, <2>1, <2>2, <2>3, <2>4, <2>5, <2>6, MovingCore DEF Intent
  <2>8. /\ dials' \subseteq dials /\ conns' \subseteq conns
        /\ \A l \in dials' \cup conns' : l.from # n
    BY <1>2 DEF Rec!PerformReset, Rec!Others
  <2>9. \A m \in Member : m # n => Rec!Ready(m)' = Rec!Ready(m) /\ Rec!Empty(m)' = Rec!Empty(m) /\ ForkOf(m)' = ForkOf(m)
    BY <1>1, <2>2, <2>3 DEF Shape, Rec!Ready, Rec!Up, Rec!Phase, Rec!Empty, Rec!History, ForkOf
  <2>10. LinksKept(names)' BY <2>8, <2>9, LinksFrame DEF Kept
  <2> QED BY <2>7, <2>10 DEF Kept
<1>3. CASE ~ Rec!MayReset(n) BY <1>1, <1>3, ControlKept DEF Rec!PerformReset
<1> QED BY <1>2, <1>3

LEMMA MoveKept ==
  ASSUME NEW names \in Names, Kept(names), NEW n \in Member, Rec!Move(n)
  PROVE  Kept(names)'
<1>1. Core(names) /\ Shape /\ NodeKept(names, n) /\ Rec!Phase(n) = "move" /\ ~ Rec!Ready(n)
      /\ forks' = forks /\ UNCHANGED <<dials, conns>> /\ disk[n] \in Disk /\ proc[n] \in Process
  BY Fields DEF Kept, Core, Rec!Move, Rec!Ready, Rec!Up
<1>2. Rec!Moving(n) /\ disk[n].reset \in Rec!ResetOf
  BY <1>1, Fields DEF NodeKept, PhaseKept, Rec!Moving
<1>3. Intent(n) = Nil
  <2>1. ~ Waiting(n) BY <1>2 DEF Waiting
  <2> QED BY <1>1, <1>2, <2>1 DEF NodeKept, DiskKept, NamedKept, UnnamedKept
<1>4. proc[n].phase = "move" /\ disk[n].reset # Nil /\ disk[n].reset.moving
  BY <1>1, <1>2 DEF Rec!Phase, Rec!Moving
<1>5. CASE ~ Rec!Empty(n)
  <2>0. Rec!Write(n, "db", Nil) /\ UNCHANGED proc BY <1>5 DEF Rec!Move
  <2>1. PICK d \in Disk : d = [disk[n] EXCEPT !.db = Nil] /\ disk' = [disk EXCEPT ![n] = d]
    BY <1>1, <2>0, WriteField
  <2>2. proc' = [proc EXCEPT ![n] = proc[n]] BY <1>1, <2>0 DEF Shape
  <2>3. d.db = Nil /\ d.intent = disk[n].intent /\ d.reset = disk[n].reset BY <1>1, <2>1 DEF Disk
  <2>4. Core(names)' BY <1>1, <1>3, <1>4, <2>1, <2>2, <2>3, MovingCore DEF Intent
  <2>5. \A m \in Member : m # n => disk'[m] = disk[m] /\ proc'[m] = proc[m]
    BY <1>1, <2>1, <2>2 DEF Shape
  <2> QED BY <1>1, <2>4, <2>5, QuietLinks DEF Kept
<1>6. CASE Rec!Empty(n) /\ disk[n].snap # Nil
  <2>1. PICK d \in Disk : d = [disk[n] EXCEPT !.snap = Nil] /\ disk' = [disk EXCEPT ![n] = d]
    BY <1>1, <1>6, WriteField DEF Rec!Move
  <2>2. proc' = [proc EXCEPT ![n] = proc[n]] BY <1>1, <1>6 DEF Rec!Move, Shape
  <2>3. d.db = disk[n].db /\ d.intent = disk[n].intent /\ d.reset = disk[n].reset
    BY <1>1, <2>1 DEF Disk
  <2>4. Core(names)' BY <1>1, <1>3, <1>4, <2>1, <2>2, <2>3, MovingCore DEF Intent
  <2>5. \A m \in Member : m # n => disk'[m] = disk[m] /\ proc'[m] = proc[m]
    BY <1>1, <2>1, <2>2 DEF Shape
  <2> QED BY <1>1, <2>4, <2>5, QuietLinks DEF Kept
<1>7. CASE Rec!Empty(n) /\ disk[n].snap = Nil
  <2> DEFINE r == [disk[n].reset EXCEPT !.moving = FALSE]
             d == [disk[n] EXCEPT !.reset = r]
             p == [phase |-> "off"]
  <2>1. r \in Rec!ResetOf /\ r.moving = FALSE /\ p \in Process /\ p.phase = "off"
    BY <1>2 DEF Rec!ResetOf, Process
  <2>2. d \in Disk /\ d.db = disk[n].db /\ d.snap = disk[n].snap /\ d.intent = disk[n].intent
        /\ d.reset = r
    BY <1>1, <2>1 DEF Disk
  <2>3. disk' = [disk EXCEPT ![n] = d] /\ proc' = [proc EXCEPT ![n] = p]
    BY <1>1, <1>7 DEF Rec!Move, Rec!Enter, Shape
  <2> HIDE DEF r, d, p
  <2>4. d.reset # Nil /\ ~ d.reset.moving /\ d.db = Nil /\ d.snap = Nil
    BY <1>7, <2>1, <2>2, NoneApart DEF Rec!Empty, Rec!History
  <2>5. Core(names)' BY <1>1, <1>3, <2>1, <2>2, <2>3, <2>4, MovingCore DEF Intent
  <2>6. \A m \in Member : m # n => disk'[m] = disk[m] /\ proc'[m] = proc[m]
    BY <1>1, <2>3 DEF Shape
  <2> QED BY <1>1, <2>5, <2>6, QuietLinks DEF Kept
<1> QED BY <1>5, <1>6, <1>7

-----------------------------------------------------------------------------
(* Connections and what they carry *)

LEMMA AdmitKept ==
  ASSUME NEW names \in Names, Kept(names), NEW leader \in Member, NEW n \in Member, Rec!Admit(leader, n)
  PROVE  Kept(names)'
<1> DEFINE h == [disk[leader].db EXCEPT !.voters = @ \cup {n}]
           d == [disk[leader] EXCEPT !.db = h]
<1>1. Core(names) /\ Shape /\ Rec!Up(leader) /\ Rec!Ready(leader) /\ ~ Rec!Empty(leader) /\ disk[leader] \in Disk
      /\ proc[leader] \in Running
  BY Fields, UpFields DEF Kept, Core, Rec!Admit, Rec!Ready
<1>2. Intent(leader) = Nil /\ ~ Chosen(leader) BY <1>1, UpFacts DEF Chosen
<1>3. disk[leader].db \in Rec!HistoryOf BY <1>1, UpFacts DEF Rec!History
<1>4. h \in Rec!HistoryOf /\ h.fork = ForkOf(leader) /\ h.base = Rec!History(leader).base
      /\ h.gen = Rec!History(leader).gen
  BY <1>3 DEF Rec!HistoryOf, ForkOf, Rec!History
<1>5. /\ d \in Disk /\ d.db = h /\ d.snap = disk[leader].snap /\ d.binding = Binding(leader)
      /\ d.intent = Intent(leader) /\ d.reset = disk[leader].reset
  BY <1>1, <1>4 DEF Disk, Binding, Intent
<1>6. disk' = [disk EXCEPT ![leader] = d] /\ UNCHANGED <<proc, dials, conns, forks>>
  BY <1>1, <1>3 DEF Rec!Admit, Shape
<1>7. proc' = [proc EXCEPT ![leader] = proc[leader]] BY <1>1, <1>6 DEF Shape
<1> HIDE DEF h, d
<1>8. (d.db = Nil <=> Rec!Empty(leader)) /\ (d.snap = Nil <=> Rec!Empty(leader))
  BY <1>1, <1>4, <1>5, NoneApart, UpFacts
<1>9. d.db.base.number <= d.db.gen.number BY <1>1, <1>4, <1>5, UpFacts
<1>10. d.reset # Nil => d.binding # Nil /\ ~ Rec!Supersedes(d.reset.target, d.binding)
  BY <1>1, <1>5, UpFacts DEF ResetBound
<1>11. Rec!Claims(leader) => \A g \in {d.db.base, d.db.gen, proc[leader].row} :
                            Below(g, names[ForkOf(leader)])
  BY <1>1, <1>4, <1>5, UpFacts DEF Rec!Row
<1>12. /\ Core(names)' /\ Rec!Ready(leader)' = Rec!Ready(leader) /\ Rec!Empty(leader)' = Rec!Empty(leader)
       /\ ~ Rec!Empty(leader) => ForkOf(leader)' = ForkOf(leader)
       /\ \A m \in Member : m # leader => disk'[m] = disk[m] /\ proc'[m] = proc[m]
  BY <1>1, <1>2, <1>4, <1>5, <1>6, <1>7, <1>8, <1>9, <1>10, <1>11, UpCore
<1> QED BY <1>6, <1>12, UpLinks

\* A running node writes its binding.
LEMMA BindKept ==
  ASSUME NEW names \in Names, Core(names), NEW n \in Member, Rec!Up(n), NEW b \in Rec!Generation \cup {Nil},
         Rec!Write(n, "binding", b), UNCHANGED <<proc, forks>>,
         b = Rec!BindingNow(n) \/ b = Binding(n) \/ (Rec!Empty(n) /\ Binding(n) = Nil)
  PROVE  /\ Core(names)' /\ Rec!Ready(n)' = Rec!Ready(n) /\ Rec!Empty(n)' = Rec!Empty(n)
         /\ ~ Rec!Empty(n) => ForkOf(n)' = ForkOf(n)
         /\ \A m \in Member : m # n => disk'[m] = disk[m] /\ proc'[m] = proc[m]
<1>1. Shape /\ proc[n] \in Running BY UpFields DEF Core
<1>2. PICK d \in Disk : d = [disk[n] EXCEPT !.binding = b] /\ disk' = [disk EXCEPT ![n] = d]
  BY <1>1, WriteField
<1>3. proc' = [proc EXCEPT ![n] = proc[n]] BY <1>1 DEF Shape
<1>4. disk[n].reset # Nil => b # Nil /\ ~ Rec!Supersedes(disk[n].reset.target, b)
  BY UpFacts, BindingNowKept DEF ResetBound
<1>5. Rec!Claims(n) => b = Binding(n) BY BindingNowKept DEF Rec!Claims
<1>6. Chosen(n) => (b # Nil => Below(b, Intent(n)))
  BY UpFacts, BindingNowKept DEF Chosen
<1>7. proc[n].published /\ Intent(n) # Nil =>
            Rec!Row(n) = Intent(n) /\ Rec!History(n).gen = Intent(n) /\ b = Intent(n)
  <2> SUFFICES ASSUME proc[n].published, Intent(n) # Nil
               PROVE  Rec!Row(n) = Intent(n) /\ Rec!History(n).gen = Intent(n) /\ b = Intent(n)
    OBVIOUS
  <2>1. Rec!Row(n) = Intent(n) /\ Rec!History(n).gen = Intent(n) /\ Binding(n) = Intent(n) /\ ~ Rec!Empty(n)
    BY UpFacts
  <2>2. Rec!BindingNow(n) = Intent(n) BY <2>1 DEF Rec!BindingNow, Binding
  <2> QED BY <2>1, <2>2
<1> QED BY <1>1, <1>2, <1>3, <1>4, <1>5, <1>6, <1>7, UpBinding DEF Rec!Row

LEMMA BindEmptyKept ==
  ASSUME NEW names \in Names, Kept(names), NEW n \in Member, NEW leader \in Member, Rec!BindEmpty(n, leader)
  PROVE  Kept(names)'
<1>1. Core(names) /\ Rec!Up(n) /\ Rec!Up(leader) /\ Rec!Empty(n) /\ Binding(n) = Nil /\ Shape
  BY DEF Kept, Core, Rec!BindEmpty, Rec!Ready, Binding
<1>2. Rec!Effective(leader) \in Rec!Generation BY <1>1, EffectiveType
<1>3. /\ Core(names)' /\ Rec!Ready(n)' = Rec!Ready(n) /\ Rec!Empty(n)' = Rec!Empty(n)
      /\ ~ Rec!Empty(n) => ForkOf(n)' = ForkOf(n)
      /\ \A m \in Member : m # n => disk'[m] = disk[m] /\ proc'[m] = proc[m]
  BY <1>1, <1>2, BindKept DEF Rec!BindEmpty
<1> QED BY <1>3, UpLinks DEF Rec!BindEmpty

\* Hellos and connections that are added speak for a name as the others do.
LEMMA LinksGrow ==
  ASSUME NEW names \in Names, LinksKept(names), NEW n \in Member,
         Rec!Ready(n) /\ ~ Rec!Empty(n) => Rec!Ready(n)' /\ ~ Rec!Empty(n)' /\ ForkOf(n)' = ForkOf(n),
         \A m \in Member : m # n => disk'[m] = disk[m] /\ proc'[m] = proc[m],
         \A l \in dials' : \/ l \in dials
                           \/ /\ l \in DialOf /\ ~ l.hello.empty
                              /\ Speaks(names, l.from, l.hello.gen),
         \A c \in conns' : \/ c \in conns
                           \/ c \in ConnOf /\ Speaks(names, c.from, c.far)
  PROVE  LinksKept(names)'
<1>1. ASSUME NEW m \in Member, NEW g, Speaks(names, m, g) PROVE Speaks(names, m, g)'
  <2>1. \A k \in Member : Rec!Ready(k) /\ ~ Rec!Empty(k) => Rec!Ready(k)' /\ ~ Rec!Empty(k)' /\ ForkOf(k)' = ForkOf(k)
    BY DEF Rec!Ready, Rec!Up, Rec!Phase, Rec!Empty, Rec!History, ForkOf
  <2> QED BY <1>1, <2>1 DEF Speaks
<1>2. dials' \subseteq DialOf /\ conns' \subseteq ConnOf BY DEF LinksKept, Links
<1>3. \A l \in dials' : l.from \in Member /\ Speaks(names, l.from, l.hello.gen) /\ ~ l.hello.empty
  BY <1>2 DEF LinksKept, DialOf
<1>4. \A c \in conns' : c.from \in Member /\ Speaks(names, c.from, c.far)
  BY <1>2 DEF LinksKept, ConnOf
<1> QED BY <1>1, <1>2, <1>3, <1>4 DEF LinksKept, Links

\* A hello that says what its sender is.
LEMMA HelloType ==
  ASSUME Shape, NEW n \in Member, Rec!Up(n)
  PROVE  Rec!Hello(n) \in HelloOf /\ Rec!Hello(n).gen = Rec!Effective(n) /\ (~ Rec!Empty(n) => ~ Rec!Hello(n).empty)
<1>1. Rec!Effective(n) \in Rec!Generation BY EffectiveType
<1>2. Rec!Empty(n) \in BOOLEAN BY DEF Rec!Empty
<1> QED BY <1>1, <1>2 DEF Rec!Hello, HelloOf

\* Who dials speaks for its name.
LEMMA DialKept ==
  ASSUME NEW names \in Names, Kept(names), NEW a \in Member, NEW b \in Member, Rec!Dial(a, b)
  PROVE  Kept(names)'
<1> DEFINE l == [from |-> a, to |-> b, hello |-> Rec!Hello(a)]
<1>1. Core(names) /\ Shape /\ Rec!Up(a) /\ Rec!Ready(a) /\ ~ Rec!Empty(a)
  BY DEF Kept, Core, Rec!Dial, Rec!Ready
<1>2. Rec!BindingNow(a) \in Rec!Generation \cup {Nil} /\ Rec!Hello(a) \in HelloOf
  BY <1>1, EffectiveType, HelloType
<1>3. /\ Core(names)' /\ Rec!Ready(a)' = Rec!Ready(a) /\ Rec!Empty(a)' = Rec!Empty(a) /\ ForkOf(a)' = ForkOf(a)
      /\ \A m \in Member : m # a => disk'[m] = disk[m] /\ proc'[m] = proc[m]
  BY <1>1, <1>2, BindKept DEF Rec!Dial
<1>4. Rec!Effective(a) = names[ForkOf(a)] BY <1>1, UpFacts, ClaimUp
<1>5. dials' = dials \cup {l} /\ conns' = conns BY DEF Rec!Dial
<1>6. l \in DialOf /\ ~ l.hello.empty /\ l.from = a /\ l.hello.gen = Rec!Effective(a)
  BY <1>1, <1>2, HelloType DEF DialOf
<1> HIDE DEF l
<1>7. Speaks(names, l.from, l.hello.gen) BY <1>1, <1>4, <1>6 DEF Speaks
<1>8. LinksKept(names)' BY <1>1, <1>3, <1>5, <1>6, <1>7, LinksGrow DEF Kept
<1> QED BY <1>3, <1>8 DEF Kept

\* Who accepts has the generation of the caller.
LEMMA AcceptKept ==
  ASSUME NEW names \in Names, Kept(names), NEW l \in dials, Rec!Accept(l)
  PROVE  Kept(names)'
<1> DEFINE n == l.to
           b == Rec!BoundTo(l.to, l.hello)
           own == Rec!EffectiveOf(b, Rec!Row(n))
           c == [from |-> l.from, to |-> n, answer |-> Rec!Hello(n), near |-> Nil, far |-> own]
<1>1. l \in DialOf /\ Speaks(names, l.from, l.hello.gen) /\ ~ l.hello.empty
  BY DEF Kept, LinksKept, Links
<1>2. l.from \in Member /\ n \in Member /\ l.hello.gen \in Rec!Generation
  BY <1>1 DEF DialOf, HelloOf
<1>3. Core(names) /\ Shape /\ Rec!Up(n) BY DEF Kept, Core, Rec!Accept, Rec!Ready
<1>4. b \in Rec!Generation \cup {Nil} /\ (b = Binding(n) \/ (Rec!Empty(n) /\ Binding(n) = Nil))
  BY <1>2, <1>3, Fields DEF Rec!BoundTo, Binding
<1>5. own = l.hello.gen BY <1>1 DEF Rec!Accept, Rec!Authorizes
<1>6. Rec!Hello(n) \in HelloOf BY <1>2, <1>3, HelloType
<1>7. Rec!Write(n, "binding", b) /\ UNCHANGED <<proc, forks>> BY DEF Rec!Accept
<1>8. dials' \subseteq dials /\ conns' = conns \cup {c} BY DEF Rec!Accept
<1>9. c \in ConnOf /\ c.from = l.from /\ c.far = own BY <1>2, <1>5, <1>6 DEF ConnOf
<1> HIDE DEF n, b, own, c
<1>10. /\ Core(names)' /\ Rec!Ready(n)' = Rec!Ready(n) /\ Rec!Empty(n)' = Rec!Empty(n)
       /\ ~ Rec!Empty(n) => ForkOf(n)' = ForkOf(n)
       /\ \A m \in Member : m # n => disk'[m] = disk[m] /\ proc'[m] = proc[m]
  BY <1>2, <1>3, <1>4, <1>7, BindKept
<1>11. Speaks(names, c.from, c.far) BY <1>1, <1>5, <1>9
<1>12. LinksKept(names)' BY <1>2, <1>8, <1>9, <1>10, <1>11, LinksGrow DEF Kept
<1> QED BY <1>10, <1>12 DEF Kept

\* Connections alone change.
LEMMA Unmoved ==
  ASSUME NEW names \in Names, Core(names), UNCHANGED <<disk, proc, forks>>
  PROVE  Core(names)'
<1>1. Shape /\ \A m \in Member : disk'[m] = disk[m] /\ proc'[m] = proc[m] BY DEF Core
<1>2. forks' \in Nat /\ forks <= forks' BY <1>1 DEF Shape
<1>3. \A m \in Member : NodeKept(names, m)' BY <1>1, <1>2, NodeFrame DEF Core
<1>4. Shape' /\ NamesKept(names)' BY <1>1 DEF Core, Shape, NamesKept
<1>5. \A m \in Member : /\ Intent(m)' = Intent(m) /\ Chosen(m)' = Chosen(m)
                        /\ Rec!Empty(m)' = Rec!Empty(m) /\ ForkOf(m)' = ForkOf(m)
  BY DEF Intent, Chosen, Rec!Empty, Rec!History, ForkOf
<1>6. Private(names)' /\ LineageOnce(names)' BY <1>5 DEF Core, Private, LineageOnce
<1> QED BY <1>3, <1>4, <1>6 DEF Core

LEMMA CompleteKept ==
  ASSUME NEW names \in Names, Kept(names), NEW c \in conns, Rec!Complete(c)
  PROVE  Kept(names)'
<1> DEFINE k == [c EXCEPT !.near = Rec!Effective(c.from)]
<1>1. c \in ConnOf /\ Speaks(names, c.from, c.far) /\ c.from \in Member /\ Core(names) /\ Shape
  BY DEF Kept, Core, LinksKept, Links, ConnOf
<1>2. Rec!Effective(c.from) \in Rec!Generation BY <1>1, EffectiveType DEF Rec!Complete, Rec!Ready
<1>3. k \in ConnOf /\ k.from = c.from /\ k.far = c.far BY <1>1, <1>2 DEF ConnOf
<1>4. dials' = dials /\ conns' = (conns \ {c}) \cup {k} /\ UNCHANGED <<disk, proc, forks>>
  BY DEF Rec!Complete
<1> HIDE DEF k
<1>5. \A m \in Member : disk'[m] = disk[m] /\ proc'[m] = proc[m] BY <1>4
<1>6. \A m \in Member : Rec!Ready(m)' = Rec!Ready(m) /\ Rec!Empty(m)' = Rec!Empty(m) /\ ForkOf(m)' = ForkOf(m)
  BY <1>4 DEF Rec!Ready, Rec!Up, Rec!Phase, Rec!Empty, Rec!History, ForkOf
<1>7. LinksKept(names)' BY <1>1, <1>3, <1>4, <1>5, <1>6, LinksGrow DEF Kept
<1>8. Core(names)' BY <1>1, <1>4, Unmoved
<1> QED BY <1>7, <1>8 DEF Kept

LEMMA HangupKept ==
  ASSUME NEW names \in Names, Kept(names), NEW l \in dials \cup conns, Rec!Hangup(l)
  PROVE  Kept(names)'
<1>1. /\ dials' \subseteq dials /\ conns' \subseteq conns /\ UNCHANGED <<disk, proc, forks>>
  BY DEF Rec!Hangup
<1>2. \A m \in Member : Rec!Ready(m)' = Rec!Ready(m) /\ Rec!Empty(m)' = Rec!Empty(m) /\ ForkOf(m)' = ForkOf(m)
  BY <1>1 DEF Rec!Ready, Rec!Up, Rec!Phase, Rec!Empty, Rec!History, ForkOf
<1>3. LinksKept(names)' BY <1>1, <1>2, LinksFrame DEF Kept
<1> QED BY <1>1, <1>3, Unmoved DEF Kept

\* An empty node takes the history of a fork that has a name it is bound to.
LEMMA Received ==
  ASSUME NEW names \in Names, Core(names), NEW n \in Member, Rec!Ready(n), Rec!Empty(n),
         NEW h \in Rec!HistoryOf, NEW d \in Disk, h.fork \in 0..forks,
         names[h.fork] \in Rec!Generation, Rec!Effective(n) = names[h.fork],
         h.base.number <= h.gen.number, Below(h.base, names[h.fork]), Below(h.gen, names[h.fork]),
         disk' = [disk EXCEPT ![n] = d], UNCHANGED <<proc, forks>>,
         d.db = h, d.snap = h.fork, d.binding = Rec!BindingNow(n), d.intent = Intent(n),
         d.reset = disk[n].reset
  PROVE  Core(names)'
<1> DEFINE g == names[h.fork]
<1>1. Shape /\ NodeKept(names, n) /\ NamesKept(names) /\ Rec!Up(n) /\ forks \in Nat
  BY DEF Core, Shape, Rec!Ready
<1>2. Rec!Row(n) = Rec!Zero /\ Intent(n) = Nil /\ ~ Rec!Moving(n) /\ ResetBound(n) /\ proc[n].pending = FALSE
  BY <1>1, UpFacts DEF Rec!Ready
<1>3. Rec!BindingNow(n) = Binding(n) /\ Binding(n) \in Rec!Generation \cup {Nil}
  BY <1>1, <1>2, Fields DEF Rec!BindingNow, Binding, Rec!Zero
<1>4. Binding(n) = g \/ (Binding(n) = Nil /\ g.number = 0)
  <2>1. Rec!EffectiveOf(Binding(n), Rec!Zero) = g BY <1>2 DEF Rec!Effective, Binding
  <2>2. CASE Binding(n) = Nil BY <2>1, <2>2 DEF Rec!EffectiveOf, Rec!Zero
  <2>3. CASE Binding(n) \in Rec!Generation
    <3>1. Binding(n).number \in Nat BY <2>3 DEF Rec!Generation
    <3>2. CASE Rec!Supersedes(Binding(n), Rec!Zero)
      BY <2>1, <2>3, <3>2, NoneApart DEF Rec!EffectiveOf
    <3>3. CASE ~ Rec!Supersedes(Binding(n), Rec!Zero)
      <4>1. g = Rec!Zero BY <2>1, <3>3 DEF Rec!EffectiveOf
      <4>2. Binding(n) = Rec!Zero BY <3>1, <3>3 DEF Rec!Supersedes, Rec!Later, Rec!Zero
      <4> QED BY <4>1, <4>2
    <3> QED BY <3>2, <3>3
  <2> QED BY <1>3, <2>2, <2>3
<1>5. g # Nil /\ h # Nil /\ h.fork # Nil /\ h.fork \in Nat
  BY NoneApart
<1>6. Below(Rec!Zero, g)
  <2>1. CASE h.fork = 0 BY <1>1, <2>1 DEF NamesKept, Below
  <2>2. CASE h.fork > 0 BY <1>1, <1>5, <2>2 DEF NamesKept, Below, Rec!Zero
  <2> QED BY <1>5, <2>1, <2>2
<1>7. disk'[n] = d /\ proc'[n] = proc[n] BY <1>1 DEF Shape
<1>8. \A m \in Member : m # n => disk'[m] = disk[m] /\ proc'[m] = proc[m] BY <1>1 DEF Shape
<1>9. /\ Rec!Phase(n)' = "up" /\ Rec!Up(n)' /\ ~ Rec!Empty(n)' /\ Intent(n)' = Nil /\ ~ Rec!Moving(n)'
      /\ Rec!History(n)' = h /\ ForkOf(n)' = h.fork /\ Binding(n)' = Binding(n)
      /\ disk'[n].snap = h.fork /\ Rec!Row(n)' = Rec!Zero /\ proc'[n].pending = FALSE /\ ResetBound(n)'
  BY <1>1, <1>2, <1>3, <1>5, <1>7
     DEF Rec!Up, Rec!Phase, Rec!Empty, Rec!History, Intent, Rec!Moving, ForkOf, Binding, Rec!Row, ResetBound
<1>10. Chosen(n)' = FALSE /\ Chosen(n) = FALSE BY <1>2, <1>9 DEF Chosen
<1>11. NodeKept(names, n)'
  <2>1. PhaseKept(n)' BY <1>9 DEF PhaseKept
  <2>2. DiskKept(n)' BY <1>5, <1>9 DEF DiskKept
  <2>3. NamedKept(names, n)'
    <3>1. /\ Binding(n)' = g \/ (Binding(n)' = Nil /\ g.number = 0)
          /\ Below(Rec!History(n)'.base, g) /\ Below(Rec!History(n)'.gen, g) /\ Below(Rec!Row(n)', g)
      BY <1>4, <1>6, <1>9
    <3> QED BY <1>9, <3>1 DEF NamedKept
  <2>4. UnnamedKept(names, n)' BY <1>5, <1>9 DEF UnnamedKept
  <2> QED BY <2>1, <2>2, <2>3, <2>4 DEF NodeKept
<1>12. \A m \in Member : NodeKept(names, m)'
  <2> SUFFICES ASSUME NEW m \in Member, m # n PROVE NodeKept(names, m)' BY <1>11
  <2>1. forks' \in Nat /\ forks <= forks' /\ NodeKept(names, m) BY <1>1 DEF Core
  <2> QED BY <1>1, <1>8, <2>1, NodeFrame
<1>13. Shape' /\ NamesKept(names)' BY <1>1 DEF Shape, NamesKept
<1>14. \A m \in Member : m # n => /\ Rec!Empty(m)' = Rec!Empty(m) /\ ForkOf(m)' = ForkOf(m)
                               /\ Intent(m)' = Intent(m) /\ Chosen(m)' = Chosen(m)
  BY <1>8 DEF Rec!Empty, Rec!History, ForkOf, Intent, Chosen
<1>15. Private(names)'
  <2>1. ASSUME NEW m \in Member, NEW k \in Member, ~ Rec!Empty(m)', ~ Rec!Empty(k)', m # k, ForkOf(m)' = ForkOf(k)'
        PROVE  names[ForkOf(k)'] # Nil
    <3>1. CASE n \in {m, k} BY <1>5, <1>9, <2>1, <3>1
    <3>2. CASE n \notin {m, k} BY <1>14, <2>1, <3>2 DEF Core, Private
    <3> QED BY <3>1, <3>2
  <2> QED BY <2>1 DEF Private
<1>16. LineageOnce(names)'
  <2>1. \A m \in Member : Chosen(m)' => Chosen(m) /\ Intent(m)' = Intent(m) BY <1>10, <1>14
  <2>2. \A m \in Member : ~ Rec!Empty(m)' /\ names[ForkOf(m)'] = Nil =>
            ~ Rec!Empty(m) /\ ForkOf(m)' = ForkOf(m) /\ Intent(m)' = Intent(m)
    BY <1>5, <1>9, <1>14
  <2> QED BY <2>1, <2>2 DEF Core, LineageOnce
<1> QED BY <1>12, <1>13, <1>15, <1>16 DEF Core

\* A connection carries a history only between nodes of one fork, or to an empty node.
LEMMA ReplicateKept ==
  ASSUME NEW names \in Names, Kept(names), NEW c \in conns, NEW gen, Rec!Replicate(c, gen)
  PROVE  Kept(names)'
<1> DEFINE n == c.to
           h == [Rec!History(c.from) EXCEPT !.gen = gen]
           k == Rec!Merged(disk[n].db, h)
           d == [disk[n] EXCEPT !.db = k, !.snap = h.fork, !.binding = Rec!BindingNow(n)]
           g == names[ForkOf(c.from)]
<1>1. c \in ConnOf /\ Speaks(names, c.from, c.far) /\ c.from \in Member /\ n \in Member
      /\ Core(names) /\ Shape
  BY DEF Kept, Core, LinksKept, Links, ConnOf
<1>2. Rec!Ready(c.from) /\ ~ Rec!Empty(c.from) /\ Rec!Up(c.from) /\ g = c.far /\ Rec!Claims(c.from)
  BY <1>1, UpFacts DEF Speaks, Rec!Ready
<1>3. Rec!Ready(n) /\ Rec!Up(n) /\ Rec!Effective(n) = g /\ Intent(n) = Nil
  BY <1>1, <1>2, UpFacts DEF Rec!Replicate, Rec!Ready
<1>4. /\ Rec!History(c.from) \in Rec!HistoryOf /\ g \in Rec!Generation /\ ForkOf(c.from) \in 0..forks
      /\ Below(Rec!History(c.from).base, g) /\ Below(Rec!History(c.from).gen, g)
      /\ Rec!History(c.from).base.number <= Rec!History(c.from).gen.number
  <2>1. NodeKept(names, c.from) BY <1>1 DEF Core
  <2>2. ForkOf(c.from) \in 0..forks /\ Rec!History(c.from).base.number <= Rec!History(c.from).gen.number
    BY <1>2, <2>1 DEF NodeKept, DiskKept
  <2>3. /\ disk[c.from].db \in Rec!HistoryOf /\ g \in Rec!Generation
        /\ Below(Rec!History(c.from).base, g) /\ Below(Rec!History(c.from).gen, g)
    BY <1>1, <1>2, Claimed
  <2> QED BY <2>2, <2>3 DEF Rec!History
<1>5. gen \in {Rec!History(c.from).base, Rec!History(c.from).gen} BY DEF Rec!Replicate
<1>6. /\ h \in Rec!HistoryOf /\ h.fork = ForkOf(c.from) /\ h.base = Rec!History(c.from).base
      /\ h.gen = gen /\ gen \in Rec!Generation
  BY <1>4, <1>5 DEF Rec!HistoryOf, ForkOf
<1>7. Below(h.base, g) /\ Below(h.gen, g) /\ h.base.number <= h.gen.number
  <2>1. Rec!History(c.from).base.number \in Nat BY <1>4 DEF Rec!HistoryOf, Rec!Generation
  <2> QED BY <1>4, <1>5, <1>6, <2>1
<1>8. disk[n] \in Disk /\ Rec!BindingNow(n) \in Rec!Generation \cup {Nil} /\ proc[n] \in Running
  BY <1>1, <1>3, Fields, UpFields, EffectiveType
<1>9. /\ disk' = [disk EXCEPT ![n] = d] /\ UNCHANGED <<proc, dials, conns, forks>>
  <2>1. disk' = [disk EXCEPT ![n].db = k, ![n].snap = h.fork, ![n].binding = Rec!BindingNow(n)]
    BY DEF Rec!Replicate
  <2>2. UNCHANGED <<proc, dials, conns, forks>> BY DEF Rec!Replicate
  <2> HIDE DEF k, h, n
  <2> QED BY <1>1, <1>8, <2>1, <2>2 DEF Shape, Disk
<1>10. proc' = [proc EXCEPT ![n] = proc[n]] BY <1>1, <1>9 DEF Shape
<1>11. ASSUME k \in Rec!HistoryOf
       PROVE  /\ d \in Disk /\ d.db = k /\ d.snap = h.fork /\ d.binding = Rec!BindingNow(n)
              /\ d.intent = Intent(n) /\ d.reset = disk[n].reset
  BY <1>6, <1>8, <1>11 DEF Disk, Intent, Rec!HistoryOf
<1> HIDE DEF d
<1>12. CASE Rec!Empty(n)
  <2>1. k = h BY <1>12 DEF Rec!Merged, Rec!Empty, Rec!History
  <2>2. Core(names)' BY <1>1, <1>3, <1>4, <1>6, <1>7, <1>9, <1>11, <1>12, <2>1, Received
  <2>3. \A m \in Member : m # n => disk'[m] = disk[m] /\ proc'[m] = proc[m]
    BY <1>1, <1>9 DEF Shape
  <2>4. LinksKept(names)' BY <1>1, <1>9, <1>12, <2>3, QuietLinks
  <2> QED BY <2>2, <2>4 DEF Kept
<1>13. CASE ~ Rec!Empty(n)
  <2>1. Rec!Claims(n) /\ g = names[ForkOf(n)] /\ ForkOf(n) \in Nat
    BY <1>1, <1>3, <1>13, UpFacts, ClaimUp, Claimed
  <2>2. ForkOf(n) = ForkOf(c.from)
    BY <1>1, <1>2, <1>4, <2>1, Claimed, NoneApart DEF Core, NamesKept
  <2>3. disk[n].db \in Rec!HistoryOf /\ disk[n].db.fork = h.fork /\ disk[n].db # Nil
    BY <1>1, <1>3, <1>6, <1>13, <2>2, UpFacts DEF Rec!History, ForkOf, Rec!Empty
  <2>4. k = [h EXCEPT !.gen = IF Rec!Later(disk[n].db.gen, gen) THEN disk[n].db.gen ELSE gen]
    BY <1>6, <2>3 DEF Rec!Merged
  <2>5. /\ k \in Rec!HistoryOf /\ k.fork = ForkOf(n) /\ k.base = h.base
        /\ k.gen = IF Rec!Later(disk[n].db.gen, gen) THEN disk[n].db.gen ELSE gen
    <3>1. disk[n].db.gen \in Rec!Generation BY <2>3 DEF Rec!HistoryOf
    <3>2. (IF Rec!Later(disk[n].db.gen, gen) THEN disk[n].db.gen ELSE gen) \in Rec!Generation
      BY <1>6, <3>1
    <3> QED BY <1>6, <2>2, <2>4, <3>2 DEF Rec!HistoryOf
  <2> HIDE DEF k, h
  <2>6. Below(Rec!History(n).gen, g) /\ Below(Rec!Row(n), g) BY <1>1, <1>3, <2>1, Claimed
  <2>7. Below(k.gen, g) /\ Below(k.base, g) BY <1>6, <1>7, <2>5, <2>6 DEF Rec!History
  <2>8. k.base.number <= k.gen.number
    <3>1. h.base.number \in Nat /\ gen.number \in Nat /\ disk[n].db.gen.number \in Nat
      BY <1>6, <2>3 DEF Rec!HistoryOf, Rec!Generation
    <3> QED BY <1>6, <1>7, <2>5, <3>1 DEF Rec!Later
  <2>9. d \in Disk /\ d.db = k /\ d.snap = h.fork /\ d.binding = Binding(n)
        /\ d.intent = Intent(n) /\ d.reset = disk[n].reset
    BY <1>1, <1>3, <1>11, <2>1, <2>5, ClaimUp
  <2>10. k # Nil /\ h.fork # Nil BY <1>6, <2>5, NoneApart DEF Rec!HistoryOf
  <2>11. d.reset # Nil => d.binding # Nil /\ ~ Rec!Supersedes(d.reset.target, d.binding)
    BY <1>1, <1>3, <2>9, UpFacts DEF ResetBound
  <2>12. Rec!Claims(n) => /\ d.binding = Binding(n)
                          /\ \A x \in {d.db.base, d.db.gen, proc[n].row} : Below(x, names[ForkOf(n)])
    BY <2>1, <2>6, <2>7, <2>9 DEF Rec!Row
  <2>13. /\ Core(names)' /\ Rec!Ready(n)' = Rec!Ready(n) /\ Rec!Empty(n)' = Rec!Empty(n)
         /\ ~ Rec!Empty(n) => ForkOf(n)' = ForkOf(n)
         /\ \A m \in Member : m # n => disk'[m] = disk[m] /\ proc'[m] = proc[m]
    BY <1>1, <1>3, <1>8, <1>9, <1>10, <1>13, <2>5, <2>8, <2>9, <2>10, <2>11, <2>12, UpCore
       DEF Chosen
  <2> QED BY <1>1, <1>9, <2>13, UpLinks
<1> QED BY <1>12, <1>13

-----------------------------------------------------------------------------
(* The invariant and what it gives *)

\* At first every history is the founding one, whose name is generation zero.
LEMMA InitKept == Rec!Init => RecoveryInv
<1> SUFFICES ASSUME Rec!Init PROVE RecoveryInv OBVIOUS
<1> DEFINE names == [f \in Nat |-> IF f = 0 THEN Rec!Zero ELSE Nil]
<1>1. Rec!Zero \in Rec!Generation /\ Rec!Founding \in Rec!HistoryOf /\ Rec!Founding # Nil
  <2>1. Rec!Zero \in Rec!Generation BY DEF Rec!Zero, Rec!Generation
  <2>2. Rec!Founding \in Rec!HistoryOf
    BY <2>1, HistoriesAssumption DEF Rec!Founding, Rec!HistoryOf, Rec!RecoveryAssumption
  <2> QED BY <2>1, <2>2, NoneApart
<1>2. names \in Names BY <1>1 DEF Names
<1>3. names[0] = Rec!Zero /\ \A f \in Nat : names[f] # Nil => f = 0 /\ names[f] = Rec!Zero
  BY DEF Rec!Zero
<1> HIDE DEF names
<1>4. ASSUME NEW n \in Member
      PROVE  /\ disk[n] \in Disk /\ disk[n].binding = Nil /\ disk[n].intent = Nil
             /\ disk[n].request = Nil /\ disk[n].reset = Nil
             /\ \/ disk[n].db = Rec!Founding /\ disk[n].snap = 0
                \/ disk[n].db = Nil /\ disk[n].snap = Nil
             /\ proc[n] = Rec!Off
  <2>1. disk[n] = [db |-> IF n \in Founders THEN Rec!Founding ELSE Nil,
                   snap |-> IF n \in Founders THEN 0 ELSE Nil,
                   binding |-> Nil, intent |-> Nil, request |-> Nil, reset |-> Nil]
    BY <1>4 DEF Rec!Init
  <2>2. disk[n] \in Disk BY <1>1, <2>1 DEF Disk
  <2>3. proc[n] = Rec!Off BY <1>4 DEF Rec!Init
  <2>4. n \in Founders \/ n \notin Founders OBVIOUS
  <2> QED BY <2>1, <2>2, <2>3, <2>4
<1>5. Shape
  <2>1. Rec!Off \in Process BY DEF Rec!Off, Process
  <2>2. disk \in [Member -> Disk]
    <3>1. disk = [n \in Member |-> disk[n]] BY DEF Rec!Init
    <3> QED BY <1>4, <3>1
  <2> QED BY <2>1, <2>2 DEF Rec!Init, Shape
<1>6. forks = 0 /\ dials = {} /\ conns = {} BY DEF Rec!Init
<1>7. ASSUME NEW n \in Member
      PROVE  /\ Rec!Phase(n) = "off" /\ ~ Rec!Up(n) /\ ~ Rec!Moving(n) /\ Intent(n) = Nil /\ Binding(n) = Nil
             /\ ~ Chosen(n) /\ ResetBound(n)
             /\ (Rec!Empty(n) <=> disk[n].snap = Nil)
             /\ ~ Rec!Empty(n) => /\ ForkOf(n) = 0 /\ Rec!History(n).base = Rec!Zero /\ Rec!History(n).gen = Rec!Zero
  <2>1. Rec!Phase(n) = "off" /\ ~ Rec!Up(n) BY <1>4 DEF Rec!Phase, Rec!Up, Rec!Off
  <2>2. ~ Rec!Empty(n) => Rec!History(n) = Rec!Founding BY <1>4 DEF Rec!Empty, Rec!History
  <2>3. Rec!Empty(n) <=> disk[n].snap = Nil BY <1>1, <1>4, NoneApart DEF Rec!Empty, Rec!History
  <2>4. ~ Rec!Moving(n) /\ Intent(n) = Nil /\ Binding(n) = Nil /\ ~ Chosen(n) /\ ResetBound(n)
    BY <1>4 DEF Rec!Moving, Intent, Binding, Chosen, ResetBound
  <2> QED BY <2>1, <2>2, <2>3, <2>4 DEF ForkOf, Rec!Founding
<1>8. ASSUME NEW n \in Member PROVE NodeKept(names, n)
  <2>1. PhaseKept(n) BY <1>7 DEF PhaseKept
  <2>2. DiskKept(n) BY <1>6, <1>7 DEF DiskKept, Rec!Zero
  <2>3. NamedKept(names, n) BY <1>3, <1>7 DEF NamedKept, Below, Rec!Zero
  <2>4. UnnamedKept(names, n) BY <1>1, <1>3, <1>7, NoneApart DEF UnnamedKept
  <2> QED BY <2>1, <2>2, <2>3, <2>4 DEF NodeKept
<1>9. NamesKept(names) BY <1>3, <1>6 DEF NamesKept, Rec!Zero
<1>10. Private(names) /\ LineageOnce(names)
  BY <1>1, <1>3, <1>7, NoneApart DEF Private, LineageOnce
<1>11. LinksKept(names) BY <1>6 DEF LinksKept, Links
<1> QED BY <1>2, <1>5, <1>8, <1>9, <1>10, <1>11 DEF RecoveryInv, Core

\* Every step keeps it.
LEMMA NextKept ==
  ASSUME NEW names \in Names, Kept(names), [Rec!Next]_(Rec!vars)
  PROVE  \E other \in Names : Kept(other)'
<1>1. CASE UNCHANGED Rec!vars
  <2>1. UNCHANGED <<disk, proc, dials, conns, forks>> BY <1>1 DEF Rec!vars
  <2>2. \A m \in Member : Rec!Ready(m)' = Rec!Ready(m) /\ Rec!Empty(m)' = Rec!Empty(m) /\ ForkOf(m)' = ForkOf(m)
    BY <2>1 DEF Rec!Ready, Rec!Up, Rec!Phase, Rec!Empty, Rec!History, ForkOf
  <2>3. LinksKept(names)' BY <2>1, <2>2, LinksFrame DEF Kept
  <2> QED BY <2>1, <2>3, Unmoved DEF Kept
<1>2. ASSUME NEW n \in Member, Rec!Withdraw(n) \/ Rec!Start(n) \/ Rec!PrepareIntent(n) \/ Rec!RequestRecovery(n)
      PROVE  Kept(names)'
  BY <1>2, WithdrawKept, StartKept, PrepareIntentKept, RequestRecoveryKept
<1>3. ASSUME NEW n \in Member, Rec!RecoverSingleton(n) \/ Rec!InstallRestore(n) \/ Rec!ConsumeRequest(n)
      PROVE  Kept(names)'
  BY <1>3, RecoverSingletonKept, InstallRestoreKept, ConsumeRequestKept
<1>4. ASSUME NEW n \in Member,
             Rec!Guard(n) \/ Rec!Apply(n) \/ Rec!Crash(n) \/ Rec!CommitGeneration(n) \/ Rec!PublishGeneration(n)
      PROVE  Kept(names)'
  BY <1>4, GuardKept, ApplyKept, CrashKept, CommitGenerationKept, PublishGenerationKept
<1>5. ASSUME NEW n \in Member, Rec!ConsumeIntent(n) PROVE \E other \in Names : Kept(other)'
  BY <1>5, ConsumeIntentKept
<1>6. ASSUME NEW n \in Member, Rec!PerformReset(n) \/ Rec!Move(n) PROVE Kept(names)'
  BY <1>6, PerformResetKept, MoveKept
<1>7. ASSUME NEW n \in Member, NEW number \in 1..MaxGen, NEW seen, Rec!ChooseGeneration(n, number, seen)
      PROVE  Kept(names)'
  <2>1. number \in Nat /\ number > 0 BY HistoriesAssumption DEF Rec!RecoveryAssumption
  <2> QED BY <1>7, <2>1, ChooseGenerationKept
<1>8. ASSUME NEW n \in Member, NEW m \in Member,
             \/ Rec!RequestRestore(n, m) \/ Rec!Dial(n, m) \/ Rec!BindEmpty(n, m)
             \/ Rec!Admit(n, m) \/ Rec!SignalReset(n, m) \/ Rec!SignalRebind(n, m)
      PROVE  Kept(names)'
  BY <1>8, RequestRestoreKept, DialKept, BindEmptyKept, AdmitKept, SignalResetKept, SignalRebindKept
<1>9. ASSUME NEW d \in dials, Rec!Accept(d) PROVE Kept(names)' BY <1>9, AcceptKept
<1>10. ASSUME NEW c \in conns, Rec!Complete(c) PROVE Kept(names)' BY <1>10, CompleteKept
<1>11. ASSUME NEW c \in conns, NEW g, Rec!Replicate(c, g) PROVE Kept(names)'
  BY <1>11, ReplicateKept
<1>12. ASSUME NEW c \in dials \cup conns, Rec!Hangup(c) PROVE Kept(names)' BY <1>12, HangupKept
<1> QED BY <1>1, <1>2, <1>3, <1>4, <1>5, <1>6, <1>7, <1>8, <1>9, <1>10, <1>11, <1>12 DEF Rec!Next

\* Recovery keeps its invariant: forks have names, no two the same, and who speaks for a
\* fork speaks by its name.
THEOREM RecoveryInvariance == Rec!Spec => []RecoveryInv
<1>1. Rec!Init => RecoveryInv BY InitKept
<1>2. RecoveryInv /\ [Rec!Next]_(Rec!vars) => RecoveryInv'
  <2> SUFFICES ASSUME NEW names \in Names, Kept(names), [Rec!Next]_(Rec!vars) PROVE RecoveryInv'
    BY DEF RecoveryInv, Kept
  <2>1. PICK other \in Names : Kept(other)' BY NextKept
  <2> QED BY <2>1 DEF RecoveryInv, Kept
<1> QED BY <1>1, <1>2, PTL DEF Rec!Spec

LEMMA ApartFromInv == RecoveryInv => Rec!HistoriesApart
<1> SUFFICES ASSUME NEW names \in Names, Core(names), NEW n \in Member
             PROVE  (Rec!Empty(n) \/ Rec!History(n).fork # Rec!Mixed) /\ Rec!Whole(n)
  BY DEF RecoveryInv, Rec!HistoriesApart
<1>1. NodeKept(names, n) /\ forks \in Nat BY DEF Core, Shape
<1>2. Rec!Empty(n) \/ Rec!History(n).fork # Rec!Mixed
  BY <1>1 DEF NodeKept, DiskKept, ForkOf, Rec!Mixed
<1>3. Rec!Whole(n) BY UpFacts DEF Rec!Whole, Rec!Empty, Rec!History
<1> QED BY <1>2, <1>3

LEMMA OnceFromInv == RecoveryInv => Rec!GenerationOnce
<1> SUFFICES ASSUME NEW names \in Names, Core(names) PROVE Rec!GenerationOnce
  BY DEF RecoveryInv
<1>1. ASSUME NEW n \in Member, Rec!Claims(n) PROVE Rec!Claim(n) = names[ForkOf(n)]
  <2>1. CASE Rec!Up(n) BY <1>1, <2>1, ClaimUp DEF Rec!Claim
  <2>2. CASE ~ Rec!Up(n)
    <3>1. Rec!Claim(n) = Rec!EffectiveOf(Binding(n), Rec!History(n).base)
      BY <1>1, <2>2, ClaimStart DEF Rec!Claim
    <3>2. Binding(n) \in Rec!Generation \cup {Nil} BY Fields DEF Core, Binding
    <3>3. Rec!History(n).base \in Rec!Generation BY <1>1, Claimed DEF Rec!History, Rec!HistoryOf
    <3> QED BY <1>1, <3>1, <3>2, <3>3, Claimed, Speaking
  <2> QED BY <2>1, <2>2
<1>2. ASSUME NEW m \in Member, NEW n \in Member, Rec!Claims(m), Rec!Claims(n), Rec!Claim(m) = Rec!Claim(n)
      PROVE  Rec!History(m).fork = Rec!History(n).fork
  <2>1. names[ForkOf(m)] = names[ForkOf(n)] BY <1>1, <1>2
  <2>2. /\ ForkOf(m) \in Nat /\ names[ForkOf(m)] \in Rec!Generation
        /\ ForkOf(n) \in Nat /\ names[ForkOf(n)] \in Rec!Generation
    BY <1>2, Claimed
  <2> QED BY <2>1, <2>2, NoneApart DEF Core, NamesKept, ForkOf
<1>3. ASSUME NEW n \in Member, ~ Rec!Empty(n) PROVE ~ Rec!Later(Rec!History(n).base, Rec!History(n).gen)
  <2>1. Rec!History(n) \in Rec!HistoryOf BY <1>3, Fields DEF Core, Rec!Empty, Rec!History
  <2>2. Rec!History(n).base.number \in Nat /\ Rec!History(n).gen.number \in Nat
    BY <2>1 DEF Rec!HistoryOf, Rec!Generation
  <2>3. Rec!History(n).base.number <= Rec!History(n).gen.number
    BY <1>3 DEF Core, NodeKept, DiskKept
  <2> QED BY <2>2, <2>3 DEF Rec!Later
<1> QED BY <1>2, <1>3 DEF Rec!GenerationOnce

\* No history ever holds the entries of two forks, and a running node has the whole of
\* its history or nothing: for any number of nodes, recoveries, crashes and connections.
THEOREM HistoriesStayApart == Rec!Spec => []Rec!HistoriesApart
BY RecoveryInvariance, ApartFromInv, PTL

\* No two forks are spoken for by one generation, wherever a recovery was interrupted.
THEOREM GenerationsOnce == Rec!Spec => []Rec!GenerationOnce
BY RecoveryInvariance, OnceFromInv, PTL

\* A deployment has one history: one founder, forks that never mix, and a generation of
\* its own for each fork.
THEOREM OneHistoryKept == Seed!Spec /\ Rec!Spec => []OneHistory
BY OneFounder, HistoriesStayApart, GenerationsOnce, PTL DEF OneHistory

-----------------------------------------------------------------------------
(* Members *)

Config  == [Host -> [role : {"none", "learner", "voter"}, address : Group!Place]]
Hosting == [up : BOOLEAN, address : Group!Place, log : BOOLEAN]
Asking  == [address : Group!Place, moved : BOOLEAN, version : Nat, write : BOOLEAN]

\* The controller's memory is of hosts.
Controls ==
    /\ control = [missing |-> control.missing, active |-> control.active, op |-> control.op]
    /\ control.missing \in [DOMAIN control.missing -> BOOLEAN] /\ DOMAIN control.missing \subseteq Host
    /\ control.active \in Nat /\ control.op \in Group!Work \cup {Nil}

GroupShape ==
    /\ config \in Config /\ hosts \in [Host -> Hosting]
    /\ records \in [Host -> Group!Entry \cup {Nil}] /\ pending \in Group!Change \cup {Nil}
    /\ requests \in [Host -> Asking \cup {Nil}] /\ floor = Policy /\ Controls

Admitted(n) == records[n] # Nil /\ ~ records[n].retired
Votes(n)    == config[n].role = "voter"
Spare       == Group!Cardinality(Group!Voters) > floor

\* A change that gives and takes no vote.
Keeps(p) == p.role = config[p.node].role \/ (p.role = "learner" /\ ~ Votes(p.node))

\* What the controller means to do is still right when it does it.
WorkRight ==
    control.op # Nil =>
        /\ control.op.kind = "promote" => Admitted(control.op.node)
        /\ control.op.kind # "promote" /\ Votes(control.op.node) => Spare

\* Who asked for the change may be forgotten, but what it needs stays true; and while the
\* controller has work of its own, no vote is about to change.
ChangeRight ==
    pending # Nil =>
        /\ pending.role = "voter" /\ ~ Votes(pending.node) => Admitted(pending.node)
        /\ pending.role # "voter" /\ Votes(pending.node) => Spare
        /\ control.op # Nil => Keeps(pending)

GroupInv == GroupShape /\ WorkRight /\ ChangeRight

-----------------------------------------------------------------------------
(* Numbers of members *)

\* An instance's operators are the library's.
LEMMA SameCardinality == \A S : Group!Cardinality(S) = Cardinality(S)
BY DEF Group!Cardinality, Cardinality

LEMMA SameFinite == Group!IsFiniteSet(Host) = IsFiniteSet(Host)
BY DEF Group!IsFiniteSet, IsFiniteSet

\* Hosts are counted.
LEMMA Counted == ASSUME NEW S \in SUBSET Host PROVE IsFiniteSet(S) /\ Group!Cardinality(S) \in Nat
<1>1. IsFiniteSet(Host) BY HistoriesAssumption, SameFinite DEF Group!MembershipAssumption
<1>2. IsFiniteSet(S) BY <1>1, FS_Subset
<1> QED BY <1>2, FS_CardinalityType, SameCardinality

LEMMA OneLess ==
  ASSUME NEW S \in SUBSET Host, NEW n \in S PROVE Group!Cardinality(S \ {n}) = Group!Cardinality(S) - 1
BY Counted, FS_RemoveElement, SameCardinality

LEMMA OneMore ==
  ASSUME NEW S \in SUBSET Host, NEW n \in Host PROVE Group!Cardinality(S \cup {n}) >= Group!Cardinality(S)
BY Counted, FS_AddElement, SameCardinality

\* The target is never below the policy's number.
LEMMA TargetAboveFloor ==
  ASSUME GroupShape, NEW eligible \in Int, NEW due \in BOOLEAN
  PROVE  Group!AdjustTarget(eligible, due) \in Nat /\ Group!AdjustTarget(eligible, due) >= floor
<1>1. floor \in Nat /\ MaxVoters \in Nat
  BY HistoriesAssumption DEF GroupShape, Group!MembershipAssumption
<1>2. control.active \in Nat BY DEF GroupShape, Controls
<1>3. Group!Cardinality(Group!Voters) \in Nat BY Counted DEF Group!Voters
<1>4. \A k \in Int : Group!OddTarget(k) \in Nat /\ Group!OddTarget(k) >= floor
  <2> SUFFICES ASSUME NEW k \in Int PROVE Group!OddTarget(k) \in Nat /\ Group!OddTarget(k) >= floor
    OBVIOUS
  <2>1. Group!Odd(k) \in Int BY DEF Group!Odd
  <2>2. Group!Smaller(MaxVoters, Group!Odd(k)) \in Int BY <1>1, <2>1 DEF Group!Smaller
  <2> QED BY <1>1, <2>2 DEF Group!OddTarget, Group!Larger
<1>5. Group!Larger(control.active, floor) \in Nat /\ Group!Larger(control.active, floor) >= floor
  BY <1>1, <1>2 DEF Group!Larger
<1> QED BY <1>3, <1>4, <1>5 DEF Group!AdjustTarget

-----------------------------------------------------------------------------
(* What stays *)

LEMMA NilApart == Nil \notin Group!Work /\ Nil \notin Group!Change /\ Nil \notin Group!Entry
BY HistoriesAssumption DEF Group!MembershipAssumption

\* A step that leaves the configuration, the change under way, the records and the work.
LEMMA GroupStays ==
  ASSUME GroupInv, UNCHANGED <<config, pending, records, floor>>, control'.op \in {control.op, Nil}
  PROVE  WorkRight' /\ ChangeRight'
<1>1. UNCHANGED <<Group!Voters, Spare>> BY DEF Group!Voters, Spare
<1>2. \A n : UNCHANGED <<Admitted(n), Votes(n)>> BY DEF Admitted, Votes
<1>3. \A p : UNCHANGED Keeps(p) BY DEF Keeps, Votes
<1>4. CASE control'.op = Nil BY <1>1, <1>2, <1>4 DEF GroupInv, WorkRight, ChangeRight
<1>5. CASE control'.op = control.op BY <1>1, <1>2, <1>3, <1>5 DEF GroupInv, WorkRight, ChangeRight
<1> QED BY <1>4, <1>5

\* The leader starts anew with nothing to do.
LEMMA IdleControls == ASSUME control' = Group!Idle PROVE Controls' /\ control'.op = Nil
BY DEF Group!Idle, Controls

\* What a change does to the voters.
LEMMA ChangedVoters ==
  ASSUME GroupInv, pending # Nil, config' = Group!Changed(pending)
  PROVE  /\ config' \in Config
         /\ pending.role = "voter" => Group!Voters' = Group!Voters \cup {pending.node}
         /\ pending.role # "voter" => Group!Voters' = Group!Voters \ {pending.node}
         /\ Keeps(pending) => Group!Voters' = Group!Voters
         /\ pending.node \in Host
<1>1. pending \in Group!Change /\ config \in Config BY DEF GroupInv, GroupShape
<1>2. /\ pending.node \in Host /\ pending.role \in {"none", "learner", "voter"}
      /\ pending.address \in Group!Place
  BY <1>1 DEF Group!Change
<1>3. /\ config' = [config EXCEPT ![pending.node] = [role |-> pending.role, address |-> pending.address]]
  BY DEF Group!Changed
<1>4. config' \in Config BY <1>1, <1>2, <1>3 DEF Config
<1>5. /\ config'[pending.node].role = pending.role
      /\ \A n \in Host : n # pending.node => config'[n] = config[n]
  BY <1>1, <1>2, <1>3 DEF Config
<1>6. pending.role = "voter" => Group!Voters' = Group!Voters \cup {pending.node}
  BY <1>2, <1>5 DEF Group!Voters
<1>7. pending.role # "voter" => Group!Voters' = Group!Voters \ {pending.node}
  BY <1>2, <1>5 DEF Group!Voters
<1>8. Keeps(pending) => Group!Voters' = Group!Voters
  BY <1>2, <1>5 DEF Group!Voters, Keeps, Votes
<1> QED BY <1>2, <1>4, <1>6, <1>7, <1>8

-----------------------------------------------------------------------------
(* The steps *)

LEMMA GroupInit == Group!Init => GroupInv
<1> SUFFICES ASSUME Group!Init PROVE GroupInv OBVIOUS
<1>1. pending = Nil /\ control = Group!Idle /\ floor = Policy BY DEF Group!Init
<1>2. config \in Config /\ hosts \in [Host -> Hosting]
  BY DEF Group!Init, Config, Hosting, Group!Out, Group!Place
<1>3. records \in [Host -> Group!Entry \cup {Nil}] /\ requests \in [Host -> Asking \cup {Nil}]
  BY DEF Group!Init
<1>4. Controls /\ control.op = Nil BY <1>1 DEF Group!Idle, Controls
<1> QED BY <1>1, <1>2, <1>3, <1>4 DEF GroupInv, GroupShape, WorkRight, ChangeRight

LEMMA CommitChangeKept == ASSUME GroupInv, Group!CommitChange PROVE GroupInv'
<1>1. /\ pending # Nil /\ config' = Group!Changed(pending) /\ pending' = Nil
      /\ UNCHANGED <<records, floor, hosts, control, requests>>
  BY DEF Group!CommitChange
<1>2. GroupShape' BY <1>1, ChangedVoters DEF GroupInv, GroupShape, Controls
<1>3. WorkRight'
  <2> SUFFICES ASSUME control.op # Nil PROVE WorkRight' BY <1>1 DEF WorkRight
  <2>1. Keeps(pending) BY <1>1 DEF GroupInv, ChangeRight
  <2>2. Group!Voters' = Group!Voters BY <1>1, <2>1, ChangedVoters
  <2>3. control.op.node \in Host BY DEF GroupInv, GroupShape, Controls, Group!Work
  <2>4. Votes(control.op.node)' = Votes(control.op.node)
    BY <1>1, <2>2, <2>3 DEF Votes, Group!Voters
  <2> QED BY <1>1, <2>2, <2>4 DEF GroupInv, WorkRight, Spare, Admitted
<1>4. ChangeRight' BY <1>1 DEF ChangeRight
<1> QED BY <1>2, <1>3, <1>4 DEF GroupInv

LEMMA ElectKept == ASSUME GroupInv, NEW n \in Host, NEW kept \in BOOLEAN, Group!Elect(n, kept) PROVE GroupInv'
<1>1. /\ control' = Group!Idle /\ pending' = Nil /\ requests' = [m \in Host |-> Nil]
      /\ config' = (IF kept /\ pending # Nil THEN Group!Changed(pending) ELSE config)
      /\ UNCHANGED <<records, floor, hosts>>
  BY DEF Group!Elect
<1>2. config' \in Config
  <2>1. CASE kept /\ pending # Nil BY <1>1, <2>1, ChangedVoters
  <2>2. CASE ~ (kept /\ pending # Nil) BY <1>1, <2>2 DEF GroupInv, GroupShape
  <2> QED BY <2>1, <2>2
<1>3. GroupShape' BY <1>1, <1>2, IdleControls DEF GroupInv, GroupShape
<1> QED BY <1>1, <1>3, IdleControls DEF GroupInv, WorkRight, ChangeRight

LEMMA ReplicateMemberKept == ASSUME GroupInv, NEW n \in Host, Group!Replicate(n) PROVE GroupInv'
<1>1. /\ hosts' = [hosts EXCEPT ![n].log = TRUE]
      /\ UNCHANGED <<config, pending, records, floor, control, requests>>
  BY DEF Group!Replicate
<1>2. hosts' \in [Host -> Hosting] BY <1>1 DEF GroupInv, GroupShape, Hosting
<1>3. GroupShape' BY <1>1, <1>2 DEF GroupInv, GroupShape, Controls
<1> QED BY <1>1, <1>3, GroupStays DEF GroupInv

LEMMA StopKept == ASSUME GroupInv, NEW n \in Host, Group!Stop(n) PROVE GroupInv'
<1>1. /\ hosts' = [hosts EXCEPT ![n].up = FALSE] /\ UNCHANGED <<config, pending, records, floor>>
      /\ \/ control' = Group!Idle /\ requests' = [m \in Host |-> Nil]
         \/ UNCHANGED <<control, requests>>
  BY DEF Group!Stop
<1>2. hosts' \in [Host -> Hosting] BY <1>1 DEF GroupInv, GroupShape, Hosting
<1>3. Controls' /\ control'.op \in {control.op, Nil} /\ requests' \in [Host -> Asking \cup {Nil}]
  <2>1. CASE control' = Group!Idle /\ requests' = [m \in Host |-> Nil] BY <2>1, IdleControls
  <2>2. CASE UNCHANGED <<control, requests>> BY <2>2 DEF GroupInv, GroupShape, Controls
  <2> QED BY <1>1, <2>1, <2>2
<1>4. GroupShape' BY <1>1, <1>2, <1>3 DEF GroupInv, GroupShape
<1> QED BY <1>1, <1>3, <1>4, GroupStays DEF GroupInv

LEMMA ReturnKept ==
  ASSUME GroupInv, NEW n \in Host, NEW address \in Address, Group!Return(n, address) PROVE GroupInv'
<1>1. /\ hosts' = [hosts EXCEPT ![n].up = TRUE, ![n].address = address]
      /\ UNCHANGED <<config, pending, records, floor, control, requests>>
  BY DEF Group!Return
<1>2. hosts' \in [Host -> Hosting] BY <1>1 DEF GroupInv, GroupShape, Hosting, Group!Place
<1>3. GroupShape' BY <1>1, <1>2 DEF GroupInv, GroupShape, Controls
<1> QED BY <1>1, <1>3, GroupStays DEF GroupInv

LEMMA AdmitMemberKept == ASSUME GroupInv, NEW n \in Host, Group!Admit(n) PROVE GroupInv'
<1>1. /\ UNCHANGED <<config, pending, records, floor, hosts, control>>
      /\ \E moved \in BOOLEAN, write \in BOOLEAN : requests' = [requests EXCEPT ![n] =
            [address |-> hosts[n].address, moved |-> moved, version |-> Group!Version(n), write |-> write]]
  BY DEF Group!Admit
<1>2. Group!Version(n) \in Nat BY DEF GroupInv, GroupShape, Group!Version, Group!Entry
<1>3. hosts[n].address \in Group!Place BY DEF GroupInv, GroupShape, Hosting
<1>4. requests' \in [Host -> Asking \cup {Nil}] BY <1>1, <1>2, <1>3 DEF GroupInv, GroupShape, Asking
<1>5. GroupShape' BY <1>1, <1>4 DEF GroupInv, GroupShape, Controls
<1> QED BY <1>1, <1>5, GroupStays DEF GroupInv

\* A record is written: the next version.
LEMMA Recorded ==
  ASSUME GroupInv, NEW n \in Host, NEW address \in Group!Place, NEW retired \in BOOLEAN,
         Group!Record(n, address, retired)
  PROVE  /\ records' \in [Host -> Group!Entry \cup {Nil}]
         /\ records'[n] # Nil /\ records'[n].retired = retired
         /\ \A m \in Host : m # n => records'[m] = records[m]
<1>1. Group!Version(n) \in Nat BY DEF GroupInv, GroupShape, Group!Version, Group!Entry
<1> DEFINE e == [address |-> address, retired |-> retired, version |-> Group!Version(n) + 1]
<1>2. e \in Group!Entry BY <1>1 DEF Group!Entry
<1>3. records' = [records EXCEPT ![n] = e] BY DEF Group!Record
<1>4. records \in [Host -> Group!Entry \cup {Nil}] BY DEF GroupInv, GroupShape
<1>5. records'[n] = e /\ \A m \in Host : m # n => records'[m] = records[m] BY <1>3, <1>4
<1>6. records' \in [Host -> Group!Entry \cup {Nil}] BY <1>2, <1>3, <1>4
<1>7. e.retired = retired OBVIOUS
<1> HIDE DEF e
<1> QED BY <1>2, <1>5, <1>6, <1>7, NilApart

LEMMA AdmitCommitKept == ASSUME GroupInv, NEW n \in Host, Group!AdmitCommit(n) PROVE GroupInv'
<1>1. /\ requests[n] # Nil /\ pending = Nil /\ UNCHANGED <<config, pending, floor, hosts, control>>
      /\ \/ /\ Group!Record(n, requests[n].address, FALSE)
            /\ requests' = [requests EXCEPT ![n].write = FALSE]
         \/ requests' = [requests EXCEPT ![n] = Nil] /\ UNCHANGED records
  BY DEF Group!AdmitCommit, Group!Fenced
<1>2. requests[n] \in Asking /\ requests \in [Host -> Asking \cup {Nil}]
  BY <1>1 DEF GroupInv, GroupShape
<1>3. CASE requests' = [requests EXCEPT ![n] = Nil] /\ UNCHANGED records
  <2>1. GroupShape' BY <1>1, <1>2, <1>3 DEF GroupInv, GroupShape, Controls
  <2> QED BY <1>1, <1>3, <2>1, GroupStays DEF GroupInv
<1>4. CASE Group!Record(n, requests[n].address, FALSE) /\ requests' = [requests EXCEPT ![n].write = FALSE]
  <2>1. requests[n].address \in Group!Place BY <1>2 DEF Asking
  <2>2. /\ records' \in [Host -> Group!Entry \cup {Nil}] /\ Admitted(n)'
        /\ \A m \in Host : m # n => records'[m] = records[m]
    BY <1>4, <2>1, Recorded DEF Admitted
  <2>3. requests' \in [Host -> Asking \cup {Nil}] BY <1>2, <1>4 DEF Asking
  <2>4. GroupShape' BY <1>1, <2>2, <2>3 DEF GroupInv, GroupShape, Controls
  <2>5. \A m \in Host : Admitted(m) => Admitted(m)' BY <2>2 DEF Admitted
  <2>6. control.op # Nil => control.op.node \in Host BY DEF GroupInv, GroupShape, Controls, Group!Work
  <2>7. UNCHANGED <<Group!Voters, Spare>> /\ \A m : UNCHANGED Votes(m)
    BY <1>1 DEF Group!Voters, Spare, Votes
  <2>8. WorkRight' BY <1>1, <2>5, <2>6, <2>7 DEF GroupInv, WorkRight
  <2>9. ChangeRight' BY <1>1 DEF ChangeRight
  <2> QED BY <2>4, <2>8, <2>9 DEF GroupInv
<1> QED BY <1>1, <1>3, <1>4

\* A change is proposed for which there is reason, by the controller or without work of its own.
LEMMA ProposeKept ==
  ASSUME GroupInv, pending' \in Group!Change, UNCHANGED <<config, records, floor, hosts>>,
         requests' \in [Host -> Asking \cup {Nil}], Controls',
         control'.op \in {control.op, Nil}, control'.op = Nil \/ Keeps(pending'),
         pending'.role = "voter" /\ ~ Votes(pending'.node) => Admitted(pending'.node),
         pending'.role # "voter" /\ Votes(pending'.node) => Spare
  PROVE  GroupInv'
<1>1. UNCHANGED <<Group!Voters, Spare>> BY DEF Group!Voters, Spare
<1>2. \A n : UNCHANGED <<Admitted(n), Votes(n)>> BY DEF Admitted, Votes
<1>3. GroupShape' BY DEF GroupInv, GroupShape
<1>4. WorkRight' BY <1>1, <1>2 DEF GroupInv, WorkRight
<1>5. control'.op # Nil => Keeps(pending)' BY <1>2 DEF Keeps, Votes
<1>6. ChangeRight' BY <1>1, <1>2, <1>5 DEF ChangeRight
<1> QED BY <1>3, <1>4, <1>6 DEF GroupInv

LEMMA AdmitFinishKept == ASSUME GroupInv, NEW n \in Host, Group!AdmitFinish(n) PROVE GroupInv'
<1>1. /\ requests[n] # Nil /\ requests' = [requests EXCEPT ![n] = Nil]
      /\ UNCHANGED <<config, records, floor, hosts, control>>
      /\ \/ n \in Group!Members /\ Group!Propose(n, config[n].role, requests[n].address)
         \/ n \notin Group!Members /\ Group!Propose(n, "learner", requests[n].address)
         \/ UNCHANGED pending
  BY DEF Group!AdmitFinish
<1>2. requests[n] \in Asking /\ requests' \in [Host -> Asking \cup {Nil}]
  BY <1>1 DEF GroupInv, GroupShape
<1>3. requests[n].address \in Group!Place BY <1>2 DEF Asking
<1>4. config[n].role \in {"none", "learner", "voter"} BY DEF GroupInv, GroupShape, Config
<1>5. Controls' BY <1>1 DEF GroupInv, GroupShape, Controls
<1>6. CASE n \in Group!Members /\ Group!Propose(n, config[n].role, requests[n].address)
  <2>1. /\ pending' \in Group!Change /\ pending'.role = config[n].role /\ pending'.node = n
    BY <1>3, <1>4, <1>6 DEF Group!Propose, Group!Change
  <2>2. Keeps(pending') BY <2>1 DEF Keeps
  <2> QED BY <1>1, <1>2, <1>5, <2>1, <2>2, ProposeKept DEF Votes
<1>7. CASE n \notin Group!Members /\ Group!Propose(n, "learner", requests[n].address)
  <2>1. /\ pending' \in Group!Change /\ pending'.role = "learner" /\ pending'.node = n
    BY <1>3, <1>7 DEF Group!Propose, Group!Change
  <2>2. ~ Votes(n) BY <1>7 DEF Votes, Group!Members, Group!Voters
  <2>3. Keeps(pending') BY <2>1, <2>2 DEF Keeps
  <2> QED BY <1>1, <1>2, <1>5, <2>1, <2>2, <2>3, ProposeKept
<1>8. CASE UNCHANGED pending
  <2>1. GroupShape' BY <1>1, <1>2, <1>5, <1>8 DEF GroupInv, GroupShape
  <2> QED BY <1>1, <1>8, <2>1, GroupStays DEF GroupInv
<1> QED BY <1>1, <1>6, <1>7, <1>8

\* The controller's memory changes, and nothing else.
LEMMA StaleKept == ASSUME GroupInv, Group!Stale PROVE GroupInv'
<1>1. /\ control' = [control EXCEPT !.missing = Group!Idle.missing]
      /\ UNCHANGED <<config, pending, records, floor, hosts, requests>>
  BY DEF Group!Stale
<1>2. Controls' /\ control'.op = control.op BY <1>1 DEF GroupInv, GroupShape, Controls, Group!Idle
<1>3. GroupShape' BY <1>1, <1>2 DEF GroupInv, GroupShape
<1> QED BY <1>1, <1>2, <1>3, GroupStays DEF GroupInv

LEMMA GraceKept == ASSUME GroupInv, NEW n \in Host, Group!Grace(n) PROVE GroupInv'
<1>1. /\ control' = [control EXCEPT !.missing[n] = TRUE] /\ n \in DOMAIN control.missing
      /\ UNCHANGED <<config, pending, records, floor, hosts, requests>>
  BY DEF Group!Grace
<1>2. /\ control'.missing = [control.missing EXCEPT ![n] = TRUE]
      /\ control'.op = control.op /\ control'.active = control.active
      /\ control' = [missing |-> control'.missing, active |-> control'.active, op |-> control'.op]
  BY <1>1 DEF GroupInv, GroupShape, Controls
<1>3. Controls' BY <1>1, <1>2 DEF GroupInv, GroupShape, Controls
<1>4. GroupShape' BY <1>1, <1>3 DEF GroupInv, GroupShape
<1> QED BY <1>1, <1>2, <1>4, GroupStays DEF GroupInv

\* What the controller chooses: a learner that was admitted, a learner that is gone, or a
\* voter that can be spared.
LEMMA ChosenWork ==
  ASSUME GroupInv, NEW ready, ready \subseteq {n \in Host : Group!MayVote(n)},
         NEW failed, failed \subseteq Group!Voters, NEW gone, gone \subseteq Group!Learners,
         NEW target \in Nat, target >= floor,
         NEW op \in Group!Operations(ready, failed, gone, target), op # Nil
  PROVE  /\ op \in Group!Work
         /\ op.kind = "promote" => Admitted(op.node)
         /\ op.kind # "promote" /\ Votes(op.node) => Spare
<1>1. \A n \in Host : config[n].address \in Group!Place BY DEF GroupInv, GroupShape, Config
<1>2. Group!Cardinality(Group!Voters) \in Nat BY Counted DEF Group!Voters
<1>3. floor \in Nat BY HistoriesAssumption DEF GroupInv, GroupShape, Group!MembershipAssumption
<1>4. \/ \E n \in ready : op = Group!Operation("promote", n)
      \/ \E n \in gone : op = Group!Operation("retire", n)
      \/ (\E n \in failed : op = Group!Operation("retire", n)) /\ Group!Cardinality(Group!Voters) > target
  BY DEF Group!Operations
<1>5. CASE \E n \in ready : op = Group!Operation("promote", n)
  <2>1. PICK n \in ready : op = Group!Operation("promote", n) BY <1>5
  <2>2. n \in Host /\ Admitted(n) BY <2>1 DEF Group!MayVote, Admitted
  <2> QED BY <1>1, <2>1, <2>2 DEF Group!Operation, Group!Work
<1>6. CASE \E n \in gone : op = Group!Operation("retire", n)
  <2>1. PICK n \in gone : op = Group!Operation("retire", n) BY <1>6
  <2>2. n \in Host /\ ~ Votes(n) BY <2>1 DEF Group!Learners, Votes
  <2> QED BY <1>1, <2>1, <2>2 DEF Group!Operation, Group!Work
<1>7. CASE (\E n \in failed : op = Group!Operation("retire", n)) /\ Group!Cardinality(Group!Voters) > target
  <2>1. PICK n \in failed : op = Group!Operation("retire", n) BY <1>7
  <2>2. n \in Host BY <2>1 DEF Group!Voters
  <2>3. Spare BY <1>2, <1>3, <1>7 DEF Spare
  <2> QED BY <1>1, <2>1, <2>2, <2>3 DEF Group!Operation, Group!Work
<1> QED BY <1>4, <1>5, <1>6, <1>7

LEMMA ReconcileKept ==
  ASSUME GroupInv, NEW ready \in SUBSET Host, NEW due \in BOOLEAN, Group!Reconcile(ready, due)
  PROVE  GroupInv'
<1> DEFINE missing  == Group!Probed
           past     == {n \in DOMAIN missing : missing[n]}
           eligible == Group!Cardinality(Group!Members) - Group!Cardinality(DOMAIN missing \cap Group!Members)
           target   == Group!AdjustTarget(eligible, due)
<1>1. /\ ready \subseteq {n \in Host : Group!MayVote(n)} /\ pending = Nil
      /\ UNCHANGED <<config, pending, floor, hosts, requests>> /\ records' = Group!Remembered
  BY DEF Group!Reconcile, Group!Fenced
<1>2. PICK op \in Group!Operations(ready, past \cap Group!Voters, past \cap Group!Learners, target) :
         control' = [missing |-> missing, active |-> target, op |-> op]
  BY DEF Group!Reconcile
<1>3. missing \in [DOMAIN missing -> BOOLEAN] /\ DOMAIN missing \subseteq Host
  <2>1. Group!Members \subseteq Host BY DEF Group!Members, Group!Voters, Group!Learners
  <2>2. control.missing \in [DOMAIN control.missing -> BOOLEAN] /\ DOMAIN control.missing \subseteq Host
    BY DEF GroupInv, GroupShape, Controls
  <2> QED BY <2>1, <2>2 DEF Group!Probed
<1>4. eligible \in Int
  <2>1. Group!Members \in SUBSET Host BY DEF Group!Members, Group!Voters, Group!Learners
  <2>2. DOMAIN missing \cap Group!Members \in SUBSET Host BY <2>1
  <2> HIDE DEF missing
  <2> QED BY <2>1, <2>2, Counted
<1>5. target \in Nat /\ target >= floor BY <1>4, TargetAboveFloor DEF GroupInv
<1>6. op # Nil => /\ op \in Group!Work /\ (op.kind = "promote" => Admitted(op.node))
                  /\ (op.kind # "promote" /\ Votes(op.node) => Spare)
  <2> HIDE DEF target, missing
  <2> QED BY <1>1, <1>2, <1>5, ChosenWork
<1> HIDE DEF missing, target
<1>7. Controls' /\ control'.op = op BY <1>2, <1>3, <1>5, <1>6 DEF Controls
<1>8. records' \in [Host -> Group!Entry \cup {Nil}] /\ \A n \in Host : Admitted(n) => Admitted(n)'
  <2>1. records \in [Host -> Group!Entry \cup {Nil}] BY DEF GroupInv, GroupShape
  <2>2. \A n \in Host : config[n].address \in Group!Place BY DEF GroupInv, GroupShape, Config
  <2>3. \A n \in Host : [address |-> config[n].address, retired |-> FALSE, version |-> 1] \in Group!Entry
    BY <2>2 DEF Group!Entry
  <2>4. \A n \in Host : records[n] # Nil => records'[n] = records[n] BY <1>1 DEF Group!Remembered
  <2> QED BY <1>1, <2>1, <2>3, <2>4 DEF Group!Remembered, Admitted
<1>9. GroupShape' BY <1>1, <1>7, <1>8 DEF GroupInv, GroupShape
<1>10. UNCHANGED <<Group!Voters, Spare>> /\ \A m : UNCHANGED Votes(m)
  BY <1>1 DEF Group!Voters, Spare, Votes
<1>11. WorkRight'
  <2>1. op # Nil => op.node \in Host BY <1>6 DEF Group!Work
  <2> QED BY <1>6, <1>7, <1>8, <1>10, <2>1 DEF WorkRight
<1>12. ChangeRight' BY <1>1 DEF ChangeRight
<1> QED BY <1>9, <1>11, <1>12 DEF GroupInv

\* The work is done, or turned out not to be needed.
LEMMA WorkDone == ASSUME GroupInv, control' = [control EXCEPT !.op = Nil] PROVE Controls' /\ control'.op = Nil
BY DEF GroupInv, GroupShape, Controls

LEMMA PromoteKept == ASSUME GroupInv, Group!Promote PROVE GroupInv'
<1> DEFINE n == control.op.node
<1>1. /\ control.op # Nil /\ control.op.kind = "promote" /\ control' = [control EXCEPT !.op = Nil]
      /\ UNCHANGED <<config, records, floor, hosts, requests>>
      /\ Group!Propose(n, "voter", config[n].address) \/ UNCHANGED pending
  BY DEF Group!Promote
<1>2. Controls' /\ control'.op = Nil BY <1>1, WorkDone
<1>3. n \in Host /\ Admitted(n) BY <1>1 DEF GroupInv, GroupShape, Controls, WorkRight, Group!Work
<1>4. requests' \in [Host -> Asking \cup {Nil}] BY <1>1 DEF GroupInv, GroupShape
<1>5. CASE Group!Propose(n, "voter", config[n].address)
  <2>1. config[n].address \in Group!Place BY <1>3 DEF GroupInv, GroupShape, Config
  <2>2. pending' \in Group!Change /\ pending'.node = n /\ pending'.role = "voter"
    BY <1>3, <1>5, <2>1 DEF Group!Propose, Group!Change
  <2> QED BY <1>1, <1>2, <1>3, <1>4, <2>2, ProposeKept
<1>6. CASE UNCHANGED pending
  <2>1. GroupShape' BY <1>1, <1>2, <1>4, <1>6 DEF GroupInv, GroupShape
  <2> QED BY <1>1, <1>2, <1>6, <2>1, GroupStays DEF GroupInv
<1> QED BY <1>1, <1>5, <1>6

LEMMA RetireKept == ASSUME GroupInv, Group!Retire PROVE GroupInv'
<1> DEFINE n == control.op.node
           address == IF records[n] = Nil THEN config[n].address ELSE records[n].address
<1>1. /\ control.op # Nil /\ control.op.kind = "retire" /\ control' = [control EXCEPT !.op.kind = "remove"]
      /\ UNCHANGED <<config, pending, floor, hosts, requests>> /\ pending = Nil
      /\ Group!Record(n, address, TRUE)
  BY DEF Group!Retire, Group!Fenced
<1>2. control.op \in Group!Work /\ n \in Host
  BY <1>1 DEF GroupInv, GroupShape, Controls, Group!Work
<1>3. Controls' /\ control'.op.kind = "remove" /\ control'.op.node = n
  BY <1>1, <1>2 DEF GroupInv, GroupShape, Controls, Group!Work
<1>4. address \in Group!Place
  BY <1>2 DEF GroupInv, GroupShape, Config, Group!Entry
<1>5. records' \in [Host -> Group!Entry \cup {Nil}]
  <2> HIDE DEF address, n
  <2> QED BY <1>1, <1>2, <1>4, Recorded
<1>6. GroupShape' BY <1>1, <1>3, <1>5 DEF GroupInv, GroupShape
<1>7. UNCHANGED <<Group!Voters, Spare>> /\ \A m : UNCHANGED Votes(m)
  BY <1>1 DEF Group!Voters, Spare, Votes
<1>8. WorkRight' BY <1>1, <1>3, <1>7 DEF GroupInv, WorkRight
<1>9. ChangeRight' BY <1>1 DEF ChangeRight
<1> QED BY <1>6, <1>8, <1>9 DEF GroupInv

LEMMA RemoveMemberKept == ASSUME GroupInv, Group!RemoveMember PROVE GroupInv'
<1> DEFINE n == control.op.node
<1>1. /\ control.op # Nil /\ control.op.kind = "remove" /\ control' = [control EXCEPT !.op = Nil]
      /\ UNCHANGED <<config, records, floor, hosts, requests>>
      /\ Group!Propose(n, "none", 0) \/ UNCHANGED pending
  BY DEF Group!RemoveMember
<1>2. Controls' /\ control'.op = Nil BY <1>1, WorkDone
<1>3. n \in Host /\ (Votes(n) => Spare) BY <1>1 DEF GroupInv, GroupShape, Controls, WorkRight, Group!Work
<1>4. requests' \in [Host -> Asking \cup {Nil}] BY <1>1 DEF GroupInv, GroupShape
<1>5. CASE Group!Propose(n, "none", 0)
  <2>1. pending' \in Group!Change /\ pending'.node = n /\ pending'.role = "none"
    BY <1>3, <1>5 DEF Group!Propose, Group!Change, Group!Place
  <2> QED BY <1>1, <1>2, <1>3, <1>4, <2>1, ProposeKept
<1>6. CASE UNCHANGED pending
  <2>1. GroupShape' BY <1>1, <1>2, <1>4, <1>6 DEF GroupInv, GroupShape
  <2> QED BY <1>1, <1>2, <1>6, <2>1, GroupStays DEF GroupInv
<1> QED BY <1>1, <1>5, <1>6

LEMMA GroupNext == ASSUME GroupInv, [Group!Next]_(Group!vars) PROVE GroupInv'
<1>1. CASE UNCHANGED Group!vars
  <2>1. UNCHANGED <<config, pending, records, floor, hosts, control, requests>> BY <1>1 DEF Group!vars
  <2>2. GroupShape' BY <2>1 DEF GroupInv, GroupShape, Controls
  <2> QED BY <2>1, <2>2, GroupStays DEF GroupInv
<1>2. CASE Group!Next
  BY <1>2, CommitChangeKept, StaleKept, PromoteKept, RetireKept, RemoveMemberKept, ReconcileKept,
     ReplicateMemberKept, StopKept, GraceKept, AdmitMemberKept, AdmitCommitKept, AdmitFinishKept, ElectKept,
     ReturnKept DEF Group!Next
<1> QED BY <1>1, <1>2

\* What the controller and the change under way rely on holds in every reachable state.
THEOREM GroupInvariance == Group!Spec => []GroupInv
<1>1. GroupInv /\ [Group!Next]_(Group!vars) => GroupInv' BY GroupNext
<1> QED BY <1>1, GroupInit, PTL DEF Group!Spec

-----------------------------------------------------------------------------
(* Votes *)

\* Votes change with a change of the configuration, and then by one.
LEMMA VotesChange ==
  ASSUME GroupInv, [Group!Next]_(Group!vars), Group!Voters' # Group!Voters
  PROVE  /\ pending # Nil /\ pending.node \in Host /\ UNCHANGED floor
         /\ pending.role = "voter" => Group!Voters' = Group!Voters \cup {pending.node}
         /\ pending.role # "voter" => Group!Voters' = Group!Voters \ {pending.node}
<1>1. config' # config BY DEF Group!Voters
<1>2. pending # Nil /\ config' = Group!Changed(pending) /\ UNCHANGED floor
  BY <1>1 DEF Group!Next, Group!vars, Group!CommitChange, Group!Stale, Group!Promote, Group!Retire,
     Group!RemoveMember, Group!Reconcile, Group!Replicate, Group!Stop, Group!Grace, Group!Admit,
     Group!AdmitCommit, Group!AdmitFinish, Group!Elect, Group!Return
<1> QED BY <1>2, ChangedVoters

\* Whoever leads and whatever is in flight, a voter is removed only while the policy's number
\* of voters remains.
THEOREM FloorStaysKept == Group!Spec => FloorKept
<1>1. ASSUME GroupInv, [Group!Next]_(Group!vars)
      PROVE  [Group!Cardinality(Group!Voters') < Group!Cardinality(Group!Voters)
                => Group!Cardinality(Group!Voters') >= floor]_(Group!vars)
  <2> SUFFICES ASSUME Group!Cardinality(Group!Voters') < Group!Cardinality(Group!Voters)
               PROVE  Group!Cardinality(Group!Voters') >= floor
    OBVIOUS
  <2>1. Group!Voters \in SUBSET Host /\ Group!Cardinality(Group!Voters) \in Nat
    BY Counted DEF Group!Voters
  <2>2. Group!Voters' # Group!Voters BY <2>1
  <2>3. /\ pending # Nil /\ pending.node \in Host
        /\ pending.role = "voter" => Group!Voters' = Group!Voters \cup {pending.node}
        /\ pending.role # "voter" => Group!Voters' = Group!Voters \ {pending.node}
    BY <1>1, <2>2, VotesChange
  <2>4. pending.role # "voter"
    <3> SUFFICES ASSUME pending.role = "voter" PROVE FALSE OBVIOUS
    <3>1. Group!Cardinality(Group!Voters') >= Group!Cardinality(Group!Voters) BY <2>1, <2>3, OneMore
    <3>2. Group!Cardinality(Group!Voters') \in Nat BY <2>1, <2>3, Counted
    <3> QED BY <2>1, <3>1, <3>2
  <2>5. pending.node \in Group!Voters BY <2>2, <2>3, <2>4
  <2>6. Spare BY <1>1, <2>3, <2>4, <2>5 DEF GroupInv, ChangeRight, Votes, Group!Voters
  <2>7. Group!Cardinality(Group!Voters') = Group!Cardinality(Group!Voters) - 1
    BY <2>1, <2>3, <2>4, <2>5, OneLess
  <2>8. floor \in Nat BY <1>1, HistoriesAssumption DEF GroupInv, GroupShape, Group!MembershipAssumption
  <2> QED BY <2>1, <2>6, <2>7, <2>8 DEF Spare
<1> QED BY <1>1, GroupInvariance, PTL DEF Group!Spec, FloorKept, Group!FloorKept

\* A node that gets a vote has an admission that was not retired, whenever it was decided.
THEOREM VotesAdmitted == Group!Spec => VoteAdmitted
<1>1. ASSUME GroupInv, [Group!Next]_(Group!vars)
      PROVE  [\A n \in Group!Voters' \ Group!Voters : ~ records[n].retired]_(Group!vars)
  <2> SUFFICES ASSUME NEW n \in Group!Voters' \ Group!Voters PROVE ~ records[n].retired
    OBVIOUS
  <2>1. n = pending.node /\ pending # Nil /\ pending.role = "voter" /\ n \in Host
    BY <1>1, VotesChange
  <2>2. ~ Votes(n) BY <2>1 DEF Votes, Group!Voters
  <2> QED BY <1>1, <2>1, <2>2 DEF GroupInv, ChangeRight, Admitted
<1> QED BY <1>1, GroupInvariance, PTL DEF Group!Spec, VoteAdmitted, Group!VoteAdmitted
=============================================================================
