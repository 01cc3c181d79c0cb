------------------------------- MODULE Genesis -------------------------------
(***************************************************************************)
(* How a deployment gets its first Raft history: internal/cluster          *)
(* automatic.go.                                                           *)
(*                                                                         *)
(* Nodes appear in discovery one after the other and learn the list at     *)
(* their own pace.  Every node refreshes the list and ticks; the one of    *)
(* the lowest rank asks all others, one by one, and starts a history only  *)
(* if they are empty and see the same list.  A node is a number: its rank. *)
(* Discovery loses nobody: where it does, the marker on the shared volume  *)
(* is all there is, and it reaches the other nodes only in time.           *)
(***************************************************************************)
EXTENDS Naturals, Sequences

CONSTANTS
    Node,
    MaxCrash,  \* bound: crashes and resets
    None

GenesisAssumption == Node \subseteq Nat /\ MaxCrash \in Nat

VARIABLES
    order,    \* the nodes in the order discovery came to list them
    known,    \* known[n]: how much of the list n has been told
    disk,     \* disk[n]: log, intent, primary-history.json; marker: its copy of the volume
    proc,     \* proc[n]: a.view, whether it is stable, and the tick in progress
    founders, \* ghost: the nodes that called BootstrapCluster
    crashes

vars == <<order, known, disk, proc, founders, crashes>>

Fresh == [view |-> 0, stable |-> FALSE, tick |-> None]

Init ==
    /\ order = <<>>
    /\ known = [n \in Node |-> 0]
    /\ disk = [n \in Node |-> [log |-> FALSE, intent |-> FALSE, history |-> FALSE, marker |-> FALSE]]
    /\ proc = [n \in Node |-> Fresh]
    /\ founders = {} /\ crashes = 0

\* The first k nodes of the list.
List(k) == {order[i] : i \in 1..k}

Listed == List(Len(order))

Appear(n) ==
    /\ n \notin Listed
    /\ order' = Append(order, n)
    /\ UNCHANGED <<known, disk, proc, founders, crashes>>

-----------------------------------------------------------------------------
(* tick *)

\* The part before anyone is asked.  A node with a log leaves evidence and is done.
Tick(n, k) ==
    /\ proc[n].tick = None
    /\ k >= known[n]
    /\ known' = [known EXCEPT ![n] = k]
    /\ LET stable    == proc[n].stable /\ proc[n].view = k
           candidate == n \in List(k) /\ \A m \in List(k) : n <= m
           goes      == ~ disk[n].log /\ stable /\ candidate /\ ~ disk[n].history IN
       /\ proc' = [proc EXCEPT ![n] = [view |-> k, stable |-> stable,
                                       tick |-> IF goes THEN [asked |-> {n}, ready |-> FALSE] ELSE None]]
       /\ disk' = IF disk[n].log /\ n \in List(k)
                  THEN [disk EXCEPT ![n].history = TRUE, ![n].marker = TRUE] ELSE disk
    /\ UNCHANGED <<order, founders, crashes>>

\* The view has stayed the same for 30 seconds.
Settle(n) ==
    /\ proc[n].tick = None /\ proc[n].view > 0 /\ ~ proc[n].stable
    /\ proc' = [proc EXCEPT ![n].stable = TRUE]
    /\ UNCHANGED <<order, known, disk, founders, crashes>>

\* Mutant: the other node's list is not compared.
AgreesEmpty(n, m) == ~ disk[m].log

\* The answer to a probe: an empty log and the same BootstrapView.
Agrees(n, m) == ~ disk[m].log /\ proc[m].view = proc[n].view

Probe(n, m) ==
    /\ proc[n].tick # None /\ m \in List(proc[n].view) \ proc[n].tick.asked
    /\ proc' = [proc EXCEPT ![n].tick =
                    IF Agrees(n, m) THEN [asked |-> proc[n].tick.asked \cup {m}, ready |-> FALSE] ELSE None]
    /\ UNCHANGED <<order, known, disk, founders, crashes>>

\* The marker is looked for, then the intent is made durable.
Intend(n) ==
    /\ proc[n].tick # None /\ proc[n].tick.asked = List(proc[n].view) /\ ~ proc[n].tick.ready
    /\ IF disk[n].marker
       THEN proc' = [proc EXCEPT ![n].tick = None] /\ UNCHANGED disk
       ELSE /\ proc' = [proc EXCEPT ![n].tick.ready = TRUE]
            /\ disk' = [disk EXCEPT ![n].intent = TRUE]
    /\ UNCHANGED <<order, known, founders, crashes>>

\* BootstrapCluster refuses a node that has received a log in the meantime.  The marker
\* comes after it: the process may stop first, and the next tick writes it.
Bootstrap(n) ==
    /\ proc[n].tick # None /\ proc[n].tick.ready
    /\ disk' = [disk EXCEPT ![n].log = TRUE]
    /\ proc' = [proc EXCEPT ![n].tick = None]
    /\ founders' = IF disk[n].log THEN founders ELSE founders \cup {n}
    /\ UNCHANGED <<order, known, crashes>>

\* A probe fails or the tick's 15 seconds are over.
Abandon(n) ==
    /\ proc[n].tick # None
    /\ proc' = [proc EXCEPT ![n].tick = None]
    /\ UNCHANGED <<order, known, disk, founders, crashes>>

-----------------------------------------------------------------------------
(* Around it *)

\* The volume brings the marker to another node.
Sync(n, m) ==
    /\ disk[m].marker /\ ~ disk[n].marker
    /\ disk' = [disk EXCEPT ![n].marker = TRUE]
    /\ UNCHANGED <<order, known, proc, founders, crashes>>

\* Enrolment: an empty node that discovery lists receives the history of another.
Join(n, m) ==
    /\ n \in Listed /\ disk[m].log /\ ~ disk[n].log
    /\ disk' = [disk EXCEPT ![n].log = TRUE]
    /\ UNCHANGED <<order, known, proc, founders, crashes>>

Crash(n) ==
    /\ crashes < MaxCrash /\ proc[n] # Fresh
    /\ crashes' = crashes + 1
    /\ proc' = [proc EXCEPT ![n] = Fresh]
    /\ UNCHANGED <<order, known, disk, founders>>

\* Long after, a superseded history is moved away; the evidence stays.
Reset(n, m) ==
    /\ \A p \in Node : proc[p].tick = None /\ known[p] = Len(order)
    /\ crashes < MaxCrash /\ n # m /\ disk[m].log /\ disk[n].log /\ disk[n].history
    /\ crashes' = crashes + 1
    /\ disk' = [disk EXCEPT ![n].log = FALSE]
    /\ proc' = [proc EXCEPT ![n] = Fresh]
    /\ UNCHANGED <<order, known, founders>>

-----------------------------------------------------------------------------
Next ==
    \E n \in Node :
        \/ Appear(n) \/ Settle(n) \/ Intend(n) \/ Bootstrap(n) \/ Abandon(n) \/ Crash(n)
        \/ \E k \in 1..Len(order) : Tick(n, k)
        \/ \E m \in Node : Probe(n, m) \/ Sync(n, m) \/ Join(n, m) \/ Reset(n, m)

Spec == Init /\ [][Next]_vars

-----------------------------------------------------------------------------
\* "A unanimous fresh discovery": although every node learns the list at another time
\* and asks the others one by one, at most one of them ever founds a history.
OneGenesis == \A m, n \in founders : m = n
=============================================================================
