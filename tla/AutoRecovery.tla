---------------------------- MODULE AutoRecovery ----------------------------
(***************************************************************************)
(* Guarded automatic recovery: internal/cluster auto_recovery.go,          *)
(* auto_recovery_policy.go, recovery_view.go, leader_conflicts.go and the  *)
(* recovery branch of Runtime's control loop.                              *)
(*                                                                         *)
(* Some members survive; the rest, which is a majority of the voters, goes *)
(* and may come back.  Every survivor samples: it fetches the list of      *)
(* addresses, asks every listed node for its view, one after the other,    *)
(* and picks a winner.  After a long enough series of equal samples the    *)
(* winner samples once more, closes Raft and requests its own recovery.    *)
(* A survivor is a number: its rank.                                       *)
(***************************************************************************)
EXTENDS Integers, FiniteSets

CONSTANTS
    Survivor,   \* members that survive, by rank
    Learner,    \* those of them without a vote
    Window,     \* samples that satisfy the evidence window (30 minutes)
    MaxPos,     \* bound: positions of the log
    MaxChange,  \* bound: changes of the surroundings
    None

VARIABLES
    listed,   \* the survivors that discovery lists
    rest,     \* the rest: whether it is up, is listed, and its log
    policy,   \* the signed policy on the shared volume
    node,     \* node[n]: the survivor's process and state
    recovered,\* ghost: the recoveries carried out
    changes

vars == <<listed, rest, policy, node, recovered, changes>>

Rest == 0   \* the address that stands for the rest

\* contact: a leader is known; view: recoveryDetails.view; count: samples since
\* m.since; plan: m.fingerprint; signature: m.policyFingerprint; missing: samples
\* since m.missingSince; conflict: leaderConflict.
Fresh == [up |-> TRUE, pos |-> 1, gen |-> 0, contact |-> TRUE, view |-> None,
          count |-> 0, plan |-> None, signature |-> None, missing |-> 0, fenced |-> FALSE,
          control |-> FALSE, eval |-> None, left |-> 0, closing |-> None, request |-> None,
          conflict |-> 0, cooling |-> FALSE]

Init ==
    /\ listed = Survivor
    /\ rest = [up |-> TRUE, listed |-> TRUE, pos |-> 1]
    /\ policy = [mode |-> "on", version |-> 1]
    /\ node = [n \in Survivor |-> Fresh]
    /\ recovered = {} /\ changes = 0

Running(n) == node[n].up /\ node[n].closing = None
Addresses  == listed \cup (IF rest.listed THEN {Rest} ELSE {})

-----------------------------------------------------------------------------
(* The surroundings *)

Surroundings ==
    /\ changes < MaxChange
    /\ changes' = changes + 1
    /\ \/ /\ \E up, known \in BOOLEAN : rest' = [rest EXCEPT !.up = up, !.listed = known]
          /\ rest' # rest /\ UNCHANGED <<listed, policy>>
       \/ /\ \E n \in Survivor : listed' = (listed \cup {n}) \ (listed \cap {n})
          /\ UNCHANGED <<rest, policy>>
       \/ /\ \E mode \in {"on", "observe", "off"} :
                policy' = [mode |-> mode, version |-> policy.version + 1]
          /\ UNCHANGED <<listed, rest>>
    /\ UNCHANGED <<node, recovered>>

\* The rest elects a leader: a survivor of the same history hears from it.
Append(n) ==
    /\ rest.up /\ Running(n) /\ node[n].gen = 0 /\ rest.pos < MaxPos
    /\ rest' = [rest EXCEPT !.pos = @ + 1]
    /\ node' = [node EXCEPT ![n].pos = rest.pos + 1, ![n].contact = TRUE]
    /\ UNCHANGED <<listed, policy, recovered, changes>>

LoseContact(n) ==
    /\ ~ rest.up /\ node[n].contact /\ node[n].gen = 0
    /\ node' = [node EXCEPT ![n].contact = FALSE]
    /\ UNCHANGED <<listed, rest, policy, recovered, changes>>

-----------------------------------------------------------------------------
(* recoveryManager.tick *)

ResetWindow(s) == [s EXCEPT !.count = 0, !.plan = None]

\* A changed policy or a gap between samples starts the evidence afresh; then the
\* list is fetched.  A node that is not on it counts its own absence.
Sampled(s, gap) ==
    LET kept == IF s.signature # policy.version \/ gap
                THEN [ResetWindow(s) EXCEPT !.missing = 0] ELSE s
        calm == IF policy.mode # "on" THEN [kept EXCEPT !.fenced = FALSE] ELSE kept
    IN  [calm EXCEPT !.signature = policy.version]

Blind(s)  == [ResetWindow(s) EXCEPT !.missing = 0, !.view = None]
Absent(s) ==
    [ResetWindow(s) EXCEPT
        !.view = Addresses,
        !.missing = IF s.missing < Window THEN s.missing + 1 ELSE Window,
        !.fenced = s.fenced \/ (s.missing + 1 >= Window /\ policy.mode = "on")]
Listed(s) == [s EXCEPT !.view = Addresses, !.missing = 0, !.fenced = FALSE]

\* The checks on the node itself, before anyone is asked: no leader, no conflict,
\* nothing pending, no recovery in the last 24 hours.
OwnChecks(n) ==
    /\ node[n].conflict < 2
    /\ ~ node[n].contact /\ ~ node[n].cooling /\ node[n].request = None

Evaluation(kind) == [kind |-> kind, list |-> Addresses, got |-> {}]

Tick(n, fetched, gap) ==
    /\ Running(n) /\ node[n].eval = None
    /\ LET s == Sampled(node[n], gap) IN
       node' = [node EXCEPT ![n] =
            IF policy.mode = "off" \/ ~ fetched \/ Addresses = {} THEN Blind(s)
            ELSE IF n \notin listed THEN Absent(s)
            ELSE IF ~ OwnChecks(n)  THEN ResetWindow(Listed(s))
            ELSE [Listed(s) EXCEPT !.eval = Evaluation("tick"), !.left = Window - 1]]
    /\ UNCHANGED <<listed, rest, policy, recovered, changes>>

-----------------------------------------------------------------------------
(* evaluate *)

\* probeRecoveryView: what a node says of itself.
View(m) == [node |-> m, pos |-> node[m].pos, gen |-> node[m].gen, contact |-> node[m].contact,
            view |-> node[m].view, voter |-> m \notin Learner]

Probe(n, m) ==
    /\ Running(n) /\ node[n].eval # None
    /\ m \in node[n].eval.list \cap Survivor /\ Running(m)
    /\ \A v \in node[n].eval.got : v.node # m
    /\ node' = [node EXCEPT ![n].eval.got = @ \cup {View(m)}]
    /\ UNCHANGED <<listed, rest, policy, recovered, changes>>

\* recoveryWinner: voters first, then the longer log, then the lower rank.
Ahead(v, w) ==
    IF v.voter # w.voter THEN v.voter
    ELSE IF v.pos # w.pos THEN v.pos > w.pos
    ELSE v.node < w.node

Winner(got) == CHOOSE v \in got : \A w \in got \ {v} : Ahead(v, w)

\* Mutant: those that answer are enough.
AgreedReachable(n) ==
    LET e == node[n].eval IN
    /\ n \in {v.node : v \in e.got}
    /\ \A v \in e.got : ~ v.contact /\ v.view = e.list /\ v.gen <= node[n].gen

\* Everyone listed answers, knows no leader, sees the same list and has no later or
\* conflicting history.
Agreed(n) ==
    LET e == node[n].eval IN
    /\ {v.node : v \in e.got} = e.list
    /\ \A v \in e.got : /\ ~ v.contact /\ v.view = e.list
                        /\ v.gen <= node[n].gen

\* The rest, a majority, is neither listed nor reachable; then the node looks again
\* whether a leader has reappeared.  A recovered history has no one to miss.
Bereft(n) == node[n].gen = 0 /\ Rest \notin node[n].eval.list /\ ~ rest.up /\ ~ node[n].contact

Plan(n) == [view |-> node[n].eval.list, winner |-> Winner(node[n].eval.got).node, gen |-> node[n].gen]

\* While a node evaluates, or closes Raft after it, the others end fewer samples than
\* a window has: both have time limits far shorter than the window.
Busy(m)   == node[m].eval # None \/ node[m].closing # None
Paused(n) == \A m \in Survivor \ {n} : Busy(m) => node[m].left > 0
Waited(n) == [m \in Survivor |->
    IF m # n /\ Busy(m) THEN [node[m] EXCEPT !.left = @ - 1] ELSE node[m]]

\* The end of a sample: evidence is collected while the plan stays the same.
Decide(n) ==
    /\ Running(n) /\ node[n].eval # None /\ node[n].eval.kind = "tick"
    /\ Agreed(n) /\ Bereft(n) /\ Paused(n)
    /\ LET same  == Plan(n) = node[n].plan
           count == IF ~ same THEN 1 ELSE IF node[n].count < Window THEN node[n].count + 1 ELSE Window
       IN node' = [Waited(n) EXCEPT ![n].eval = None, ![n].left = 0, ![n].plan = Plan(n), ![n].count = count,
                    ![n].control = @ \/ (count = Window /\ policy.mode = "on" /\ Plan(n).winner = n)]
    /\ UNCHANGED <<listed, rest, policy, recovered, changes>>

\* Any disagreement, time-out or failed probe ends the sample.
Defer(n) ==
    /\ Running(n) /\ node[n].eval # None
    /\ node' = [node EXCEPT ![n] = [ResetWindow(@) EXCEPT !.eval = None, !.left = 0,
                                                         !.control = @ /\ node[n].eval.kind = "tick"]]
    /\ UNCHANGED <<listed, rest, policy, recovered, changes>>

-----------------------------------------------------------------------------
(* performRecovery *)

\* Runtime takes the control message: everything is sampled once more.
Perform(n) ==
    /\ Running(n) /\ node[n].control /\ node[n].eval = None
    /\ node' = [node EXCEPT ![n] =
            IF policy.mode = "on" /\ policy.version = node[n].signature /\ node[n].count = Window
               /\ n \in listed /\ OwnChecks(n)
            THEN [@ EXCEPT !.eval = Evaluation("perform"), !.left = Window - 1]
            ELSE [ResetWindow(@) EXCEPT !.control = FALSE]]
    /\ UNCHANGED <<listed, rest, policy, recovered, changes>>

\* The last check of policy and conflict; then Close begins.  The list is still the
\* one that was fetched for the evaluation, unless an entry expired, which defers.
Confirm(n) ==
    /\ Running(n) /\ node[n].eval # None /\ node[n].eval.kind = "perform"
    /\ Agreed(n) /\ Bereft(n) /\ Plan(n) = node[n].plan /\ Plan(n).winner = n
    /\ policy.mode = "on" /\ policy.version = node[n].signature
    /\ node[n].conflict < 2
    /\ node' = [node EXCEPT ![n].closing = Winner(node[n].eval.got).pos,
                            ![n].eval = None]
    /\ UNCHANGED <<listed, rest, policy, recovered, changes>>

\* Raft is closed, the position is compared, and the request is linked into place
\* unless one is there; the process ends in any case.
Closed(n, late) ==
    /\ node[n].closing # None
    /\ LET moved == late /\ rest.up /\ rest.pos < MaxPos
           pos   == IF moved THEN rest.pos + 1 ELSE node[n].pos IN
       /\ node' = [node EXCEPT ![n] =
            [@ EXCEPT !.up = FALSE, !.closing = None, !.left = 0, !.pos = pos, !.control = FALSE,
                      !.request = IF pos = node[n].closing THEN node[n].plan ELSE None]]
       /\ rest' = IF moved THEN [rest EXCEPT !.pos = @ + 1] ELSE rest
    /\ UNCHANGED <<listed, policy, recovered, changes>>

Crash(n) ==
    /\ node[n].up /\ changes < MaxChange
    /\ changes' = changes + 1
    /\ node' = [node EXCEPT ![n].up = FALSE, ![n].closing = None, ![n].eval = None, ![n].left = 0,
                            ![n].control = FALSE]
    /\ UNCHANGED <<listed, rest, policy, recovered>>

\* start: a request makes the node the only voter of a history of its own.
Restart(n) ==
    /\ ~ node[n].up
    /\ LET s == [Fresh EXCEPT !.pos = node[n].pos, !.gen = node[n].gen, !.contact = node[n].gen > 0,
                              !.cooling = node[n].cooling] IN
       IF node[n].request = None
       THEN node' = [node EXCEPT ![n] = s] /\ UNCHANGED recovered
       ELSE /\ node' = [node EXCEPT ![n] = [s EXCEPT !.contact = TRUE, !.cooling = TRUE,
                                                     !.gen = Cardinality(recovered) + 1]]
            /\ recovered' = recovered \cup {[node |-> n, plan |-> node[n].request]}
    /\ UNCHANGED <<listed, rest, policy, changes>>

-----------------------------------------------------------------------------
(* leaderConflict.observe: a completed round of observations *)

\* The leaders that answer: the rest's, and every recovered node.
Leaders == {m \in Survivor : Running(m) /\ node[m].gen > 0} \cup (IF rest.up THEN {Rest} ELSE {})

\* Two consecutive rounds with several leaders latch; a sustained series with exactly
\* one clears.
Observe(n, clear) ==
    /\ Running(n)
    /\ LET c == node[n].conflict
           several == Cardinality(Leaders) > 1
           next == IF several THEN IF c < 2 THEN c + 1 ELSE 2
                   ELSE IF c = 2 /\ ~ (clear /\ Cardinality(Leaders) = 1) THEN 2
                   ELSE 0
       IN next # c /\ node' = [node EXCEPT ![n].conflict = next]
    /\ UNCHANGED <<listed, rest, policy, recovered, changes>>

-----------------------------------------------------------------------------
Next ==
    \/ Surroundings
    \/ \E n \in Survivor :
        \/ Append(n) \/ LoseContact(n) \/ Decide(n) \/ Defer(n) \/ Perform(n) \/ Confirm(n)
        \/ Crash(n) \/ Restart(n)
        \/ \E flag \in BOOLEAN : Closed(n, flag) \/ Observe(n, flag)
        \/ \E fetched, gap \in BOOLEAN : Tick(n, fetched, gap)
        \/ \E m \in Survivor : Probe(n, m)

Spec == Init /\ [][Next]_vars

-----------------------------------------------------------------------------
\* "All peers use that rule": of the nodes that see one list of one history at most
\* one carries out an automatic recovery, although each collects its evidence alone.
RecoveredOnce ==
    \A r, s \in recovered :
        r.plan.view = s.plan.view /\ r.plan.gen = s.plan.gen => r.node = s.node
=============================================================================
