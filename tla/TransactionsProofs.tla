------------------------- MODULE TransactionsProofs -------------------------
(***************************************************************************)
(* Transactions implements AtomicStore, for any number of clients, nodes,  *)
(* keys, attempts and writes.                                              *)
(*                                                                         *)
(* The argument: an index is given to one state of the records only, also  *)
(* when local writes were lost, so what was read under the present stamp   *)
(* is what the store holds.  A transaction takes effect at most once       *)
(* because the answer to an applied write ends the transaction, unless it  *)
(* is not_leader, which the abstract store notes.  And a replicated write  *)
(* leaves nothing before it that the view could be set back to.            *)
(***************************************************************************)
EXTENDS Transactions, SequenceTheorems, TLAPS

Call == {"idle", "open", "ok", "refused", "unknown"}
Seen == [Key -> Nat]
ViewRec == [store : Seen, index : Nat]
StampRec == Nat \X BOOLEAN \X Nat

TxRec == [call : Call, kind : {"reader", "snapshot", "writer", "content", None}, attempt : Nat,
          reads : [Key -> Nat \cup {None}], stamp : StampRec \cup {None},
          legacy : BOOLEAN, saw : Seen \cup {None}, late : BOOLEAN]

Req == [at : Node, hop : {0, 1}, key : Key, delete : BOOLEAN,
        answer : {"ok", "conflict", "not_leader", None}, hint : Node \cup {None}]

\* None stands for what was not read, stamped, seen, chosen or sent.
Premises ==
    None \notin StampRec \cup Seen \cup Req \cup {"ok", "conflict", "not_leader", "content"}

Shape ==
    /\ views \in Seq(ViewRec) /\ Len(views) > 0
    /\ issued \in Nat /\ rebuilt \in BOOLEAN /\ term \in Nat /\ leader \in Node \cup {None}
    /\ tx \in [Client -> TxRec] /\ net \in [Client -> Req \cup {None}]
    /\ cache \in [Client -> Node \cup {None}]

\* No two views have the same index, and none that of a write still to come.
ViewsOrdered ==
    /\ \A i \in 1..Len(views) : views[i].index <= issued
    /\ \A i, j \in 1..Len(views) : i < j => views[i].index < views[j].index

\* Everything in reads was read from v.
ReadFrom(reads, v) == \A k \in Key : reads[k] = None \/ reads[k] = v.store[k]

\* A stamp is not of the future, and what was read under it is what the view with
\* its index holds, if the leader still may go back to that view.
StampCurrent(c) ==
    ~tx[c].legacy =>
        /\ tx[c].stamp = None => tx[c].reads = Unread
        /\ tx[c].stamp # None =>
            /\ tx[c].stamp[3] <= issued
            /\ \A i \in 1..Len(views) :
                tx[c].stamp[3] = views[i].index => ReadFrom(tx[c].reads, views[i])

\* A transaction has taken effect once it returned success or its commit was
\* answered; a request on its way is of one that has not.
EffectOnce(c) ==
    /\ tx[c].call \in {"idle", "refused"} => tx[c].saw = None
    /\ tx[c].call = "idle" => ~tx[c].late
    /\ tx[c].call = "open" /\ tx[c].saw # None => net[c] # None
    /\ net[c] # None =>
        /\ tx[c].call \in {"open", "unknown"}
        /\ net[c].answer = "ok" => tx[c].saw # None
        /\ tx[c].saw # None => net[c].answer = "ok" \/ (net[c].answer = "not_leader" /\ tx[c].late)

ClientInv(c) == StampCurrent(c) /\ EffectOnce(c)

Inv == Shape /\ ViewsOrdered /\ \A c \in Client : ClientInv(c)

-----------------------------------------------------------------------------
(* The leader's views, here and in the abstract store *)

Stores == [i \in DOMAIN views |-> views[i].store]

\* The view is the last of the views.
LEMMA StoresAre ==
  ASSUME Shape
  PROVE  /\ DOMAIN views = 1..Len(views) /\ Len(views) \in 1..Len(views)
         /\ Stores \in Seq(Seen) /\ Len(Stores) = Len(views)
         /\ \A i \in 1..Len(views) : Stores[i] = views[i].store /\ views[i] \in ViewRec
         /\ store \in Seen /\ store = Stores[Len(Stores)] /\ view \in ViewRec
<1>1. DOMAIN views = 1..Len(views) /\ Len(views) \in Nat /\ Len(views) > 0 BY DEF Shape
<1>2. \A i \in 1..Len(views) : views[i] \in ViewRec BY <1>1 DEF Shape
<1>3. Stores = [i \in 1..Len(views) |-> views[i].store] BY <1>1 DEF Stores
<1>4. \A i \in 1..Len(views) : views[i].store \in Seen BY <1>2 DEF ViewRec
<1>5. Stores \in [1..Len(views) -> Seen] BY <1>3, <1>4
<1>6. Stores \in Seq(Seen) /\ Len(Stores) = Len(views) BY <1>1, <1>5
<1>7. Len(views) \in 1..Len(views) BY <1>1
<1>8. \A i \in 1..Len(views) : Stores[i] = views[i].store BY <1>3
<1>9. view \in ViewRec /\ store = Stores[Len(Stores)] BY <1>2, <1>6, <1>7, <1>8 DEF store, view
<1>10. store \in Seen BY <1>9 DEF store, ViewRec
<1> QED BY <1>1, <1>2, <1>6, <1>7, <1>8, <1>9, <1>10

-----------------------------------------------------------------------------
(* One client's step, here and in the abstract store *)

Abstractly == Abstract!Next \/ UNCHANGED Abstract!vars

\* The abstract store is the view.
LEMMA StoreIs == ASSUME Shape PROVE Abstract!store = store
BY StoresAre DEF Abstract!store, Stores

\* A step of client c that leaves the store alone concerns nobody else.
LEMMA ClientStep ==
  ASSUME Inv, NEW c \in Client, NEW t \in TxRec, NEW m \in Req \cup {None},
         tx' = [tx EXCEPT ![c] = t], net' = [net EXCEPT ![c] = m],
         cache' \in [Client -> Node \cup {None}],
         UNCHANGED <<views, issued, rebuilt, term, leader>>, ClientInv(c)'
  PROVE  Inv'
<1>1. Shape' BY DEF Inv, Shape
<1>2. ASSUME NEW d \in Client PROVE ClientInv(d)'
  <2>1. CASE d = c BY <2>1
  <2>2. CASE d # c
    <3>1. tx'[d] = tx[d] /\ net'[d] = net[d] BY <2>2 DEF Inv, Shape
    <3> QED BY <3>1 DEF Inv, ClientInv, StampCurrent, EffectOnce
  <2> QED BY <2>1, <2>2
<1>3. ViewsOrdered' BY DEF Inv, ViewsOrdered
<1> QED BY <1>1, <1>2, <1>3 DEF Inv

\* What the refinement mapping makes of it.
LEMMA MappedStep ==
  ASSUME Shape, NEW c \in Client, NEW t \in TxRec, tx' = [tx EXCEPT ![c] = t], t.kind = tx[c].kind
  PROVE  /\ [d \in Client |-> tx'[d].call] = [[d \in Client |-> tx[d].call] EXCEPT ![c] = t.call]
         /\ [d \in Client |-> tx'[d].saw] = [[d \in Client |-> tx[d].saw] EXCEPT ![c] = t.saw]
         /\ [d \in Client |-> tx'[d].saw # None] =
              [[d \in Client |-> tx[d].saw # None] EXCEPT ![c] = t.saw # None]
         /\ [d \in Client |-> tx'[d].late] = [[d \in Client |-> tx[d].late] EXCEPT ![c] = t.late]
         /\ UNCHANGED [d \in Client |-> tx[d].kind = "content"]
<1>1. tx'[c] = t /\ \A d \in Client : d # c => tx'[d] = tx[d] BY DEF Shape
<1>2. [d \in Client |-> tx'[d].call] = [[d \in Client |-> tx[d].call] EXCEPT ![c] = t.call]
  <2>1. \A d \in Client : tx'[d].call = IF d = c THEN t.call ELSE tx[d].call BY <1>1
  <2> QED BY <2>1
<1>3. [d \in Client |-> tx'[d].saw] = [[d \in Client |-> tx[d].saw] EXCEPT ![c] = t.saw]
  <2>1. \A d \in Client : tx'[d].saw = IF d = c THEN t.saw ELSE tx[d].saw BY <1>1
  <2> QED BY <2>1
<1>4. [d \in Client |-> tx'[d].saw # None] =
        [[d \in Client |-> tx[d].saw # None] EXCEPT ![c] = t.saw # None]
  BY <1>1, Zenon
<1>5. [d \in Client |-> tx'[d].late] = [[d \in Client |-> tx[d].late] EXCEPT ![c] = t.late]
  <2>1. \A d \in Client : tx'[d].late = IF d = c THEN t.late ELSE tx[d].late BY <1>1
  <2> QED BY <2>1
<1>6. \A d \in Client : tx'[d].kind = tx[d].kind BY <1>1
<1>7. UNCHANGED [d \in Client |-> tx[d].kind = "content"] BY <1>6
<1> QED BY <1>2, <1>3, <1>4, <1>5, <1>7

\* Neither the call nor its effect: a stuttering step.
LEMMA StutterStep ==
  ASSUME Shape, NEW c \in Client, NEW t \in TxRec, tx' = [tx EXCEPT ![c] = t],
         t.call = tx[c].call, t.saw = tx[c].saw, t.kind = tx[c].kind, t.late = tx[c].late,
         UNCHANGED views
  PROVE  Abstractly
<1>1. \A d \in Client : /\ tx'[d].call = tx[d].call /\ tx'[d].saw = tx[d].saw
                        /\ tx'[d].kind = tx[d].kind /\ tx'[d].late = tx[d].late
  BY DEF Shape
<1> QED BY <1>1 DEF Abstractly, Abstract!vars

\* A read-only transaction that returns what the store holds.
LEMMA LookStep ==
  ASSUME Shape, NEW c \in Client, NEW t \in TxRec, tx' = [tx EXCEPT ![c] = t],
         tx[c].call = "open", tx[c].saw = None, t.call = "ok", t.saw = store, store # None,
         t.kind = tx[c].kind, t.late = tx[c].late, UNCHANGED views
  PROVE  Abstractly
<1>1. /\ [d \in Client |-> tx'[d].call] = [[d \in Client |-> tx[d].call] EXCEPT ![c] = "ok"]
      /\ [d \in Client |-> tx'[d].saw] = [[d \in Client |-> tx[d].saw] EXCEPT ![c] = Abstract!store]
  <2>1. /\ [d \in Client |-> tx'[d].call] = [[d \in Client |-> tx[d].call] EXCEPT ![c] = t.call]
        /\ [d \in Client |-> tx'[d].saw] = [[d \in Client |-> tx[d].saw] EXCEPT ![c] = t.saw]
    BY MappedStep
  <2>2. t.saw = Abstract!store BY StoreIs
  <2> HIDE DEF Abstract!store
  <2> QED BY <2>1, <2>2
<1>2. [d \in Client |-> tx'[d].saw # None] = [[d \in Client |-> tx[d].saw # None] EXCEPT ![c] = TRUE]
  <2>1. (t.saw # None) = TRUE OBVIOUS
  <2> QED BY <2>1, MappedStep
<1>3. \A d \in Client : tx'[d].kind = tx[d].kind /\ tx'[d].late = tx[d].late BY DEF Shape
<1>4. UNCHANGED <<Stores, [d \in Client |-> tx[d].kind = "content"], [d \in Client |-> tx[d].late]>>
  BY <1>3 DEF Stores
<1>5. Abstract!Look(c) BY <1>1, <1>2, <1>4 DEF Abstract!Look, Stores
<1> QED BY <1>5 DEF Abstractly, Abstract!Next

\* A call that returns.
LEMMA ReturnStep ==
  ASSUME Shape, NEW c \in Client, NEW t \in TxRec, tx' = [tx EXCEPT ![c] = t],
         tx[c].call = "open", t.saw = tx[c].saw, t.kind = tx[c].kind, t.late = tx[c].late,
         UNCHANGED views,
         \/ t.call = "ok" /\ t.saw # None
         \/ t.call = "refused" /\ t.saw = None
         \/ t.call = "unknown"
  PROVE  Abstractly
<1>1. \A d \in Client : /\ tx'[d].saw = tx[d].saw /\ tx'[d].kind = tx[d].kind
                        /\ tx'[d].late = tx[d].late
  BY DEF Shape
<1>2. UNCHANGED <<Stores, [d \in Client |-> tx[d].kind = "content"],
                  [d \in Client |-> tx[d].saw # None], [d \in Client |-> tx[d].saw],
                  [d \in Client |-> tx[d].late]>>
  BY <1>1 DEF Stores
<1>3. [d \in Client |-> tx'[d].call] = [[d \in Client |-> tx[d].call] EXCEPT ![c] = t.call]
  BY MappedStep
<1>4. Abstract!Return(c)
  <2>1. [d \in Client |-> tx[d].call][c] = "open" OBVIOUS
  <2>2. [d \in Client |-> tx[d].saw # None][c] <=> tx[c].saw # None OBVIOUS
  <2>3. CASE t.call = "ok" /\ t.saw # None
    BY <1>2, <1>3, <2>1, <2>2, <2>3, Zenon DEF Abstract!Return, Stores
  <2>4. CASE t.call = "refused" /\ t.saw = None
    BY <1>2, <1>3, <2>1, <2>2, <2>4, Zenon DEF Abstract!Return, Stores
  <2>5. CASE t.call = "unknown" BY <1>2, <1>3, <2>1, <2>5, Zenon DEF Abstract!Return, Stores
  <2> QED BY <2>3, <2>4, <2>5
<1> QED BY <1>4 DEF Abstractly, Abstract!Next

-----------------------------------------------------------------------------
(* Store.run *)

\* No transaction yet.
LEMMA Blank ==
  /\ Tx0 \in TxRec /\ Tx0.saw = None /\ ~Tx0.legacy /\ Tx0.stamp = None /\ Tx0.reads = Unread
  /\ Tx0.late = FALSE /\ Tx0.kind = None
<1>1. Unread \in [Key -> Nat \cup {None}] BY DEF Unread
<1> HIDE DEF Unread
<1> QED BY <1>1 DEF Tx0, TxRec, Call

\* A call that returned keeps its kind and its effect.
LEMMA ReturnedIs ==
  ASSUME NEW t \in TxRec, NEW call \in Call
  PROVE  /\ Returned(t, call) \in TxRec /\ Returned(t, call).call = call
         /\ Returned(t, call).saw = t.saw /\ Returned(t, call).kind = t.kind
         /\ Returned(t, call).late = t.late
         /\ ~Returned(t, call).legacy /\ Returned(t, call).stamp = None
         /\ Returned(t, call).reads = Unread
<1>1. Unread \in [Key -> Nat \cup {None}] BY DEF Unread
<1> HIDE DEF Unread
<1> QED BY <1>1 DEF Returned, Tx0, TxRec, Call

\* A transaction that starts over has read nothing; one that gives up did nothing.
LEMMA AgainIs ==
  ASSUME NEW t \in TxRec, t.saw = None
  PROVE  /\ Again(t) \in TxRec /\ Again(t).saw = None
         /\ Again(t).kind = t.kind /\ Again(t).late = t.late
         /\ Again(t).call \in {"open", "refused"}
         /\ ~Again(t).legacy /\ Again(t).stamp = None /\ Again(t).reads = Unread
<1>1. CASE t.attempt < Attempts
  <2>1. Again(t) = [call |-> "open", kind |-> t.kind, attempt |-> t.attempt + 1, reads |-> Unread,
                    stamp |-> None, legacy |-> FALSE, saw |-> None, late |-> t.late]
    BY <1>1 DEF Again, Tx0
  <2>2. Unread \in [Key -> Nat \cup {None}] BY DEF Unread
  <2> HIDE DEF Unread
  <2> QED BY <2>1, <2>2 DEF TxRec, Call
<1>2. CASE ~(t.attempt < Attempts)
  <2>1. Again(t) = Returned(t, "refused") BY <1>2 DEF Again
  <2> QED BY <2>1, ReturnedIs DEF Call
<1> QED BY <1>1, <1>2

\* A transaction without reads and without a request agrees with any store.
LEMMA NothingRead ==
  ASSUME NEW c \in Client, net'[c] = None, ~tx'[c].legacy, tx'[c].stamp = None,
         tx'[c].reads = Unread,
         tx'[c].call # "idle", tx'[c].call \in {"open", "refused"} => tx'[c].saw = None
  PROVE  ClientInv(c)'
BY DEF ClientInv, StampCurrent, EffectOnce

\* Run after a known conflict.
LEMMA AgainStep ==
  ASSUME Premises, Inv, NEW c \in Client, tx[c].call = "open", tx[c].saw = None,
         tx' = [tx EXCEPT ![c] = Again(tx[c])], net' = [net EXCEPT ![c] = None],
         cache' \in [Client -> Node \cup {None}], UNCHANGED <<views, issued, rebuilt, term, leader>>
  PROVE  Inv' /\ Abstractly
<1> DEFINE t == Again(tx[c])
<1>1. tx[c] \in TxRec /\ Shape BY DEF Inv, Shape
<1>2. /\ t \in TxRec /\ t.saw = None /\ t.kind = tx[c].kind /\ t.late = tx[c].late
      /\ t.call \in {"open", "refused"} /\ ~t.legacy /\ t.stamp = None /\ t.reads = Unread
  BY <1>1, AgainIs
<1> HIDE DEF t
<1>3. tx' = [tx EXCEPT ![c] = t] BY DEF t
<1>4. tx'[c] = t /\ net'[c] = None BY <1>1, <1>3 DEF Shape
<1>5. ClientInv(c)' BY <1>2, <1>4, NothingRead
<1>6. Inv' BY <1>2, <1>3, <1>5, ClientStep
<1>7. Abstractly
  <2>1. CASE t.call = "open" BY <1>1, <1>2, <1>3, <2>1, StutterStep
  <2>2. CASE t.call = "refused" BY <1>1, <1>2, <1>3, <2>2, ReturnStep
  <2> QED BY <1>2, <2>1, <2>2
<1> QED BY <1>6, <1>7

\* A transaction that returns without a request.
LEMMA ReturnedStep ==
  ASSUME Premises, Inv, NEW c \in Client, NEW call \in {"ok", "refused", "unknown"},
         tx[c].call = "open", call = "ok" => tx[c].saw # None, call = "refused" => tx[c].saw = None,
         tx' = [tx EXCEPT ![c] = Returned(tx[c], call)], net' = [net EXCEPT ![c] = None],
         cache' \in [Client -> Node \cup {None}], UNCHANGED <<views, issued, rebuilt, term, leader>>
  PROVE  Inv' /\ Abstractly
<1> DEFINE t == Returned(tx[c], call)
<1>1. tx[c] \in TxRec /\ Shape BY DEF Inv, Shape
<1>2. /\ t \in TxRec /\ t.call = call /\ t.saw = tx[c].saw /\ t.kind = tx[c].kind
      /\ t.late = tx[c].late /\ ~t.legacy /\ t.stamp = None /\ t.reads = Unread
  BY <1>1, ReturnedIs DEF Call
<1> HIDE DEF t
<1>3. tx' = [tx EXCEPT ![c] = t] BY DEF t
<1>4. tx'[c] = t /\ net'[c] = None BY <1>1, <1>3 DEF Shape
<1>5. ClientInv(c)' BY <1>2, <1>4, NothingRead
<1>6. Inv' BY <1>2, <1>3, <1>5, ClientStep
<1>7. Abstractly BY <1>1, <1>2, <1>3, ReturnStep
<1> QED BY <1>6, <1>7

\* A read-only transaction that returns what it read.
LEMMA LookedStep ==
  ASSUME Premises, Inv, NEW c \in Client, NEW u \in TxRec, u.reads = store,
         u.kind = tx[c].kind, u.late = tx[c].late, tx[c].call = "open", tx[c].saw = None,
         tx' = [tx EXCEPT ![c] = Returned([u EXCEPT !.saw = u.reads], "ok")],
         net' = [net EXCEPT ![c] = None],
         cache' \in [Client -> Node \cup {None}], UNCHANGED <<views, issued, rebuilt, term, leader>>
  PROVE  Inv' /\ Abstractly
<1> DEFINE v == [u EXCEPT !.saw = u.reads]
           t == Returned(v, "ok")
<1>1. Shape /\ store \in Seen /\ store # None BY StoresAre DEF Inv, Premises
<1>2. v \in TxRec /\ v.saw = store /\ v.kind = u.kind /\ v.late = u.late BY <1>1 DEF TxRec
<1> HIDE DEF v
<1>3. /\ t \in TxRec /\ t.call = "ok" /\ t.saw = store /\ t.kind = tx[c].kind
      /\ t.late = tx[c].late /\ ~t.legacy /\ t.stamp = None /\ t.reads = Unread
  BY <1>2, ReturnedIs DEF Call
<1>4. tx' = [tx EXCEPT ![c] = t] BY DEF v
<1> HIDE DEF t
<1>5. tx'[c] = t /\ net'[c] = None BY <1>1, <1>4 DEF Shape
<1>6. ClientInv(c)' BY <1>3, <1>5, NothingRead
<1>7. Inv' BY <1>3, <1>4, <1>6, ClientStep
<1>8. Abstractly BY <1>1, <1>3, <1>4, LookStep
<1> QED BY <1>7, <1>8

\* Run, RunContent and RunSnapshot.
LEMMA BeginStep ==
  ASSUME Premises, Inv, NEW c \in Client, NEW kind \in {"reader", "snapshot"} \cup Writing, Begin(c, kind)
  PROVE  Inv' /\ Abstractly
<1> DEFINE t == [Tx0 EXCEPT !.call = "open", !.kind = kind]
<1>1. Shape /\ ClientInv(c) BY DEF Inv
<1>2. tx' = [tx EXCEPT ![c] = t] BY DEF Begin
<1>3. t \in TxRec /\ t.kind = kind BY Blank DEF TxRec, Call, Writing
<1>4. t.call = "open" /\ t.saw = None /\ ~t.legacy /\ t.stamp = None /\ t.reads = Unread /\ ~t.late
  BY Blank DEF TxRec
<1> HIDE DEF t
<1>5. tx[c].call = "idle" /\ tx[c].saw = None /\ net[c] = None
  BY <1>1 DEF Begin, ClientInv, EffectOnce
<1>6. /\ net' = [net EXCEPT ![c] = None] /\ cache' = cache
      /\ UNCHANGED <<views, issued, rebuilt, term, leader>>
  BY <1>1, <1>5 DEF Begin, Shape
<1>7. tx'[c] = t /\ net'[c] = None BY <1>1, <1>2, <1>6 DEF Shape
<1>8. ClientInv(c)' BY <1>4, <1>7, NothingRead
<1>9. Inv' BY <1>1, <1>2, <1>3, <1>6, <1>8, ClientStep DEF Shape
<1>10. Abstract!Start(c)
  <2>1. tx'[c] = t /\ \A d \in Client : d # c => tx'[d] = tx[d] BY <1>1, <1>2 DEF Shape
  <2>2. \A d \in Client : tx'[d].saw = tx[d].saw BY <1>4, <1>5, <2>1
  <2>3. \A d \in Client : tx'[d].late = tx[d].late
    <3>1. tx[c].late = FALSE /\ t.late = FALSE
      BY <1>1, <1>3, <1>4, <1>5 DEF ClientInv, EffectOnce, Shape, TxRec
    <3> QED BY <2>1, <3>1
  <2>4. UNCHANGED <<Stores, [d \in Client |-> tx[d].saw # None], [d \in Client |-> tx[d].saw],
                    [d \in Client |-> tx[d].late]>>
    BY <1>6, <2>2, <2>3 DEF Stores
  <2>5. [d \in Client |-> tx'[d].call] = [[d \in Client |-> tx[d].call] EXCEPT ![c] = "open"]
    <3>1. \A d \in Client : tx'[d].call = IF d = c THEN "open" ELSE tx[d].call BY <1>4, <2>1
    <3> QED BY <3>1
  <2>6. [d \in Client |-> tx'[d].kind = "content"] =
          [[d \in Client |-> tx[d].kind = "content"] EXCEPT ![c] = (t.kind = "content")]
    BY <2>1, Zenon
  <2>7. (t.kind = "content") \in BOOLEAN OBVIOUS
  <2>8. [d \in Client |-> tx[d].call][c] = "idle" BY <1>5
  <2> QED BY <2>4, <2>5, <2>6, <2>7, <2>8, Zenon DEF Abstract!Start, Stores
<1> QED BY <1>9, <1>10 DEF Abstractly, Abstract!Next

\* A client that reads has not taken effect.
LEMMA ReadingIdle ==
  ASSUME Inv, NEW c \in Client, Reading(c)
  PROVE  /\ tx[c] \in TxRec /\ tx[c].call = "open" /\ tx[c].saw = None /\ net[c] = None
         /\ net = [net EXCEPT ![c] = None] /\ Shape /\ ClientInv(c)
BY DEF Inv, Shape, ClientInv, EffectOnce, Reading

\* What was read under the present stamp was read from the view.
LEMMA StampedFrom ==
  ASSUME Inv, NEW c \in Client, ~tx[c].legacy, StampHolds(tx[c])
  PROVE  ReadFrom(tx[c].reads, view)
<1>1. StampCurrent(c) /\ Len(views) \in 1..Len(views) BY StoresAre DEF Inv, ClientInv
<1>2. CASE tx[c].stamp = None BY <1>1, <1>2 DEF StampCurrent, Unread, ReadFrom
<1>3. CASE tx[c].stamp # None
  <2>1. tx[c].stamp = <<term, rebuilt, view.index>> BY <1>3 DEF StampHolds, Stamp
  <2>2. tx[c].stamp[3] = views[Len(views)].index BY <2>1 DEF view
  <2> QED BY <1>1, <1>3, <2>2 DEF StampCurrent, view
<1> QED BY <1>2, <1>3

\* So it is the store, once everything is read.
LEMMA StampedReads ==
  ASSUME Inv, NEW c \in Client, ~tx[c].legacy, StampHolds(tx[c]), ReadAll(tx[c])
  PROVE  tx[c].reads = store
<1>1. tx[c].reads \in [Key -> Nat \cup {None}] /\ store \in Seen
  BY StoresAre DEF Inv, Shape, TxRec
<1>2. \A k \in Key : tx[c].reads[k] = store[k] BY StampedFrom DEF ReadAll, ReadFrom, store
<1> QED BY <1>1, <1>2 DEF Seen

\* What was read from the view holds for every view with its index: for itself.
LEMMA FromView ==
  ASSUME Inv, NEW reads, ReadFrom(reads, view), NEW i \in 1..Len(views), view.index = views[i].index
  PROVE  ReadFrom(reads, views[i])
<1>1. Len(views) \in 1..Len(views) BY StoresAre DEF Inv
<1>2. \A j \in 1..Len(views) : views[j].index \in Nat BY StoresAre DEF Inv, ViewRec
<1>3. ~(i < Len(views)) BY <1>1, <1>2 DEF Inv, ViewsOrdered, view
<1>4. i = Len(views) BY <1>1, <1>3
<1> QED BY <1>4 DEF view

\* A read that nobody answered.
LEMMA ReadFailsStep ==
  ASSUME Premises, Inv, NEW c \in Client, ReadFails(c)
  PROVE  Inv' /\ Abstractly
<1>1. /\ tx[c].call = "open" /\ tx[c].saw = None
      /\ net = [net EXCEPT ![c] = None] /\ Shape
  BY ReadingIdle DEF ReadFails
<1>2. tx' = [tx EXCEPT ![c] = Returned(tx[c], "refused")] BY DEF ReadFails
<1> QED BY <1>1, <1>2, ReturnedStep DEF ReadFails, Shape

\* finish, without writes.
LEMMA CheckReadsStep ==
  ASSUME Premises, Inv, NEW c \in Client, CheckReads(c)
  PROVE  Inv' /\ Abstractly
<1>1. /\ tx[c] \in TxRec /\ tx[c].call = "open" /\ tx[c].saw = None /\ net[c] = None
      /\ net = [net EXCEPT ![c] = None] /\ Shape /\ ClientInv(c)
  BY ReadingIdle DEF CheckReads
<1>2. /\ net' = [net EXCEPT ![c] = None] /\ cache' \in [Client -> Node \cup {None}]
      /\ UNCHANGED <<views, issued, rebuilt, term, leader>>
  BY <1>1 DEF CheckReads, Shape
<1>3. CASE Unchanged(tx[c])
  <2>1. tx[c].reads = store
    <3>1. CASE tx[c].legacy BY <1>3, <3>1 DEF Unchanged
    <3>2. CASE ~tx[c].legacy BY <1>3, <3>2, StampedReads DEF Unchanged, CheckReads
    <3> QED BY <3>1, <3>2
  <2>2. tx' = [tx EXCEPT ![c] = Returned([tx[c] EXCEPT !.saw = tx[c].reads], "ok")]
    BY <1>3 DEF CheckReads
  <2> QED BY <1>1, <1>2, <2>1, <2>2, LookedStep
<1>4. CASE ~Unchanged(tx[c])
  <2>1. tx' = [tx EXCEPT ![c] = Again(tx[c])] BY <1>4 DEF CheckReads
  <2> QED BY <1>1, <1>2, <2>1, AgainStep
<1> QED BY <1>3, <1>4

\* A read is noted in the transaction and nowhere else.
LEMMA NotedIs ==
  ASSUME NEW t \in TxRec, NEW k \in Key, store \in Seen
  PROVE  /\ Noted(t, k) \in TxRec /\ Noted(t, k).reads = [t.reads EXCEPT ![k] = store[k]]
         /\ Noted(t, k).call = t.call /\ Noted(t, k).saw = t.saw
         /\ Noted(t, k).legacy = t.legacy /\ Noted(t, k).stamp = t.stamp
         /\ Noted(t, k).kind = t.kind /\ Noted(t, k).late = t.late
<1>1. store[k] \in Nat /\ t.reads \in [Key -> Nat \cup {None}] BY DEF Seen, TxRec
<1>2. [t.reads EXCEPT ![k] = store[k]] \in [Key -> Nat \cup {None}] BY <1>1
<1> DEFINE r == [t.reads EXCEPT ![k] = store[k]]
<1>3. Noted(t, k) = [t EXCEPT !.reads = r] BY DEF Noted, TxRec
<1>4. r \in [Key -> Nat \cup {None}] BY <1>2
<1>5. Noted(t, k).reads = r BY <1>3 DEF TxRec
<1> HIDE DEF r
<1>6. /\ Noted(t, k) \in TxRec
      /\ Noted(t, k).call = t.call /\ Noted(t, k).saw = t.saw
      /\ Noted(t, k).legacy = t.legacy /\ Noted(t, k).stamp = t.stamp
      /\ Noted(t, k).kind = t.kind /\ Noted(t, k).late = t.late
  BY <1>3, <1>4 DEF TxRec
<1> QED BY <1>5, <1>6 DEF r

\* One more record is read, with or without a stamp.
LEMMA ReadKeyStep ==
  ASSUME Premises, Inv, NEW c \in Client, NEW k \in Key, ReadKey(c, k)
  PROVE  Inv' /\ Abstractly
<1> DEFINE old == tx[c]
<1>1. /\ old \in TxRec /\ old.call = "open" /\ old.saw = None /\ net[c] = None
      /\ net = [net EXCEPT ![c] = None] /\ Shape /\ ClientInv(c)
  BY ReadingIdle DEF ReadKey
<1>2. /\ net' = [net EXCEPT ![c] = None] /\ cache' \in [Client -> Node \cup {None}]
      /\ UNCHANGED <<views, issued, rebuilt, term, leader>>
  BY <1>1 DEF ReadKey, Shape
<1>3. store \in Seen /\ old.reads \in [Key -> Nat \cup {None}]
  BY <1>1, StoresAre DEF TxRec
<1>4. CASE old.legacy \/ (leader \in Old /\ old.stamp = None)
  <2> DEFINE u == [old EXCEPT !.legacy = TRUE]
             t == Noted(u, k)
  <2>1. tx' = [tx EXCEPT ![c] = t] BY <1>4 DEF ReadKey
  <2>2. /\ u \in TxRec /\ u.legacy = TRUE /\ u.call = "open" /\ u.saw = None
        /\ u.kind = old.kind /\ u.late = old.late
    BY <1>1 DEF TxRec
  <2> HIDE DEF u
  <2>3. /\ t \in TxRec /\ t.legacy = TRUE /\ t.call = "open" /\ t.saw = None
        /\ t.kind = old.kind /\ t.late = old.late
    BY <1>3, <2>2, NotedIs
  <2> HIDE DEF t
  <2>4. tx'[c] = t /\ net'[c] = None BY <1>1, <1>2, <2>1 DEF Shape
  <2>5. ClientInv(c)' BY <2>3, <2>4 DEF ClientInv, StampCurrent, EffectOnce
  <2>6. Inv' BY <1>2, <2>1, <2>3, <2>5, ClientStep
  <2>7. Abstractly BY <1>1, <1>2, <2>1, <2>3, StutterStep
  <2> QED BY <2>6, <2>7
<1>5. CASE ~(old.legacy \/ (leader \in Old /\ old.stamp = None)) /\ leader \in Old
  <2>1. tx' = [tx EXCEPT ![c] = Returned(tx[c], "refused")] BY <1>5 DEF ReadKey
  <2> QED BY <1>1, <1>2, <2>1, ReturnedStep
<1>6. CASE ~old.legacy /\ leader \notin Old /\ StampHolds(old)
  <2> DEFINE u == [old EXCEPT !.stamp = Stamp]
             v == Noted(u, k)
             t == Settle(v)
  <2>1. tx' = [tx EXCEPT ![c] = t] BY <1>6 DEF ReadKey
  <2>2. Stamp \in StampRec /\ Stamp[3] = view.index /\ Stamp # None /\ view.index <= issued
    <3>1. view \in ViewRec /\ Len(views) \in 1..Len(views) BY <1>1, StoresAre
    <3>2. view.index \in Nat /\ term \in Nat /\ rebuilt \in BOOLEAN BY <1>1, <3>1 DEF ViewRec, Shape
    <3>3. view.index <= issued BY <3>1 DEF Inv, ViewsOrdered, view
    <3> QED BY <3>2, <3>3 DEF Stamp, StampRec, Premises
  <2>3. u \in TxRec /\ ~u.legacy /\ u.call = "open" /\ u.saw = None /\ u.stamp = Stamp
        /\ u.reads = old.reads /\ u.kind = old.kind /\ u.late = old.late
    <3> HIDE DEF Stamp
    <3> QED BY <1>1, <1>6, <2>2 DEF TxRec
  <2> HIDE DEF u
  <2>4. v \in TxRec /\ ~v.legacy /\ v.call = "open" /\ v.saw = None /\ v.stamp = Stamp
        /\ v.reads = [old.reads EXCEPT ![k] = store[k]] /\ v.kind = old.kind /\ v.late = old.late
    BY <1>3, <2>3, NotedIs
  <2> HIDE DEF v
  <2>5. ReadFrom(v.reads, view)
    <3>1. ReadFrom(old.reads, view) BY <1>6, StampedFrom
    <3> QED BY <1>3, <2>4, <3>1 DEF ReadFrom, store
  <2> HIDE DEF Stamp
  <2>6. CASE v.kind = "snapshot" /\ Coherent(v) /\ \A j \in Key : v.reads[j] # None
    <3>1. v.reads = store
      <4>1. \A j \in Key : v.reads[j] = store[j] BY <2>5, <2>6 DEF ReadFrom, store
      <4>2. v.reads \in [Key -> Nat \cup {None}] BY <2>4 DEF TxRec
      <4> QED BY <1>3, <4>1, <4>2 DEF Seen
    <3>2. t = Returned([v EXCEPT !.saw = v.reads], "ok") BY <2>6 DEF Settle
    <3>3. tx' = [tx EXCEPT ![c] = Returned([v EXCEPT !.saw = v.reads], "ok")] BY <2>1, <3>2
    <3> HIDE DEF t
    <3> QED BY <1>1, <1>2, <2>4, <3>1, <3>3, LookedStep
  <2>7. CASE ~(v.kind = "snapshot" /\ Coherent(v) /\ \A j \in Key : v.reads[j] # None)
    <3>1. t = v BY <2>7 DEF Settle
    <3> HIDE DEF t
    <3>2. tx'[c] = v /\ net'[c] = None BY <1>1, <1>2, <2>1, <3>1 DEF Shape
    <3>3. ClientInv(c)'
      <4>1. \A i \in 1..Len(views) : v.stamp[3] = views[i].index => ReadFrom(v.reads, views[i])
        BY <2>2, <2>4, <2>5, FromView
      <4>2. StampCurrent(c)'
        <5> HIDE DEF ReadFrom
        <5>1. (tx[c].stamp)' = v.stamp /\ (tx[c].reads)' = v.reads BY <3>2
        <5>2. UNCHANGED <<views, issued>> BY <1>2
        <5> QED BY <2>2, <2>4, <3>2, <4>1, <5>1, <5>2 DEF StampCurrent, ReadFrom
      <4>3. EffectOnce(c)' BY <2>4, <3>2 DEF EffectOnce
      <4> QED BY <4>2, <4>3 DEF ClientInv
    <3>4. Inv' BY <1>2, <2>1, <2>4, <3>1, <3>3, ClientStep
    <3>5. Abstractly BY <1>1, <1>2, <2>1, <2>4, <3>1, StutterStep
    <3> QED BY <3>4, <3>5
  <2> QED BY <2>6, <2>7
<1>7. CASE ~old.legacy /\ leader \notin Old /\ ~StampHolds(old)
  <2>1. tx' = [tx EXCEPT ![c] = Again(tx[c])] BY <1>7 DEF ReadKey
  <2> QED BY <1>1, <1>2, <2>1, AgainStep
<1> QED BY <1>4, <1>5, <1>6, <1>7

-----------------------------------------------------------------------------
(* Client.call with method commit *)

\* The transaction of a message in flight stays as it is.
LEMMA MessageStep ==
  ASSUME Inv, NEW c \in Client, NEW m \in Req, net' = [net EXCEPT ![c] = m], UNCHANGED tx,
         cache' \in [Client -> Node \cup {None}], UNCHANGED <<views, issued, rebuilt, term, leader>>,
         tx[c].call \in {"open", "unknown"}, m # None, tx[c].saw = None, m.answer # "ok"
  PROVE  Inv' /\ Abstractly
<1>1. Shape /\ ClientInv(c) /\ tx[c] \in TxRec BY DEF Inv, Shape
<1>2. tx' = [tx EXCEPT ![c] = tx[c]] /\ tx'[c] = tx[c] /\ net'[c] = m BY <1>1 DEF Shape
<1>3. ClientInv(c)' BY <1>1, <1>2 DEF ClientInv, StampCurrent, EffectOnce
<1>4. Inv' BY <1>1, <1>2, <1>3, ClientStep
<1>5. Abstractly BY <1>1, <1>2, StutterStep
<1> QED BY <1>4, <1>5

\* finish, with a write.
LEMMA SendCommitStep ==
  ASSUME Premises, Inv, NEW c \in Client, NEW k \in Key, NEW delete \in BOOLEAN,
         SendCommit(c, k, delete)
  PROVE  Inv' /\ Abstractly
<1> DEFINE m == [at |-> IF cache[c] # None THEN cache[c] ELSE Home[c], hop |-> 0, key |-> k,
                 delete |-> delete, answer |-> None, hint |-> None]
<1>1. tx[c].call = "open" /\ tx[c].saw = None /\ Shape
  BY ReadingIdle DEF SendCommit
<1>2. (IF cache[c] # None THEN cache[c] ELSE Home[c]) \in Node
  BY <1>1, TransactionsAssumption DEF Shape
<1>3. m \in Req BY <1>2 DEF Req
<1>4. m.answer = None OBVIOUS
<1>5. net' = [net EXCEPT ![c] = m] BY DEF SendCommit
<1> HIDE DEF m
<1>6. m # None /\ m.answer # "ok" BY <1>3, <1>4 DEF Premises
<1> QED BY <1>1, <1>3, <1>5, <1>6, MessageStep DEF SendCommit, Shape

\* An unanswered request is of a transaction without effect.
LEMMA WaitingIdle ==
  ASSUME Premises, Inv, NEW c \in Client, Waiting(c)
  PROVE  /\ Shape /\ ClientInv(c) /\ tx[c] \in TxRec /\ net[c] \in Req
         /\ tx[c].call \in {"open", "unknown"} /\ tx[c].saw = None
<1>1. Shape /\ ClientInv(c) /\ tx[c] \in TxRec /\ net[c] # None BY DEF Inv, Shape, Waiting
<1>2. net[c].answer = None /\ None \notin {"ok", "not_leader"} BY DEF Waiting, Premises
<1>3. net[c] \in Req BY <1>1 DEF Shape
<1> QED BY <1>1, <1>2, <1>3 DEF ClientInv, EffectOnce

\* An answer is put on the request.
LEMMA AnswerIs ==
  ASSUME Shape, NEW c \in Client, net[c] \in Req,
         NEW answer \in {"ok", "conflict", "not_leader"}, NEW hint \in Node \cup {None},
         net' = Answer(c, answer, hint)
  PROVE  \E m \in Req : net' = [net EXCEPT ![c] = m] /\ m.answer = answer
<1> DEFINE m == [net[c] EXCEPT !.answer = answer, !.hint = hint]
<1>1. m \in Req BY DEF Req
<1>2. m.answer = answer BY DEF Req
<1>3. net' = [net EXCEPT ![c] = m] BY DEF Answer, Shape
<1> QED BY <1>1, <1>2, <1>3, Zenon

\* A follower.
LEMMA RedirectStep ==
  ASSUME Premises, Inv, NEW c \in Client, NEW hint \in Node \cup {None}, Redirect(c, hint)
  PROVE  Inv' /\ Abstractly
<1>1. /\ Shape /\ net[c] \in Req /\ tx[c].call \in {"open", "unknown"} /\ tx[c].saw = None
  BY WaitingIdle DEF Redirect
<1>2. PICK m \in Req : net' = [net EXCEPT ![c] = m] /\ m.answer = "not_leader"
  <2>1. net' = Answer(c, "not_leader", hint) BY DEF Redirect
  <2> QED BY <1>1, <2>1, AnswerIs
<1>3. m # None BY DEF Premises
<1> QED BY <1>1, <1>2, <1>3, MessageStep DEF Redirect, Shape

\* An element more, at the end.
LEMMA AppendIs ==
  ASSUME NEW S, NEW s \in Seq(S), NEW e \in S
  PROVE  /\ Append(s, e) \in [1..(Len(s) + 1) -> S]
         /\ \A i \in 1..Len(s) : Append(s, e)[i] = s[i]
         /\ Append(s, e)[Len(s) + 1] = e
<1> DEFINE a == Append(s, e)
<1>1. a \in Seq(S) /\ Len(a) = Len(s) + 1 BY AppendProperties
<1>2. \A i \in 1..Len(s) : a[i] = s[i] BY AppendProperties
<1>3. a[Len(s) + 1] = e BY AppendProperties
<1> HIDE DEF a
<1>4. a \in [1..(Len(s) + 1) -> S] BY <1>1
<1> QED BY <1>2, <1>3, <1>4 DEF a

\* The new view comes after those it may be set back to.
LEMMA ExtendedIs ==
  ASSUME Inv, NEW v \in ViewRec, v.index = issued + 1, NEW t, views' \in Extended(t, v),
         issued' = issued + 1
  PROVE  /\ views' \in Seq(ViewRec) /\ Len(views') > 0 /\ ViewsOrdered'
         /\ \A i \in 1..Len(views') :
              views'[i] = v \/ (i \in 1..Len(views) /\ views'[i] = views[i])
         /\ store' = v.store
         /\ Stores' = <<v.store>> \/ (t.kind = "content" /\ Stores' = Append(Stores, v.store))
<1>1. /\ views \in Seq(ViewRec) /\ Len(views) \in Nat /\ Len(views) > 0 /\ issued \in Nat
      /\ \A i \in 1..Len(views) : views[i] \in ViewRec /\ views[i].index \in Nat
      /\ Stores \in Seq(Seen) /\ Len(Stores) = Len(views)
      /\ \A i \in 1..Len(views) : Stores[i] = views[i].store
  BY StoresAre DEF Inv, Shape, ViewRec
<1>2. ViewsOrdered BY DEF Inv
<1>3. CASE views' = <<v>>
  <2>1. views' \in Seq(ViewRec) /\ Len(views') = 1 /\ views'[1] = v /\ DOMAIN views' = 1..1 BY <1>3
  <2>2. Stores' = <<v.store>>
    <3>1. Stores' = [i \in 1..1 |-> views'[i].store] BY <2>1 DEF Stores
    <3> QED BY <2>1, <3>1
  <2>3. ViewsOrdered' BY <1>1, <2>1 DEF ViewsOrdered
  <2> QED BY <2>1, <2>2, <2>3 DEF store, view
<1>4. CASE t.kind = "content" /\ views' = Append(views, v)
  <2>1. /\ views' \in Seq(ViewRec) /\ Len(views') = Len(views) + 1
        /\ \A i \in 1..Len(views) : views'[i] = views[i]
        /\ views'[Len(views) + 1] = v /\ DOMAIN views' = 1..(Len(views) + 1)
    BY <1>1, <1>4
  <2>2. \A i \in 1..Len(views') : views'[i] = v \/ (i \in 1..Len(views) /\ views'[i] = views[i])
    BY <1>1, <2>1
  <2>3. Stores' = Append(Stores, v.store)
    <3>1. Stores' = [i \in 1..(Len(views) + 1) |-> views'[i].store] BY <2>1 DEF Stores
    <3>2. v.store \in Seen BY DEF ViewRec
    <3>3. /\ Append(Stores, v.store) \in [1..(Len(views) + 1) -> Seen]
          /\ \A i \in 1..Len(views) : Append(Stores, v.store)[i] = Stores[i]
          /\ Append(Stores, v.store)[Len(views) + 1] = v.store
      BY <1>1, <3>2, AppendIs
    <3>4. \A i \in 1..(Len(views) + 1) : Append(Stores, v.store)[i] = views'[i].store
      BY <1>1, <2>1, <3>3
    <3> QED BY <3>1, <3>3, <3>4
  <2>4. ViewsOrdered'
    <3>1. \A i \in 1..Len(views') : views'[i].index <= issued' BY <1>1, <1>2, <2>2 DEF ViewsOrdered
    <3>2. ASSUME NEW i \in 1..Len(views'), NEW j \in 1..Len(views'), i < j
          PROVE  views'[i].index < views'[j].index
      <4>1. i \in 1..Len(views) /\ views'[i] = views[i] BY <1>1, <2>1, <3>2
      <4>2. CASE j \in 1..Len(views) BY <1>2, <2>1, <3>2, <4>1, <4>2 DEF ViewsOrdered
      <4>3. CASE j = Len(views) + 1 BY <1>1, <1>2, <2>1, <4>1, <4>3 DEF ViewsOrdered
      <4> QED BY <1>1, <2>1, <4>2, <4>3
    <3> QED BY <3>1, <3>2 DEF ViewsOrdered
  <2> QED BY <1>1, <1>4, <2>1, <2>2, <2>3, <2>4 DEF store, view
<1> QED BY <1>3, <1>4 DEF Extended

\* The leader: the one step that writes to the store.
LEMMA CommitStep ==
  ASSUME Premises, Inv, NEW c \in Client, Commit(c)
  PROVE  Inv' /\ Abstractly
<1>1. /\ Shape /\ ClientInv(c) /\ tx[c] \in TxRec /\ net[c] \in Req
      /\ tx[c].call \in {"open", "unknown"} /\ tx[c].saw = None
  BY WaitingIdle DEF Commit
<1>2. CASE ~Matches(tx[c])
  <2>1. PICK m \in Req : net' = [net EXCEPT ![c] = m] /\ m.answer = "conflict"
    <3>1. net' = Answer(c, "conflict", None) BY <1>2 DEF Commit
    <3> QED BY <1>1, <3>1, AnswerIs
  <2>2. m # None BY DEF Premises
  <2>3. UNCHANGED <<tx, views, issued, rebuilt, term, leader, cache>> BY <1>2 DEF Commit
  <2> QED BY <1>1, <2>1, <2>2, <2>3, MessageStep DEF Shape
<1>3. CASE Matches(tx[c])
  <2>1. PICK a \in {"ok", "not_leader"} :
          /\ net' = Answer(c, a, None)
          /\ tx' = [tx EXCEPT ![c].saw = tx[c].reads, ![c].late = @ \/ a # "ok"]
    BY <1>3 DEF Commit
  <2> DEFINE late == tx[c].late \/ a # "ok"
             t == [tx[c] EXCEPT !.saw = tx[c].reads, !.late = late]
             k == net[c].key
             v == Written(net[c])
  <2>2. store \in Seen /\ store # None /\ tx[c].reads = store /\ issued \in Nat /\ k \in Key
    BY <1>1, <1>3, StoresAre DEF Shape, Premises, Matches, Req
  <2>3. tx' = [tx EXCEPT ![c] = t]
    <3>1. [tx EXCEPT ![c].saw = tx[c].reads, ![c].late = @ \/ a # "ok"] = [tx EXCEPT ![c] = t]
      BY <1>1 DEF Shape, TxRec
    <3> QED BY <2>1, <3>1
  <2>4. late \in BOOLEAN BY <1>1 DEF TxRec
  <2>5. t \in TxRec /\ t.call = tx[c].call /\ t.saw = store /\ t.reads = tx[c].reads
        /\ t.stamp = tx[c].stamp /\ t.legacy = tx[c].legacy /\ t.kind = tx[c].kind
        /\ t.late = late
    <3> HIDE DEF late
    <3> QED BY <1>1, <2>2, <2>4 DEF TxRec
  <2> HIDE DEF t
  <2>6. PICK m \in Req : net' = [net EXCEPT ![c] = m] /\ m.answer = a BY <1>1, <2>1, AnswerIs
  <2>7. /\ v.store = [store EXCEPT ![k] = IF net[c].delete THEN 0 ELSE issued + 1]
        /\ v.index = issued + 1 /\ v \in ViewRec
    BY <2>2 DEF Written, ViewRec, Seen
  <2> HIDE DEF v
  <2>8. /\ views' \in Extended(tx[c], v) /\ issued' = issued + 1 /\ rebuilt' = FALSE
        /\ UNCHANGED <<term, leader, cache>>
    BY <1>3 DEF Commit, v
  <2>9. /\ views' \in Seq(ViewRec) /\ Len(views') > 0 /\ ViewsOrdered'
        /\ \A i \in 1..Len(views') :
             views'[i] = v \/ (i \in 1..Len(views) /\ views'[i] = views[i])
        /\ store' = v.store
        /\ Stores' = <<v.store>> \/ (tx[c].kind = "content" /\ Stores' = Append(Stores, v.store))
    BY <2>7, <2>8, ExtendedIs
  <2>10. Shape'
    <3>1. tx' \in [Client -> TxRec] BY <1>1, <2>3, <2>5 DEF Shape
    <3>2. net' \in [Client -> Req \cup {None}] BY <1>1, <2>6 DEF Shape
    <3>3. issued' \in Nat
      <4>1. issued' = issued + 1 BY <2>8
      <4> QED BY <2>2, <4>1
    <3>4. rebuilt' \in BOOLEAN BY <2>8, Zenon
    <3> QED BY <1>1, <2>8, <2>9, <3>1, <3>2, <3>3, <3>4 DEF Shape
  <2>11. ASSUME NEW d \in Client PROVE ClientInv(d)'
    <3>1. StampCurrent(d) /\ EffectOnce(d) /\ tx[d] \in TxRec BY DEF Inv, ClientInv, Shape
    <3>2. /\ tx'[d].stamp = tx[d].stamp /\ tx'[d].legacy = tx[d].legacy
          /\ tx'[d].reads = tx[d].reads /\ tx'[d].call = tx[d].call
      BY <1>1, <2>3, <2>5 DEF Shape
    <3>3. StampCurrent(d)'
      <4>1. tx[d].stamp # None => tx[d].stamp[3] \in Nat BY <3>1 DEF TxRec, StampRec
      <4>2. ASSUME ~tx[d].legacy, tx[d].stamp # None, NEW i \in 1..Len(views'),
                   tx[d].stamp[3] = views'[i].index
            PROVE  ReadFrom(tx[d].reads, views'[i])
        <5>1. tx[d].stamp[3] <= issued BY <3>1, <4>2 DEF StampCurrent
        <5>2. views'[i] # v BY <2>2, <2>7, <4>1, <4>2, <5>1
        <5> QED BY <2>9, <3>1, <4>2, <5>2 DEF StampCurrent
      <4> HIDE DEF ReadFrom
      <4> QED BY <2>2, <2>8, <3>1, <3>2, <4>1, <4>2 DEF StampCurrent, ReadFrom
    <3>4. EffectOnce(d)'
      <4>1. CASE d = c
        <5>1. tx'[d] = t /\ net'[d] = m BY <1>1, <2>3, <2>6, <4>1 DEF Shape
        <5>2. m # None BY DEF Premises
        <5> QED BY <1>1, <2>2, <2>5, <2>6, <4>1, <5>1, <5>2 DEF EffectOnce
      <4>2. CASE d # c
        <5>1. tx'[d] = tx[d] /\ net'[d] = net[d] BY <1>1, <2>3, <2>6, <4>2 DEF Shape
        <5> QED BY <3>1, <5>1 DEF EffectOnce
      <4> QED BY <4>1, <4>2
    <3> QED BY <3>3, <3>4 DEF ClientInv
  <2>12. Abstract!Change(c)
    <3>1. \A d \in Client : tx'[d].call = tx[d].call /\ tx'[d].kind = tx[d].kind
      BY <1>1, <2>3, <2>5 DEF Shape
    <3>2. UNCHANGED <<[d \in Client |-> tx[d].call], [d \in Client |-> tx[d].kind = "content"]>>
      BY <3>1
    <3>3. [d \in Client |-> tx[d].call][c] \in {"open", "unknown"} BY <1>1
    <3>4. ~[d \in Client |-> tx[d].saw # None][c] BY <1>1
    <3>5. [d \in Client |-> tx'[d].saw] = [[d \in Client |-> tx[d].saw] EXCEPT ![c] = store]
      <4>1. [d \in Client |-> tx'[d].saw] = [[d \in Client |-> tx[d].saw] EXCEPT ![c] = t.saw]
        BY <1>1, <2>3, <2>5, MappedStep, Zenon
      <4> QED BY <2>5, <4>1
    <3>6. [d \in Client |-> tx'[d].saw # None] = [[d \in Client |-> tx[d].saw # None] EXCEPT ![c] = TRUE]
      <4>1. t.saw # None BY <2>2, <2>5
      <4>2. tx'[c].saw # None /\ \A d \in Client : d # c => tx'[d] = tx[d]
        BY <1>1, <2>3, <4>1 DEF Shape
      <4> QED BY <4>2, Zenon
    <3>7. store' \in [Key -> Nat] BY <2>7, <2>9 DEF ViewRec, Seen
    <3>8. store' = [store EXCEPT ![k] = store'[k]] BY <2>2, <2>7, <2>9 DEF Seen
    <3>9. \E j \in Key : store' = [store EXCEPT ![j] = store'[j]] BY <2>2, <3>8
    <3>10. \E l \in BOOLEAN : [d \in Client |-> tx'[d].late] =
             [[d \in Client |-> tx[d].late] EXCEPT ![c] = [d \in Client |-> tx[d].late][c] \/ l]
      <4>1. [d \in Client |-> tx'[d].late] = [[d \in Client |-> tx[d].late] EXCEPT ![c] = t.late]
        BY <1>1, <2>3, <2>5, MappedStep, Zenon
      <4>2. (a # "ok") \in BOOLEAN OBVIOUS
      <4>3. [d \in Client |-> tx[d].late][c] = tx[c].late OBVIOUS
      <4>4. t.late = ([d \in Client |-> tx[d].late][c] \/ (a # "ok")) BY <2>5, <4>3
      <4> QED BY <4>1, <4>2, <4>4, Zenon
    <3>11. \/ Stores' = <<store'>>
           \/ [d \in Client |-> tx[d].kind = "content"][c] /\ Stores' = Append(Stores, store')
      BY <2>9
    <3>12. Abstract!store = store /\ Abstract!store' = store'
      <4>1. Abstract!store = store BY <1>1, StoreIs
      <4>2. (Shape => Abstract!store = store)' BY StoreIs, PTL
      <4> QED BY <2>10, <4>1, <4>2
    <3> QED
      BY <3>2, <3>3, <3>4, <3>5, <3>6, <3>7, <3>9, <3>10, <3>11, <3>12, Zenon
      DEF Abstract!Change, Stores
  <2> QED BY <2>9, <2>10, <2>11, <2>12 DEF Inv, Abstractly, Abstract!Next
<1> QED BY <1>2, <1>3

\* A request whose client still waits: the answer tells whether it took effect.
LEMMA AnsweredIs ==
  ASSUME Premises, Inv, NEW c \in Client, net[c] # None, tx[c].call = "open"
  PROVE  /\ Shape /\ ClientInv(c) /\ tx[c] \in TxRec /\ net[c] \in Req
         /\ net[c].answer = "ok" => tx[c].saw # None
         /\ tx[c].saw # None => net[c].answer = "ok" \/ (net[c].answer = "not_leader" /\ tx[c].late)
BY DEF Inv, Shape, ClientInv, EffectOnce

\* The answer to an applied write.
LEMMA SuccessStep ==
  ASSUME Premises, Inv, NEW c \in Client, Success(c)
  PROVE  Inv' /\ Abstractly
<1>1. net[c] \in Req /\ Shape /\ tx[c].saw # None /\ tx[c].call = "open"
  BY AnsweredIs DEF Success, Answered
<1>2. cache' \in [Client -> Node \cup {None}] BY <1>1 DEF Success, Shape, Req
<1> QED BY <1>1, <1>2, ReturnedStep DEF Success

\* A rejected compare and swap.
LEMMA ConflictStep ==
  ASSUME Premises, Inv, NEW c \in Client, Conflict(c)
  PROVE  Inv' /\ Abstractly
<1>1. Shape /\ tx[c].saw = None /\ tx[c].call = "open"
  BY AnsweredIs DEF Conflict, Answered
<1> QED BY <1>1, AgainStep DEF Conflict, Shape

\* The request is sent on although its write was applied.
LEMMA ForgetStep ==
  ASSUME Premises, Inv, NEW c \in Client, tx[c].call = "open", tx[c].saw # None, tx[c].late,
         NEW m \in Req, m.answer = None, net' = [net EXCEPT ![c] = m],
         tx' = [tx EXCEPT ![c].saw = None],
         cache' \in [Client -> Node \cup {None}], UNCHANGED <<views, issued, rebuilt, term, leader>>
  PROVE  Inv' /\ Abstractly
<1> DEFINE t == [tx[c] EXCEPT !.saw = None]
<1>1. Shape /\ ClientInv(c) /\ tx[c] \in TxRec BY DEF Inv, Shape
<1>2. tx' = [tx EXCEPT ![c] = t] BY <1>1 DEF Shape
<1>3. t \in TxRec /\ t.call = "open" /\ t.saw = None /\ t.legacy = tx[c].legacy
      /\ t.stamp = tx[c].stamp /\ t.reads = tx[c].reads /\ t.kind = tx[c].kind /\ t.late = tx[c].late
  BY <1>1 DEF TxRec
<1> HIDE DEF t
<1>4. tx'[c] = t /\ net'[c] = m BY <1>1, <1>2 DEF Shape
<1>5. StampCurrent(c)' BY <1>1, <1>3, <1>4 DEF ClientInv, StampCurrent
<1>6. EffectOnce(c)' BY <1>3, <1>4 DEF EffectOnce, Premises
<1>7. Inv' BY <1>2, <1>3, <1>5, <1>6, ClientStep DEF ClientInv
<1>8. Abstract!Forget(c)
  <2>1. tx'[c] = t /\ \A d \in Client : d # c => tx'[d] = tx[d] BY <1>1, <1>2 DEF Shape
  <2>2. \A d \in Client : /\ tx'[d].call = tx[d].call /\ tx'[d].kind = tx[d].kind
                          /\ tx'[d].late = tx[d].late
    BY <1>3, <2>1
  <2>3. UNCHANGED <<Stores, [d \in Client |-> tx[d].call],
                    [d \in Client |-> tx[d].kind = "content"], [d \in Client |-> tx[d].late]>>
    BY <2>2 DEF Stores
  <2>4. [d \in Client |-> tx'[d].saw] = [[d \in Client |-> tx[d].saw] EXCEPT ![c] = None]
    <3>1. \A d \in Client : tx'[d].saw = IF d = c THEN None ELSE tx[d].saw BY <1>3, <2>1
    <3> QED BY <3>1
  <2>5. [d \in Client |-> tx'[d].saw # None] = [[d \in Client |-> tx[d].saw # None] EXCEPT ![c] = FALSE]
    <3>1. tx'[c].saw = None BY <1>3, <2>1
    <3> QED BY <2>1, <3>1, Zenon
  <2>6. /\ [d \in Client |-> tx[d].call][c] = "open" /\ [d \in Client |-> tx[d].saw # None][c]
        /\ [d \in Client |-> tx[d].late][c]
    OBVIOUS
  <2> QED BY <2>3, <2>4, <2>5, <2>6, Zenon DEF Abstract!Forget, Stores
<1> QED BY <1>7, <1>8 DEF Abstractly, Abstract!Next

\* The request is sent on, or the call ends.
LEMMA NotLeaderStep ==
  ASSUME Premises, Inv, NEW c \in Client, NotLeader(c)
  PROVE  Inv' /\ Abstractly
<1> DEFINE m == net[c]
           next == IF m.hop # 0 THEN None
                   ELSE IF m.hint = None /\ m.at # Home[c] THEN Home[c] ELSE m.hint
<1>1. /\ m \in Req /\ Shape /\ tx[c].call = "open" /\ tx[c] \in TxRec
      /\ tx[c].saw # None => tx[c].late
  BY AnsweredIs DEF NotLeader, Answered
<1>2. cache' \in [Client -> Node \cup {None}] /\ UNCHANGED <<views, issued, rebuilt, term, leader>>
  BY <1>1 DEF NotLeader, Shape
<1>3. CASE next = None
  <2>1. tx' = [tx EXCEPT ![c] = Returned(tx[c], "unknown")] /\ net' = [net EXCEPT ![c] = None]
    BY <1>3 DEF NotLeader
  <2> QED BY <1>1, <1>2, <2>1, ReturnedStep
<1>4. CASE next # None
  <2> DEFINE r == [m EXCEPT !.at = next, !.hop = 1, !.answer = None, !.hint = None]
  <2>1. next \in Node BY <1>1, <1>4, TransactionsAssumption DEF Req
  <2>2. net' = [net EXCEPT ![c] = r] /\ tx' = [tx EXCEPT ![c].saw = None] BY <1>4 DEF NotLeader
  <2> HIDE DEF next
  <2>3. r \in Req /\ r.answer = None BY <1>1, <2>1 DEF Req
  <2> HIDE DEF r
  <2>4. r # None /\ r.answer # "ok" BY <2>3 DEF Premises
  <2>5. CASE tx[c].saw # None BY <1>1, <1>2, <2>2, <2>3, <2>5, ForgetStep
  <2>6. CASE tx[c].saw = None
    <3>1. tx' = tx BY <1>1, <2>2, <2>6 DEF Shape, TxRec
    <3> QED BY <1>1, <1>2, <2>2, <2>3, <2>4, <2>6, <3>1, MessageStep
  <2> QED BY <2>5, <2>6
<1> QED BY <1>3, <1>4

\* The client gives up, with or without its request left in the network.
LEMMA LoseStep ==
  ASSUME Premises, Inv, NEW c \in Client, Lose(c)
  PROVE  Inv' /\ Abstractly
<1> DEFINE t == [tx[c] EXCEPT !.call = "unknown"]
           m == IF Waiting(c) THEN net[c] ELSE None
<1>1. Shape /\ ClientInv(c) /\ tx[c] \in TxRec /\ tx[c].call = "open" /\ net[c] \in Req \cup {None}
  BY DEF Lose, Inv, Shape
<1>2. /\ cache' \in [Client -> Node \cup {None}] /\ UNCHANGED <<views, issued, rebuilt, term, leader>>
      /\ tx' = [tx EXCEPT ![c] = t] /\ net' = [net EXCEPT ![c] = m]
  BY <1>1 DEF Lose, Interrupted, Shape
<1>3. t \in TxRec /\ t.call = "unknown" /\ t.saw = tx[c].saw /\ t.legacy = tx[c].legacy
      /\ t.stamp = tx[c].stamp /\ t.reads = tx[c].reads /\ t.kind = tx[c].kind /\ t.late = tx[c].late
  BY <1>1 DEF TxRec, Call
<1> HIDE DEF t
<1>4. tx'[c] = t /\ net'[c] = m BY <1>1, <1>2 DEF Shape
<1>5. StampCurrent(c)' BY <1>1, <1>2, <1>3, <1>4 DEF ClientInv, StampCurrent
<1>6. EffectOnce(c)' BY <1>1, <1>3, <1>4 DEF ClientInv, EffectOnce
<1>7. m \in Req \cup {None} BY <1>1
<1>8. Inv' BY <1>2, <1>3, <1>5, <1>6, <1>7, ClientStep DEF ClientInv
<1>9. Abstractly BY <1>1, <1>2, <1>3, ReturnStep
<1> QED BY <1>8, <1>9

-----------------------------------------------------------------------------
(* The cluster *)

\* Elections and demotions leave the store and the clients alone.
LEMMA ElectionStep ==
  ASSUME Inv, term' \in Nat, leader' \in Node \cup {None},
         UNCHANGED <<views, issued, rebuilt, tx, net, cache>>
  PROVE  Inv' /\ Abstractly
<1>1. Shape' BY DEF Inv, Shape
<1>2. \A c \in Client : ClientInv(c)' BY DEF Inv, ClientInv, StampCurrent, EffectOnce
<1>3. ViewsOrdered' BY DEF Inv, ViewsOrdered
<1> QED BY <1>1, <1>2, <1>3 DEF Inv, Abstractly, Abstract!vars

\* The leader may go back to fewer views than before.
LEMMA FewerViews ==
  ASSUME Inv, views' \in Seq(ViewRec), Len(views') > 0, ViewsOrdered', rebuilt' \in BOOLEAN,
         \A i \in 1..Len(views') : \E j \in 1..Len(views) : views'[i] = views[j],
         term' \in Nat, leader' \in Node \cup {None}, UNCHANGED <<issued, tx, net, cache>>
  PROVE  Inv'
<1>1. Shape' BY DEF Inv, Shape
<1>2. ASSUME NEW c \in Client PROVE ClientInv(c)'
  <2>1. StampCurrent(c)'
    <3>1. ASSUME ~tx[c].legacy, tx[c].stamp # None, NEW i \in 1..Len(views'),
                 tx[c].stamp[3] = views'[i].index
          PROVE  ReadFrom(tx[c].reads, views'[i])
      BY <3>1 DEF Inv, ClientInv, StampCurrent
    <3> QED BY <3>1 DEF Inv, ClientInv, StampCurrent, ReadFrom
  <2>2. EffectOnce(c)' BY DEF Inv, ClientInv, EffectOnce
  <2> QED BY <2>1, <2>2 DEF ClientInv
<1> QED BY <1>1, <1>2 DEF Inv

\* ensure: the view is one of those since the last replicated write.
LEMMA BaselineStep ==
  ASSUME Inv, NEW i \in DOMAIN views, Baseline(i), term' \in Nat, leader' \in Node \cup {None},
         UNCHANGED <<issued, tx, net, cache>>
  PROVE  Inv' /\ Abstractly
<1>1. Shape /\ DOMAIN views = 1..Len(views) /\ views[i] \in ViewRec /\ Stores[i] = views[i].store
      /\ DOMAIN Stores = 1..Len(views)
  BY StoresAre DEF Inv
<1>2. views' = <<views[i]>> /\ rebuilt' = TRUE BY DEF Baseline
<1>3. views' \in Seq(ViewRec) /\ Len(views') = 1 /\ views'[1] = views[i] /\ DOMAIN views' = 1..1
  BY <1>1, <1>2
<1>4. ViewsOrdered' BY <1>1, <1>3 DEF Inv, ViewsOrdered
<1>5. Inv' BY <1>1, <1>2, <1>3, <1>4, FewerViews
<1>6. Stores' = <<Stores[i]>>
  <2>1. Stores' = [j \in 1..1 |-> views'[j].store] BY <1>3 DEF Stores
  <2> QED BY <1>1, <1>3, <2>1
<1>7. Abstract!Lose
  <2>1. \E j \in DOMAIN Stores : Stores' = <<Stores[j]>> BY <1>1, <1>6
  <2> QED BY <2>1 DEF Abstract!Lose, Stores
<1> QED BY <1>5, <1>7 DEF Abstractly, Abstract!Next

\* replicate: the leader no longer goes back behind the oldest local write.
LEMMA ReplicateStep == ASSUME Inv, Replicate PROVE Inv' /\ Abstractly
<1>1. /\ Shape /\ views \in Seq(ViewRec) /\ Len(views) \in Nat /\ Len(views) > 1
      /\ Stores \in Seq(Seen) /\ Len(Stores) = Len(views)
      /\ \A i \in 1..Len(views) : Stores[i] = views[i].store
  BY StoresAre DEF Inv, Shape, Replicate
<1>2. /\ views' \in Seq(ViewRec) /\ Len(views') = Len(views) - 1
      /\ \A i \in 1..(Len(views) - 1) : views'[i] = views[i + 1]
      /\ DOMAIN views' = 1..(Len(views) - 1)
  BY <1>1 DEF Replicate
<1>3. UNCHANGED <<issued, rebuilt, term, leader, tx, net, cache>> BY DEF Replicate
<1>4. \A i \in 1..Len(views') : i + 1 \in 1..Len(views) /\ views'[i] = views[i + 1] BY <1>1, <1>2
<1>5. ViewsOrdered'
  <2>1. \A i \in 1..Len(views') : views'[i].index <= issued'
    BY <1>3, <1>4 DEF Inv, ViewsOrdered
  <2>2. ASSUME NEW i \in 1..Len(views'), NEW j \in 1..Len(views'), i < j
        PROVE  views'[i].index < views'[j].index
    <3>1. i + 1 < j + 1 BY <2>2
    <3> QED BY <1>4, <3>1 DEF Inv, ViewsOrdered
  <2> QED BY <2>1, <2>2 DEF ViewsOrdered
<1>6. Inv' BY <1>1, <1>2, <1>3, <1>4, <1>5, FewerViews DEF Shape
<1>7. Stores' = Tail(Stores)
  <2>1. Stores' = [i \in 1..(Len(views) - 1) |-> views'[i].store] BY <1>2 DEF Stores
  <2>2. /\ Tail(Stores) \in [1..(Len(views) - 1) -> Seen]
        /\ \A i \in 1..(Len(views) - 1) : Tail(Stores)[i] = Stores[i + 1]
    <3>1. Stores # <<>> BY <1>1
    <3> DEFINE rest == Tail(Stores)
    <3>2. /\ rest \in Seq(Seen) /\ Len(rest) = Len(Stores) - 1
          /\ \A i \in 1..Len(rest) : rest[i] = Stores[i + 1]
      BY <1>1, <3>1, HeadTailProperties, Zenon
    <3> HIDE DEF rest
    <3>3. rest \in [1..(Len(views) - 1) -> Seen] BY <1>1, <3>2
    <3> QED BY <1>1, <3>2, <3>3 DEF rest
  <2>3. \A i \in 1..(Len(views) - 1) : Tail(Stores)[i] = views'[i].store BY <1>1, <1>2, <2>2
  <2> QED BY <2>1, <2>2, <2>3
<1>8. Abstract!Confirm BY <1>1, <1>3, <1>7 DEF Abstract!Confirm, Stores
<1> QED BY <1>6, <1>8 DEF Abstractly, Abstract!Next

-----------------------------------------------------------------------------

\* Every step keeps the invariant and is a step of the atomic store or a stutter.
LEMMA StepHolds == ASSUME Premises, Inv, [Next]_vars PROVE Inv' /\ Abstractly
<1>1. CASE UNCHANGED vars
  BY <1>1, ElectionStep DEF vars, Inv, Shape
<1>2. CASE Next
  <2>1. ASSUME NEW i \in DOMAIN views, Rebuild(i) \/ \E n \in Node : Elect(n, i)
        PROVE  Inv' /\ Abstractly
    BY <2>1, BaselineStep DEF Elect, Rebuild, Inv, Shape
  <2>2. CASE StepDown BY <2>2, ElectionStep DEF StepDown, Inv, Shape
  <2>3. ASSUME NEW c \in Client,
               \/ \E kind \in {"reader", "snapshot"} \cup Writing : Begin(c, kind)
               \/ \E k \in Key : ReadKey(c, k)
               \/ ReadFails(c) \/ CheckReads(c)
               \/ \E k \in Key, delete \in BOOLEAN : SendCommit(c, k, delete)
               \/ \E hint \in Node \cup {None} : Redirect(c, hint)
               \/ Commit(c) \/ Success(c) \/ Conflict(c) \/ NotLeader(c) \/ Lose(c)
        PROVE  Inv' /\ Abstractly
    BY <2>3, BeginStep, ReadKeyStep, ReadFailsStep, CheckReadsStep, SendCommitStep, RedirectStep,
       CommitStep, SuccessStep, ConflictStep, NotLeaderStep, LoseStep
  <2>4. CASE Replicate BY <2>4, ReplicateStep
  <2> QED BY <1>2, <2>1, <2>2, <2>3, <2>4 DEF Next
<1> QED BY <1>1, <1>2

\* The initial states are initial states of the atomic store.
LEMMA InitHolds == ASSUME Premises, Init PROVE Inv /\ Abstract!Init
<1> DEFINE zero == [k \in Key |-> 0]
           v == [store |-> zero, index |-> 0]
<1>0. views = <<v>> /\ v \in ViewRec /\ v.store = zero /\ v.index = 0 BY DEF Init, ViewRec, Seen
<1> HIDE DEF v
<1>v. /\ views \in Seq(ViewRec) /\ Len(views) = 1 /\ views[1] = v /\ DOMAIN views = 1..1
  BY <1>0
<1>1. Shape /\ ViewsOrdered
  <2>1. issued \in Nat /\ rebuilt \in BOOLEAN /\ term \in Nat /\ leader \in Node \cup {None}
    BY DEF Init
  <2>2. tx \in [Client -> TxRec] BY Blank DEF Init
  <2>3. ViewsOrdered BY <1>0, <1>v DEF ViewsOrdered, Init
  <2> QED BY <1>v, <2>1, <2>2, <2>3 DEF Init, Shape
<1>2. ASSUME NEW c \in Client PROVE /\ ClientInv(c) /\ tx[c].call = "idle" /\ tx[c].saw = None
                                          /\ tx[c].late = FALSE /\ tx[c].kind = None
  <2>1. tx[c] = Tx0 /\ net[c] = None BY DEF Init
  <2>2. Tx0.call = "idle" BY DEF Tx0
  <2> QED BY <2>1, <2>2, Blank DEF ClientInv, StampCurrent, EffectOnce, Unread
<1>3. Abstract!Init
  <2>1. \E z \in [Key -> {0}] : Stores = <<z>>
    <3>1. Stores = [i \in 1..1 |-> views[i].store] BY <1>v DEF Stores
    <3>2. Stores = <<zero>> BY <1>0, <1>v, <3>1
    <3> QED BY <3>2
  <2>2. [c \in Client |-> tx[c].call] = [c \in Client |-> "idle"] BY <1>2
  <2>3. [c \in Client |-> tx[c].saw # None] = [c \in Client |-> FALSE] BY <1>2
  <2>4. [c \in Client |-> tx[c].saw] = [c \in Client |-> None] BY <1>2
  <2>5. [c \in Client |-> tx[c].late] = [c \in Client |-> FALSE] BY <1>2
  <2>6. [c \in Client |-> tx[c].kind = "content"] = [c \in Client |-> FALSE] BY <1>2 DEF Premises
  <2> QED BY <2>1, <2>2, <2>3, <2>4, <2>5, <2>6, Zenon DEF Abstract!Init, Stores
<1> QED BY <1>1, <1>2, <1>3 DEF Inv

\* Optimistic transactions over the cluster behave like transactions on one
\* atomic store: through conflicts, elections, redirects, lost and late messages
\* and leaders of two releases, each reads and writes at one instant.  A replicated
\* write is never lost, a local one only with all that was written after it; and
\* a transaction is repeated only after not_leader to a write that was applied.
THEOREM ImplementsAtomicStore == ASSUME Premises PROVE Spec => Atomic
<1>1. Init => Inv /\ Abstract!Init BY InitHolds
<1>2. Inv /\ [Next]_vars => Inv' /\ [Abstract!Next]_(Abstract!vars)
  BY StepHolds DEF Abstractly
<1> QED BY <1>1, <1>2, PTL DEF Spec, Atomic, Abstract!Spec
=============================================================================
