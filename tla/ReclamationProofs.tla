------------------------- MODULE ReclamationProofs -------------------------
(***************************************************************************)
(* Proofs about Reclamation, for any number of generations, storage        *)
(* instances and faults: a refunded version is on no volume, no version    *)
(* the owner may go back to loses its last copy, and charge and queue are  *)
(* exact.                                                                  *)
(*                                                                         *)
(* The argument: the members of a version that is being reclaimed are      *)
(* fixed.  A member passes the second look only while the folder is        *)
(* exactly these members and is paused with the version ignored; whoever   *)
(* joins after one member has passed comes too late to be offered the      *)
(* upload.  So once all have passed nobody else has a copy, and nobody     *)
(* can get one.                                                            *)
(***************************************************************************)
EXTENDS Reclamation, FiniteSetTheorems, TLAPS

Shape ==
    /\ project \in [status : {"none", "reserved", "active", "deleted"}, active : 0..Gens,
                    pending : 0..Gens]
    /\ ops \in [Gen -> {"none", "pending", "complete", "aborted"}]
    /\ versions \in [Gen -> Version \cup {None}]
    /\ overdue \subseteq Gen /\ removals \subseteq Gen /\ queue \subseteq Gen /\ confirmed \subseteq Gen
    /\ cohort \subseteq Device /\ cohort # {} /\ faults \in 0..MaxFaults
    /\ receipts \in [Device -> [Gen -> {"none", "reserved", "stored", "canceled"}]]
    /\ busy \in [Device -> SUBSET Gen] /\ holds \in [Device -> SUBSET Gen]
    /\ ignored \in [Device -> SUBSET Gen] /\ missed \in [Device -> SUBSET Gen]
    /\ fences \in [Device -> [Gen -> Fence \cup {None}]]
    /\ sealed \in [Device -> BOOLEAN] /\ paused \in [Device -> BOOLEAN]
    /\ config \in [Device -> SUBSET Device]
    /\ handler \in [Device -> Handling \cup {None}]

\* g is being reclaimed or has been.
Ending(g) == State(g) \in {"retiring", "reclaimed"}

-----------------------------------------------------------------------------
(* The authority's records *)

\* A version is retained until its upload is over, then its members are fixed;
\* it goes because the project does, or because its owner has no use for it.
VersionOK(g) ==
    /\ ops[g] = "none" <=> versions[g] = None
    /\ State(g) = "retained" => versions[g].members = {} /\ versions[g].acked = {}
    /\ Ending(g) =>
        /\ g \in overdue /\ versions[g].members # {} /\ versions[g].acked \subseteq versions[g].members
        /\ project.status # "deleted" => Unneeded(g)
    /\ State(g) = "reclaimed" => versions[g].acked = versions[g].members
    /\ versions[g] # None /\ versions[g].deleted => project.status = "deleted"
    /\ ops[g] = "complete" => g \in confirmed
    /\ g \in confirmed => ops[g] # "none"

DeletedIdle == project.status = "deleted" => project.pending = 0

-----------------------------------------------------------------------------
(* The storage instances *)

\* There is one folder, and nothing reaches an instance outside it.
Folder == {d \in Device : config[d] # {}}

FolderOK(d) ==
    /\ config[d] \in {{}, Folder}
    /\ config[d] = {} =>
        holds[d] = {} /\ busy[d] = {} /\ \A g \in Gen : receipts[d][g] = "none"

\* Uploads are of versions there are, and of those an instance was offered.
ReceiptOK(d, g) ==
    /\ receipts[d][g] # "none" => ops[g] # "none"
    /\ g \in busy[d] => receipts[d][g] # "none"
    /\ g \in missed[d] => receipts[d][g] = "none"

\* A fence is a member's; one that is done keeps the bytes away for good.
Done(d, g) == fences[d][g] # None /\ fences[d][g].done

FenceOK(d, g) ==
    /\ fences[d][g] # None => Ending(g) /\ d \in versions[g].members
    /\ Done(d, g) => g \notin holds[d] /\ g \in ignored[d]
    /\ versions[g] # None /\ d \in versions[g].acked => Done(d, g)

\* What a request has done already, at each of its steps.
HandlerOK(d) ==
    handler[d] # None =>
        LET h == handler[d] IN
        /\ fences[d][h.gen] # None
        /\ h.whole => project.status = "deleted"
        /\ h.step \in {"ignore", "check", "remove", "resume"} => paused[d]
        /\ h.step \in {"check", "remove", "resume", "complete"} => h.gen \in ignored[d]
        /\ h.step \in {"resume", "complete"} => h.gen \notin holds[d]

-----------------------------------------------------------------------------
(* Both *)

\* Member d has seen, with its folder paused, that the members are still the folder.
Passed(d, g) ==
    \/ Done(d, g)
    \/ handler[d] # None /\ handler[d].gen = g /\ handler[d].step \in {"remove", "resume", "complete"}

AllPassed(g) == \A d \in versions[g].members : Passed(d, g)

\* Whoever is not a member when one has passed was never offered the version;
\* when all have passed, no such instance holds it.
NewcomersOK(g) ==
    Ending(g) => \A d \in versions[g].members, e \in Folder \ versions[g].members :
        Passed(d, g) => g \in missed[e]

ClearedOK(g) ==
    Ending(g) /\ AllPassed(g) => \A e \in Device \ versions[g].members : g \notin holds[e]

\* A confirmed version has a copy while it is retained.
KeptOK(g) ==
    project.status # "deleted" /\ g \in confirmed /\ State(g) = "retained" =>
        \E d \in Device : g \in holds[d]

Authority == DeletedIdle /\ \A g \in Gen : VersionOK(g)
Instances ==
    /\ \A d \in Device : FolderOK(d) /\ HandlerOK(d)
    /\ \A d \in Device, g \in Gen : ReceiptOK(d, g) /\ FenceOK(d, g)
Copies == \A g \in Gen : NewcomersOK(g) /\ ClearedOK(g) /\ KeptOK(g)

Inv == Shape /\ Authority /\ Instances /\ Copies /\ LedgerExact

-----------------------------------------------------------------------------
(* Frames *)

\* A version's record, and what its state is called.
LEMMA States ==
  ASSUME Shape, NEW g \in Gen
  PROVE  /\ versions[g] # None => /\ versions[g] \in Version /\ State(g) = versions[g].state
                                  /\ versions[g].members \subseteq Device /\ versions[g].acked \subseteq Device
         /\ versions[g] = None => State(g) = "none"
         /\ State(g) # "none" <=> versions[g] # None
         /\ State(g) \in {"none", "retained", "retiring", "reclaimed"}
  BY NoneAssumption DEF Shape, State, Version

\* Nobody passes unless the version is ending, and only members do.
LEMMA PassedEnding ==
  ASSUME Inv, NEW d \in Device, NEW g \in Gen, Passed(d, g)
  PROVE  Ending(g) /\ d \in versions[g].members /\ fences[d][g] # None
<1>1. fences[d][g] # None
  BY DEF Inv, Instances, Passed, Done, HandlerOK
<1> QED BY <1>1 DEF Inv, Instances, FenceOK

\* What a step of the authority does not take back.
Onward(g) ==
    /\ Ending(g) => Ending(g)' /\ versions'[g].members = versions[g].members
    /\ ops[g] # "none" => ops'[g] # "none"
    /\ \A d \in Device : versions'[g] # None /\ d \in versions'[g].acked => Done(d, g)

\* The instances do not notice a step of the authority.
LEMMA AuthorityFrame ==
  ASSUME Inv, Shape', Authority', UNCHANGED <<volume, sync, handler, faults>>,
         project.status = "deleted" => project'.status = "deleted",
         \A g \in Gen : Onward(g)
  PROVE  Instances' /\ \A g \in Gen : NewcomersOK(g)' /\ ClearedOK(g)'
<1>1. UNCHANGED <<receipts, busy, holds, fences, sealed, config, missed, paused, ignored, handler>>
  BY DEF volume, sync
<1>2. Folder' = Folder /\ \A d \in Device, g \in Gen : (Passed(d, g)' <=> Passed(d, g)) /\ (Done(d, g)' <=> Done(d, g))
  BY <1>1 DEF Folder, Passed, Done
<1>3. ASSUME NEW d \in Device PROVE FolderOK(d)' /\ HandlerOK(d)'
  <2>1. FolderOK(d) /\ HandlerOK(d) BY DEF Inv, Instances
  <2>2. FolderOK(d)' BY <1>1, <1>2, <2>1 DEF FolderOK
  <2>3. HandlerOK(d)' BY <1>1, <2>1 DEF HandlerOK
  <2> QED BY <2>2, <2>3
<1>4. ASSUME NEW d \in Device, NEW g \in Gen PROVE ReceiptOK(d, g)' /\ FenceOK(d, g)'
  <2>1. ReceiptOK(d, g) /\ FenceOK(d, g) /\ Onward(g) BY DEF Inv, Instances
  <2>2. ReceiptOK(d, g)' BY <1>1, <2>1 DEF ReceiptOK, Onward
  <2>3. FenceOK(d, g)' BY <1>1, <1>2, <2>1 DEF FenceOK, Onward
  <2> QED BY <2>2, <2>3
<1>5. ASSUME NEW g \in Gen PROVE NewcomersOK(g)' /\ ClearedOK(g)'
  <2>1. NewcomersOK(g) /\ ClearedOK(g) /\ Onward(g) BY DEF Inv, Copies
  <2>2. CASE Ending(g)
    <3>1. versions'[g].members = versions[g].members BY <2>1, <2>2 DEF Onward
    <3>2. versions[g].members \subseteq Device BY <2>2, States DEF Inv, Ending
    <3>3. NewcomersOK(g)' BY <1>1, <1>2, <2>1, <2>2, <3>1, <3>2 DEF NewcomersOK
    <3>4. ClearedOK(g)' BY <1>1, <1>2, <2>1, <2>2, <3>1, <3>2 DEF ClearedOK, AllPassed
    <3> QED BY <3>3, <3>4
  <2>3. CASE ~Ending(g)
    <3>1. \A d \in Device : ~Passed(d, g)' BY <1>2, <2>3, PassedEnding
    <3>2. Ending(g)' => versions'[g].members # {} /\ versions'[g].members \subseteq Device
      BY DEF Authority, VersionOK, Ending, State, Shape, Version
    <3> QED BY <3>1, <3>2 DEF NewcomersOK, ClearedOK, AllPassed
  <2> QED BY <2>2, <2>3
<1> QED BY <1>3, <1>4, <1>5 DEF Instances

\* The records do not notice a step of an instance.
LEMMA InstanceFrame ==
  ASSUME Inv, UNCHANGED authority
  PROVE  Authority' /\ LedgerExact'
<1>1. UNCHANGED <<project, ops, overdue, versions, removals, queue, allocated, confirmed, cohort>>
  BY DEF authority
<1>2. \A g \in Gen : VersionOK(g)' <=> VersionOK(g)
  BY <1>1 DEF VersionOK, Ending, State, Unneeded
<1>3. Authority' BY <1>1, <1>2 DEF Inv, Authority, DeletedIdle
<1>4. LedgerExact' BY <1>1 DEF Inv, LedgerExact, State
<1> QED BY <1>3, <1>4

\* Bytes that stay where they are.
LEMMA KeptFrame ==
  ASSUME Inv, UNCHANGED holds, project.status = "deleted" => project'.status = "deleted",
         NEW g \in Gen, g \in confirmed' => g \in confirmed, State(g)' = "retained" => State(g) = "retained"
  PROVE  KeptOK(g)'
  BY DEF Inv, Copies, KeptOK

-----------------------------------------------------------------------------
(* The authority's actions *)

Charged == {g \in Gen : State(g) \in {"retained", "retiring"}}
ProjectRec == [status : {"none", "reserved", "active", "deleted"}, active : 0..Gens, pending : 0..Gens]

\* updateStorageQueue misses no version.
LEMMA RequeuedLedger ==
  ASSUME Inv, NEW new \in ProjectRec, SetProject(new), UNCHANGED <<versions, allocated>>,
         project.status = "active" => new.status \in {"active", "deleted"}
  PROVE  LedgerExact' /\ queue' \subseteq Gen
<1>1. queue' = Requeued(new) /\ project' = new BY DEF SetProject
<1>2. \A g \in Gen : State(g)' = State(g) BY DEF State
<1>3. allocated' = Cardinality({g \in Gen : State(g)' \in {"retained", "retiring"}})
  BY <1>2 DEF Inv, LedgerExact
<1>4. queue' \subseteq Gen
  <2>1. project.active \in 0..Gens /\ queue \subseteq Gen BY DEF Inv, Shape
  <2>2. project.active # 0 => project.active \in Gen BY <2>1, ReclamationAssumption DEF Gen
  <2> QED BY <1>1, <2>1, <2>2 DEF Requeued
<1>5. ASSUME NEW g \in Gen, State(g) \in {"retained", "retiring"}
      PROVE  g \in queue' \/ (new.status = "active" /\ new.active = g)
  <2>1. g \in queue \/ (project.status = "active" /\ project.active = g) BY <1>5 DEF Inv, LedgerExact
  <2>2. g # 0 BY ReclamationAssumption DEF Gen
  <2> QED BY <1>1, <1>5, <2>1, <2>2 DEF Requeued
<1> QED BY <1>1, <1>2, <1>3, <1>4, <1>5 DEF LedgerExact

\* The record of a project that changes, when versions do not.
LEMMA ProjectStep ==
  ASSUME Inv, NEW new \in ProjectRec, SetProject(new), UNCHANGED <<versions, allocated, removals, overdue, confirmed, cohort>>,
         UNCHANGED <<volume, sync, handler, faults>>,
         project.status = "active" => new.status \in {"active", "deleted"},
         project.status = "deleted" => new.status = "deleted", new.status = "deleted" => new.pending = 0,
         ops' \in [Gen -> {"none", "pending", "complete", "aborted"}],
         \A g \in Gen : /\ ops'[g] = "none" <=> ops[g] = "none"
                        /\ ops[g] = "aborted" => ops'[g] = "aborted"
                        /\ ops'[g] = "complete" => g \in confirmed
  PROVE  Inv'
<1>1. project' = new BY DEF SetProject
<1>2. LedgerExact' /\ queue' \subseteq Gen BY RequeuedLedger
<1>3. Shape' BY <1>1, <1>2 DEF Inv, Shape, ProjectRec, volume, sync
<1>4. \A g \in Gen : State(g)' = State(g) /\ (Ending(g)' <=> Ending(g)) BY DEF State, Ending
<1>5. Authority'
  <2>1. DeletedIdle' BY <1>1 DEF DeletedIdle
  <2>2. ASSUME NEW g \in Gen PROVE VersionOK(g)'
    <3>1. VersionOK(g) BY DEF Inv, Authority
    <3> QED BY <1>1, <1>4, <3>1 DEF VersionOK, Unneeded
  <2> QED BY <2>1, <2>2 DEF Authority
<1>6. \A g \in Gen : Onward(g)
  BY <1>4 DEF Inv, Instances, FenceOK, Onward
<1>7. Instances' /\ \A g \in Gen : NewcomersOK(g)' /\ ClearedOK(g)'
  BY <1>1, <1>3, <1>5, <1>6, AuthorityFrame
<1>8. \A g \in Gen : KeptOK(g)' BY <1>1, <1>4, KeptFrame DEF volume
<1> QED BY <1>2, <1>3, <1>5, <1>7, <1>8 DEF Inv, Copies

LEMMA ActivateInv == ASSUME Inv, NEW g \in Gen, Activate(g) PROVE Inv'
<1> DEFINE new == [project EXCEPT !.status = "active", !.active = g, !.pending = 0]
<1>1. /\ SetProject(new) /\ ops' = [ops EXCEPT ![g] = "complete"] /\ g \in confirmed /\ ops[g] = "pending"
      /\ project.pending = g
      /\ UNCHANGED <<overdue, versions, removals, allocated, confirmed, cohort, volume, sync, handler, faults>>
  BY DEF Activate
<1>2. project \in ProjectRec /\ g \in 0..Gens /\ g # 0 /\ 0 \in 0..Gens
  BY ReclamationAssumption DEF Inv, Shape, ProjectRec, Gen
<1>3. new \in ProjectRec /\ new.status = "active" BY <1>2 DEF ProjectRec
<1>4. project.status # "deleted" BY <1>1, <1>2 DEF Inv, Authority, DeletedIdle
<1>5. ops' \in [Gen -> {"none", "pending", "complete", "aborted"}] BY <1>1 DEF Inv, Shape
<1>6. \A h \in Gen : /\ ops'[h] = "none" <=> ops[h] = "none"
                     /\ ops[h] = "aborted" => ops'[h] = "aborted"
                     /\ ops'[h] = "complete" => h \in confirmed
  BY <1>1 DEF Inv, Shape, Authority, VersionOK
<1> HIDE DEF new
<1> QED BY <1>1, <1>3, <1>4, <1>5, <1>6, ProjectStep

LEMMA AbortInv == ASSUME Inv, NEW g \in Gen, Abort(g) PROVE Inv'
<1> DEFINE new == [project EXCEPT !.status = IF @ = "reserved" THEN "deleted" ELSE @, !.pending = 0]
<1>1. /\ SetProject(new) /\ ops' = [ops EXCEPT ![g] = "aborted"] /\ ops[g] = "pending" /\ project.pending = g
      /\ UNCHANGED <<overdue, versions, removals, allocated, confirmed, cohort, volume, sync, handler, faults>>
  BY DEF Abort
<1>2. project \in ProjectRec /\ g # 0 /\ 0 \in 0..Gens
  BY ReclamationAssumption DEF Inv, Shape, ProjectRec, Gen
<1>3. /\ new \in ProjectRec /\ new.pending = 0
      /\ new.status = IF project.status = "reserved" THEN "deleted" ELSE project.status
  BY <1>2 DEF ProjectRec
<1>5. ops' \in [Gen -> {"none", "pending", "complete", "aborted"}] BY <1>1 DEF Inv, Shape
<1>6. \A h \in Gen : /\ ops'[h] = "none" <=> ops[h] = "none"
                     /\ ops[h] = "aborted" => ops'[h] = "aborted"
                     /\ ops'[h] = "complete" => h \in confirmed
  BY <1>1 DEF Inv, Shape, Authority, VersionOK
<1> HIDE DEF new
<1> QED BY <1>1, <1>3, <1>5, <1>6, ProjectStep

LEMMA SelectInv == ASSUME Inv, NEW g \in Gen, SelectRevision(g) PROVE Inv'
<1> DEFINE new == [project EXCEPT !.active = g]
<1>1. /\ SetProject(new) /\ project.status = "active"
      /\ UNCHANGED <<ops, overdue, versions, removals, allocated, confirmed, cohort, volume, sync, handler, faults>>
  BY DEF SelectRevision
<1>2. project \in ProjectRec /\ g \in 0..Gens BY ReclamationAssumption DEF Inv, Shape, ProjectRec, Gen
<1>3. new \in ProjectRec /\ new.status = "active" BY <1>1, <1>2 DEF ProjectRec
<1>5. ops' \in [Gen -> {"none", "pending", "complete", "aborted"}] BY <1>1 DEF Inv, Shape
<1>6. \A h \in Gen : ops'[h] = "complete" => h \in confirmed
  BY <1>1 DEF Inv, Authority, VersionOK
<1> HIDE DEF new
<1> QED BY <1>1, <1>3, <1>5, <1>6, ProjectStep

LEMMA DeleteInv == ASSUME Inv, Delete PROVE Inv'
<1> DEFINE new == [project EXCEPT !.status = "deleted"]
<1>1. /\ SetProject(new) /\ project.status = "active" /\ project.pending = 0
      /\ UNCHANGED <<ops, overdue, versions, removals, allocated, confirmed, cohort, volume, sync, handler, faults>>
  BY DEF Delete
<1>2. project \in ProjectRec BY DEF Inv, Shape, ProjectRec
<1>3. new \in ProjectRec /\ new.status = "deleted" /\ new.pending = 0 BY <1>1, <1>2 DEF ProjectRec
<1>5. ops' \in [Gen -> {"none", "pending", "complete", "aborted"}] BY <1>1 DEF Inv, Shape
<1>6. \A h \in Gen : ops'[h] = "complete" => h \in confirmed
  BY <1>1 DEF Inv, Authority, VersionOK
<1> HIDE DEF new
<1> QED BY <1>1, <1>3, <1>5, <1>6, ProjectStep

\* Records that only grow.
LEMMA RecordsStep ==
  ASSUME Inv, UNCHANGED <<project, ops, versions, allocated, volume, sync, handler, faults>>,
         removals' \subseteq Gen, removals \subseteq removals', overdue' \subseteq Gen, overdue \subseteq overdue',
         queue' \subseteq Gen, queue \subseteq queue', cohort' \subseteq Device, cohort' # {},
         confirmed' \subseteq Gen, confirmed \subseteq confirmed',
         \A g \in confirmed' \ confirmed : ops[g] # "none" /\ \E d \in Device : g \in holds[d]
  PROVE  Inv'
<1>1. \A g \in Gen : State(g)' = State(g) /\ (Ending(g)' <=> Ending(g)) BY DEF State, Ending
<1>2. Shape' BY DEF Inv, Shape, volume, sync
<1>3. Authority'
  <2>1. DeletedIdle' BY DEF Inv, Authority, DeletedIdle
  <2>2. ASSUME NEW g \in Gen PROVE VersionOK(g)'
    <3>1. VersionOK(g) BY DEF Inv, Authority
    <3> QED BY <1>1, <3>1 DEF VersionOK, Unneeded
  <2> QED BY <2>1, <2>2 DEF Authority
<1>4. \A g \in Gen : Onward(g) BY <1>1 DEF Inv, Instances, FenceOK, Onward
<1>5. Instances' /\ \A g \in Gen : NewcomersOK(g)' /\ ClearedOK(g)' BY <1>2, <1>3, <1>4, AuthorityFrame
<1>6. ASSUME NEW g \in Gen PROVE KeptOK(g)'
  <2>1. CASE g \in confirmed' \ confirmed BY <2>1 DEF KeptOK, volume
  <2>2. CASE g \notin confirmed' \ confirmed BY <1>1, <2>2, KeptFrame DEF volume
  <2> QED BY <2>1, <2>2
<1>7. LedgerExact' BY <1>1 DEF Inv, LedgerExact
<1> QED BY <1>2, <1>3, <1>5, <1>6, <1>7 DEF Inv, Copies

LEMMA RemoveRevisionInv == ASSUME Inv, NEW g \in Gen, RemoveRevision(g) PROVE Inv'
<1>1. /\ removals' = removals \cup {g} /\ queue' = queue \cup {g}
      /\ UNCHANGED <<project, ops, overdue, versions, allocated, confirmed, cohort, volume, sync, handler, faults>>
  BY DEF RemoveRevision
<1> QED BY <1>1, RecordsStep DEF Inv, Shape

LEMMA DeadlineInv == ASSUME Inv, NEW g \in Gen, Deadline(g) PROVE Inv'
<1>1. /\ overdue' = overdue \cup {g}
      /\ UNCHANGED <<project, ops, versions, removals, queue, allocated, confirmed, cohort, volume, sync, handler, faults>>
  BY DEF Deadline
<1> QED BY <1>1, RecordsStep DEF Inv, Shape

LEMMA CommitInv == ASSUME Inv, NEW d \in Device, NEW g \in Gen, Commit(d, g) PROVE Inv'
<1>1. /\ confirmed' = confirmed \cup {g} /\ receipts[d][g] = "stored" /\ g \in holds[d]
      /\ UNCHANGED <<project, ops, overdue, versions, removals, queue, allocated, cohort, volume, sync, handler, faults>>
  BY DEF Commit, Committed
<1>2. ops[g] # "none" BY <1>1 DEF Inv, Instances, ReceiptOK
<1> QED BY <1>1, <1>2, RecordsStep DEF Inv, Shape

LEMMA ReadCohortInv == ASSUME Inv, ReadCohort PROVE Inv'
<1>1. /\ cohort' \subseteq Device /\ cohort' # {}
      /\ UNCHANGED <<project, ops, overdue, versions, removals, queue, allocated, confirmed, volume, sync, handler, faults>>
  BY DEF ReadCohort
<1> QED BY <1>1, RecordsStep DEF Inv, Shape

\* Versions are finitely many.
LEMMA ChargedFinite == IsFiniteSet(Charged) /\ Charged \subseteq Gen
<1>1. IsFiniteSet(Gen) BY FS_Interval, ReclamationAssumption DEF Gen
<1>2. Charged \subseteq Gen BY DEF Charged
<1> QED BY <1>1, <1>2, FS_Subset

LEMMA ReserveInv == ASSUME Inv, NEW g \in Gen, Reserve(g) PROVE Inv'
<1>1. /\ ops[g] = "none" /\ project.status \in {"none", "active"} /\ project.pending = 0
      /\ project' = [project EXCEPT !.status = IF @ = "none" THEN "reserved" ELSE @, !.pending = g]
      /\ ops' = [ops EXCEPT ![g] = "pending"] /\ versions' = [versions EXCEPT ![g] = Retained]
      /\ allocated' = allocated + 1 /\ queue' = queue \cup {g}
      /\ UNCHANGED <<overdue, removals, confirmed, cohort, volume, sync, handler, faults>>
  BY DEF Reserve
<1>2. project \in ProjectRec /\ g \in 0..Gens BY ReclamationAssumption DEF Inv, Shape, ProjectRec, Gen
<1>3. /\ project' \in ProjectRec /\ project'.active = project.active
      /\ project'.status = IF project.status = "none" THEN "reserved" ELSE project.status
  BY <1>1, <1>2 DEF ProjectRec
<1>4. Retained \in Version /\ Retained # None
  <2>1. Retained \in Version BY DEF Retained, Version
  <2> QED BY <2>1, NoneAssumption
<1>5. /\ versions[g] = None /\ versions'[g] = Retained /\ State(g) = "none" /\ State(g)' = "retained"
      /\ \A h \in Gen : h # g => versions'[h] = versions[h] /\ State(h)' = State(h) /\ ops'[h] = ops[h]
      /\ ops'[g] = "pending"
  <2>1. versions[g] = None BY <1>1 DEF Inv, Authority, VersionOK
  <2> QED BY <1>1, <1>4, <2>1 DEF Inv, Shape, State, Retained
<1>6. Shape' BY <1>1, <1>3, <1>4 DEF Inv, Shape, ProjectRec, volume, sync
<1>7. Authority'
  <2>1. DeletedIdle' BY <1>1, <1>3 DEF DeletedIdle
  <2>2. ASSUME NEW h \in Gen PROVE VersionOK(h)'
    <3>1. VersionOK(h) BY DEF Inv, Authority
    <3>2. CASE h = g BY <1>1, <1>4, <1>5, <3>1, <3>2 DEF VersionOK, Ending, Retained
    <3>3. CASE h # g BY <1>1, <1>3, <1>5, <3>1, <3>3 DEF VersionOK, Ending, Unneeded
    <3> QED BY <3>2, <3>3
  <2> QED BY <2>1, <2>2 DEF Authority
<1>8. ASSUME NEW h \in Gen PROVE Onward(h)
  <2>1. CASE h = g BY <1>5, <2>1 DEF Onward, Ending, Retained
  <2>2. CASE h # g BY <1>5, <2>2 DEF Inv, Instances, FenceOK, Onward, Ending
  <2> QED BY <2>1, <2>2
<1>9. Instances' /\ \A h \in Gen : NewcomersOK(h)' /\ ClearedOK(h)' BY <1>1, <1>3, <1>6, <1>7, <1>8, AuthorityFrame
<1>10. ASSUME NEW h \in Gen PROVE KeptOK(h)'
  <2>1. CASE h = g
    <3>1. g \notin confirmed BY <1>1 DEF Inv, Authority, VersionOK
    <3> QED BY <1>1, <2>1, <3>1 DEF KeptOK
  <2>2. CASE h # g BY <1>1, <1>3, <1>5, <2>2, KeptFrame DEF volume
  <2> QED BY <2>1, <2>2
<1>11. LedgerExact'
  <2>1. allocated = Cardinality(Charged) BY DEF Inv, LedgerExact, Charged
  <2>2. {h \in Gen : State(h)' \in {"retained", "retiring"}} = Charged \cup {g} /\ g \notin Charged
    BY <1>5 DEF Charged
  <2>3. Cardinality(Charged \cup {g}) = Cardinality(Charged) + 1 BY <2>2, ChargedFinite, FS_AddElement
  <2>4. \A h \in Gen : State(h)' \in {"retained", "retiring"} =>
            h \in queue' \/ (project'.status = "active" /\ project'.active = h)
    BY <1>1, <1>3, <1>5 DEF Inv, LedgerExact
  <2> QED BY <1>1, <2>1, <2>2, <2>3, <2>4 DEF LedgerExact
<1> QED BY <1>6, <1>7, <1>9, <1>10, <1>11 DEF Inv, Copies

LEMMA RetireInv == ASSUME Inv, NEW g \in Gen, Retire(g) PROVE Inv'
<1> DEFINE v == versions[g]
           gone == project.status = "deleted"
           w == [v EXCEPT !.state = "retiring", !.members = cohort, !.deleted = gone]
<1>1. /\ State(g) \in {"retained", "retiring"} /\ (State(g) = "retained" => g \in overdue)
      /\ project.status \in {"active", "deleted"}
      /\ project.status = "active" /\ State(g) = "retained" => Unneeded(g)
      /\ v.members \in {{}, cohort} /\ versions' = [versions EXCEPT ![g] = w]
      /\ UNCHANGED <<project, ops, overdue, removals, queue, allocated, confirmed, cohort, volume, sync, handler, faults>>
  BY DEF Retire
<1>2. v \in Version /\ v.state = State(g) /\ v # None BY <1>1, States DEF Inv
<1>3. w \in Version /\ w.state = "retiring" /\ w.members = cohort /\ w.acked = v.acked /\ w.deleted = gone
  <2>1. cohort \subseteq Device /\ gone \in BOOLEAN BY DEF Inv, Shape
  <2> HIDE DEF gone
  <2> QED BY <1>2, <2>1 DEF Version
<1>4. w # None BY <1>3, NoneAssumption
<1>5. /\ versions'[g] = w /\ State(g)' = "retiring"
      /\ \A h \in Gen : h # g => versions'[h] = versions[h] /\ State(h)' = State(h)
  BY <1>1, <1>3, <1>4 DEF Inv, Shape, State
<1>6. /\ Ending(g) => cohort = v.members /\ v.acked \subseteq v.members /\ g \in overdue
                      /\ (project.status # "deleted" => Unneeded(g))
      /\ ~Ending(g) => v.acked = {}
      /\ (ops[g] # "none") /\ (ops[g] = "complete" => g \in confirmed)
  BY <1>1, <1>2 DEF Inv, Authority, VersionOK, Ending
<1> HIDE DEF w
<1>7. Shape' BY <1>1, <1>3 DEF Inv, Shape, volume, sync
<1>8. Authority'
  <2>1. DeletedIdle' BY <1>1 DEF Inv, Authority, DeletedIdle
  <2>2. ASSUME NEW h \in Gen PROVE VersionOK(h)'
    <3>1. VersionOK(h) BY DEF Inv, Authority
    <3>2. CASE h = g
      <4>1. cohort # {} BY DEF Inv, Shape
      <4>2. g \in overdue /\ (project.status # "deleted" => Unneeded(g)) /\ w.acked \subseteq w.members
        BY <1>1, <1>3, <1>6 DEF Ending
      <4> QED BY <1>1, <1>3, <1>4, <1>5, <1>6, <3>2, <4>1, <4>2 DEF VersionOK, Ending, Unneeded
    <3>3. CASE h # g BY <1>1, <1>5, <3>1, <3>3 DEF VersionOK, Ending, Unneeded
    <3> QED BY <3>2, <3>3
  <2> QED BY <2>1, <2>2 DEF Authority
<1>9. ASSUME NEW h \in Gen PROVE Onward(h)
  <2>1. \A d \in Device : FenceOK(d, h) BY DEF Inv, Instances
  <2>2. CASE h = g BY <1>1, <1>2, <1>3, <1>5, <1>6, <2>1, <2>2 DEF FenceOK, Onward, Ending
  <2>3. CASE h # g BY <1>1, <1>5, <2>1, <2>3 DEF FenceOK, Onward, Ending
  <2> QED BY <2>2, <2>3
<1>10. Instances' /\ \A h \in Gen : NewcomersOK(h)' /\ ClearedOK(h)' BY <1>1, <1>7, <1>8, <1>9, AuthorityFrame
<1>11. \A h \in Gen : KeptOK(h)' BY <1>1, <1>5, KeptFrame DEF volume
<1>12. LedgerExact'
  <2>1. \A h \in Gen : State(h)' \in {"retained", "retiring"} <=> State(h) \in {"retained", "retiring"}
    BY <1>1, <1>5
  <2> QED BY <1>1, <2>1 DEF Inv, LedgerExact
<1> QED BY <1>7, <1>8, <1>10, <1>11, <1>12 DEF Inv, Copies

LEMMA AcknowledgeInv == ASSUME Inv, NEW d \in Device, NEW g \in Gen, Acknowledge(d, g) PROVE Inv'
<1> DEFINE v == versions[g]
           a == v.acked \cup {d}
           s == IF a # v.members THEN v.state ELSE "reclaimed"
           w == [v EXCEPT !.acked = a, !.state = s]
<1>1. /\ v # None /\ Done(d, g) /\ v.state = "retiring" /\ d \in v.members \ v.acked
      /\ versions' = [versions EXCEPT ![g].acked = a] \/ versions' = [versions EXCEPT ![g].acked = a, ![g].state = "reclaimed"]
      /\ UNCHANGED <<project, ops, overdue, removals, confirmed, cohort, volume, sync, handler, faults>>
  BY DEF Acknowledge, Due, Done
<1>2. v \in Version /\ State(g) = "retiring" /\ v.members \subseteq Device /\ Ending(g)
  BY <1>1, States DEF Inv, Ending
<1>3. /\ w \in Version /\ w.members = v.members /\ w.acked = a /\ w.deleted = v.deleted
      /\ w.state = s /\ s \in {"retiring", "reclaimed"} /\ (s = "reclaimed" <=> a = v.members)
  BY <1>1, <1>2 DEF Version
<1>4. w # None BY <1>3, NoneAssumption
<1>5. versions' = [versions EXCEPT ![g] = w]
  <2>1. CASE a # v.members
    <3>1. versions' = [versions EXCEPT ![g].acked = a] BY <2>1 DEF Acknowledge
    <3>2. w = [v EXCEPT !.acked = a] BY <1>1, <1>2, <2>1 DEF Version
    <3> QED BY <3>1, <3>2
  <2>2. CASE a = v.members
    <3>1. versions' = [versions EXCEPT ![g].acked = a, ![g].state = "reclaimed"] BY <2>2 DEF Acknowledge
    <3> QED BY <2>2, <3>1 DEF Inv, Shape
  <2> QED BY <2>1, <2>2
<1>6. /\ versions'[g] = w /\ State(g)' = s
      /\ \A h \in Gen : h # g => versions'[h] = versions[h] /\ State(h)' = State(h)
  BY <1>3, <1>4, <1>5 DEF Inv, Shape, State
<1>7. /\ a # v.members => UNCHANGED <<queue, allocated>>
      /\ a = v.members => queue' = queue \ {g} /\ allocated' = allocated - 1
  BY DEF Acknowledge
<1> HIDE DEF w, s
<1>8. Shape' BY <1>1, <1>3, <1>5, <1>7 DEF Inv, Shape, volume, sync
<1>9. Authority'
  <2>1. DeletedIdle' BY <1>1 DEF Inv, Authority, DeletedIdle
  <2>2. ASSUME NEW h \in Gen PROVE VersionOK(h)'
    <3>1. VersionOK(h) BY DEF Inv, Authority
    <3>2. CASE h = g BY <1>1, <1>2, <1>3, <1>4, <1>6, <3>1, <3>2 DEF VersionOK, Ending, Unneeded
    <3>3. CASE h # g BY <1>1, <1>6, <3>1, <3>3 DEF VersionOK, Ending, Unneeded
    <3> QED BY <3>2, <3>3
  <2> QED BY <2>1, <2>2 DEF Authority
<1>10. ASSUME NEW h \in Gen PROVE Onward(h)
  <2>1. \A e \in Device : FenceOK(e, h) BY DEF Inv, Instances
  <2>2. CASE h = g BY <1>1, <1>2, <1>3, <1>6, <2>1, <2>2 DEF FenceOK, Onward, Ending
  <2>3. CASE h # g BY <1>1, <1>6, <2>1, <2>3 DEF FenceOK, Onward, Ending
  <2> QED BY <2>2, <2>3
<1>11. Instances' /\ \A h \in Gen : NewcomersOK(h)' /\ ClearedOK(h)' BY <1>1, <1>8, <1>9, <1>10, AuthorityFrame
<1>12. \A h \in Gen : KeptOK(h)' BY <1>1, <1>3, <1>6, KeptFrame DEF volume
<1>13. LedgerExact'
  <2>1. allocated = Cardinality(Charged) /\ g \in Charged BY <1>2 DEF Inv, LedgerExact, Charged
  <2>2. CASE a # v.members
    <3>1. \A h \in Gen : State(h)' = State(h) BY <1>2, <1>3, <1>6, <2>2
    <3> QED BY <1>1, <1>7, <2>2, <3>1 DEF Inv, LedgerExact
  <2>3. CASE a = v.members
    <3>1. {h \in Gen : State(h)' \in {"retained", "retiring"}} = Charged \ {g}
      BY <1>3, <1>6, <2>3 DEF Charged
    <3>2. Cardinality(Charged \ {g}) = Cardinality(Charged) - 1 BY <2>1, ChargedFinite, FS_RemoveElement
    <3>3. \A h \in Gen : State(h)' \in {"retained", "retiring"} =>
            h \in queue' \/ (project'.status = "active" /\ project'.active = h)
      BY <1>1, <1>3, <1>6, <1>7, <2>3 DEF Inv, LedgerExact
    <3> QED BY <1>7, <2>1, <2>3, <3>1, <3>2, <3>3 DEF LedgerExact
  <2> QED BY <2>2, <2>3
<1> QED BY <1>8, <1>9, <1>11, <1>12, <1>13 DEF Inv, Copies

-----------------------------------------------------------------------------
(* Uploads and replication *)

\* Bytes of g arrive at d, if any do.
LEMMA StoreStep ==
  ASSUME Inv, UNCHANGED <<authority, fences, sealed, sync, handler, faults>>, Shape',
         \A e \in Device : FolderOK(e)', \A e \in Device, h \in Gen : ReceiptOK(e, h)',
         NEW d \in Device, NEW g \in Gen, holds[d] \subseteq holds'[d], holds'[d] \subseteq holds[d] \cup {g},
         \A e \in Device : e # d => holds'[e] = holds[e],
         holds'[d] # holds[d] =>
            /\ g \notin ignored[d] \/ fences[d][g] = None
            /\ Ending(g) /\ AllPassed(g) => d \in versions[g].members
  PROVE  Inv'
<1>1. UNCHANGED <<project, ops, overdue, versions, removals, confirmed, config, missed, paused, ignored>>
  BY DEF authority, sync
<1>2. Authority' /\ LedgerExact' BY InstanceFrame
<1>3. /\ Folder' = Folder
      /\ \A e \in Device, h \in Gen : (Passed(e, h)' <=> Passed(e, h)) /\ (Done(e, h)' <=> Done(e, h))
      /\ \A h \in Gen : State(h)' = State(h) /\ (Ending(h)' <=> Ending(h))
  BY <1>1 DEF Folder, Passed, Done, State, Ending
<1>4. ASSUME NEW e \in Device PROVE HandlerOK(e)'
  <2>1. HandlerOK(e) BY DEF Inv, Instances
  <2>2. holds'[e] \subseteq holds[e] \cup {g} /\ (e # d \/ holds'[d] = holds[d] => holds'[e] = holds[e]) OBVIOUS
  <2> QED BY <1>1, <2>1, <2>2 DEF HandlerOK
<1>5. ASSUME NEW e \in Device, NEW h \in Gen PROVE FenceOK(e, h)'
  <2>1. FenceOK(e, h) BY DEF Inv, Instances
  <2>2. holds'[e] \subseteq holds[e] \cup {g} /\ (e # d \/ holds'[d] = holds[d] => holds'[e] = holds[e]) OBVIOUS
  <2> QED BY <1>1, <1>3, <2>1, <2>2 DEF FenceOK, Done
<1>6. ASSUME NEW h \in Gen PROVE NewcomersOK(h)' /\ ClearedOK(h)' /\ KeptOK(h)'
  <2>1. NewcomersOK(h) /\ ClearedOK(h) /\ KeptOK(h) BY DEF Inv, Copies
  <2>2. Ending(h) => versions[h].members \subseteq Device BY States DEF Inv, Ending
  <2>3. NewcomersOK(h)' BY <1>1, <1>3, <2>1, <2>2 DEF NewcomersOK
  <2>4. Ending(h) => (AllPassed(h)' <=> AllPassed(h)) BY <1>1, <1>3, <2>2 DEF AllPassed
  <2>5. ClearedOK(h)' BY <1>1, <1>3, <2>1, <2>4 DEF ClearedOK
  <2>6. KeptOK(h)' BY <1>1, <1>3, <2>1 DEF KeptOK
  <2> QED BY <2>3, <2>5, <2>6
<1> QED BY <1>2, <1>4, <1>5, <1>6 DEF Inv, Instances, Copies

\* Receipts and uploads in progress change at d, nothing else.
LEMMA ReceiptStep ==
  ASSUME Inv, UNCHANGED <<authority, holds, fences, sealed, sync, handler, faults>>, Shape',
         NEW d \in Device, config[d] # {} \/ (receipts'[d] = receipts[d] /\ busy'[d] \subseteq busy[d]),
         \A e \in Device : e # d => receipts'[e] = receipts[e] /\ busy'[e] = busy[e],
         \A h \in Gen : ReceiptOK(d, h)'
  PROVE  Inv'
<1>1. UNCHANGED <<ops, config, missed>> BY DEF authority, sync
<1>2. ASSUME NEW e \in Device PROVE FolderOK(e)'
  <2>1. FolderOK(e) BY DEF Inv, Instances
  <2>2. Folder' = Folder BY <1>1 DEF Folder
  <2>3. CASE e = d BY <1>1, <2>1, <2>2, <2>3 DEF FolderOK
  <2>4. CASE e # d BY <1>1, <2>1, <2>2, <2>4 DEF FolderOK
  <2> QED BY <2>3, <2>4
<1>3. ASSUME NEW e \in Device, NEW h \in Gen PROVE ReceiptOK(e, h)'
  <2>1. ReceiptOK(e, h) BY DEF Inv, Instances
  <2>2. CASE e = d BY <2>2
  <2>3. CASE e # d BY <1>1, <2>1, <2>3 DEF ReceiptOK
  <2> QED BY <2>2, <2>3
<1>4. PICK g \in Gen : TRUE BY ReclamationAssumption DEF Gen
<1> QED BY <1>2, <1>3, <1>4, StoreStep

LEMMA ReserveSpaceInv == ASSUME Inv, NEW d \in Device, NEW g \in Gen, ReserveSpace(d, g) PROVE Inv'
<1>1. /\ ops[g] # "none" /\ d \in config[d] /\ g \notin missed[d] /\ receipts' = [receipts EXCEPT ![d][g] = "reserved"]
      /\ UNCHANGED <<authority, busy, holds, fences, sealed, sync, handler, faults>>
  BY DEF ReserveSpace
<1>2. UNCHANGED <<project, ops, overdue, versions, removals, queue, confirmed, cohort, config, missed, paused, ignored>>
  BY <1>1 DEF authority, sync
<1>3. Shape' BY <1>1, <1>2 DEF Inv, Shape
<1>4. /\ receipts'[d][g] = "reserved" /\ \A h \in Gen : h # g => receipts'[d][h] = receipts[d][h]
      /\ \A e \in Device : e # d => receipts'[e] = receipts[e]
  BY <1>1 DEF Inv, Shape
<1>5. ASSUME NEW h \in Gen PROVE ReceiptOK(d, h)'
  <2>1. ReceiptOK(d, h) BY DEF Inv, Instances
  <2> QED BY <1>1, <1>2, <1>4, <2>1 DEF ReceiptOK
<1> QED BY <1>1, <1>3, <1>4, <1>5, ReceiptStep

LEMMA CancelInv == ASSUME Inv, NEW d \in Device, NEW g \in Gen, Cancel(d, g) PROVE Inv'
<1>1. /\ receipts[d][g] = "reserved" /\ receipts' = [receipts EXCEPT ![d][g] = "canceled"]
      /\ UNCHANGED <<authority, busy, holds, fences, sealed, sync, handler, faults>>
  BY DEF Cancel
<1>2. UNCHANGED <<project, ops, overdue, versions, removals, queue, confirmed, cohort, config, missed, paused, ignored>>
  BY <1>1 DEF authority, sync
<1>3. Shape' BY <1>1, <1>2 DEF Inv, Shape
<1>4. /\ receipts'[d][g] = "canceled" /\ \A h \in Gen : h # g => receipts'[d][h] = receipts[d][h]
      /\ \A e \in Device : e # d => receipts'[e] = receipts[e]
  BY <1>1 DEF Inv, Shape
<1>5. ASSUME NEW h \in Gen PROVE ReceiptOK(d, h)'
  <2>1. ReceiptOK(d, h) BY DEF Inv, Instances
  <2> QED BY <1>1, <1>2, <1>4, <2>1 DEF ReceiptOK
<1>6. config[d] # {} BY <1>1 DEF Inv, Instances, FolderOK
<1> QED BY <1>1, <1>3, <1>4, <1>5, <1>6, ReceiptStep

LEMMA UploadBeginInv == ASSUME Inv, NEW d \in Device, NEW g \in Gen, UploadBegin(d, g) PROVE Inv'
<1>1. /\ receipts[d][g] \in {"reserved", "stored"} /\ busy' = [busy EXCEPT ![d] = @ \cup {g}]
      /\ UNCHANGED <<authority, receipts, holds, fences, sealed, sync, handler, faults>>
  BY DEF UploadBegin
<1>2. UNCHANGED <<project, ops, overdue, versions, removals, queue, confirmed, cohort, config, missed, paused, ignored>>
  BY <1>1 DEF authority, sync
<1>3. Shape' BY <1>1, <1>2 DEF Inv, Shape
<1>4. busy'[d] = busy[d] \cup {g} /\ \A e \in Device : e # d => busy'[e] = busy[e]
  BY <1>1 DEF Inv, Shape
<1>5. ASSUME NEW h \in Gen PROVE ReceiptOK(d, h)'
  <2>1. ReceiptOK(d, h) BY DEF Inv, Instances
  <2> QED BY <1>1, <1>2, <1>4, <2>1 DEF ReceiptOK
<1>6. config[d] # {} BY <1>1 DEF Inv, Instances, FolderOK
<1> QED BY <1>1, <1>3, <1>4, <1>5, <1>6, ReceiptStep

LEMMA UploadEndInv == ASSUME Inv, NEW d \in Device, NEW g \in Gen, UploadEnd(d, g) PROVE Inv'
<1>1. /\ g \in busy[d] /\ busy' = [busy EXCEPT ![d] = @ \ {g}]
      /\ \/ /\ fences[d][g] = None /\ holds' = [holds EXCEPT ![d] = @ \cup {g}]
            /\ receipts' = [receipts EXCEPT ![d][g] = "stored"] \/ UNCHANGED receipts
         \/ UNCHANGED <<holds, receipts>>
      /\ UNCHANGED <<authority, fences, sealed, sync, handler, faults>>
  BY DEF UploadEnd, NotRetired
<1>2. UNCHANGED <<project, ops, overdue, versions, removals, queue, confirmed, cohort, config, missed, paused, ignored>>
  BY <1>1 DEF authority, sync
<1>3. Shape'
  <2>1. busy' \in [Device -> SUBSET Gen]
    <3>1. busy \in [Device -> SUBSET Gen] BY DEF Inv, Shape
    <3> QED BY <1>1, <3>1
  <2>2. holds' \in [Device -> SUBSET Gen]
    <3>1. CASE UNCHANGED holds BY <3>1 DEF Inv, Shape
    <3>2. CASE holds' = [holds EXCEPT ![d] = @ \cup {g}] BY <3>2 DEF Inv, Shape
    <3> QED BY <1>1, <3>1, <3>2
  <2>3. receipts' \in [Device -> [Gen -> {"none", "reserved", "stored", "canceled"}]]
    <3>1. CASE UNCHANGED receipts BY <3>1 DEF Inv, Shape
    <3>2. CASE receipts' = [receipts EXCEPT ![d][g] = "stored"] BY <3>2 DEF Inv, Shape
    <3> QED BY <1>1, <3>1, <3>2
  <2> QED BY <1>1, <1>2, <2>1, <2>2, <2>3 DEF Inv, Shape
<1>4. /\ busy'[d] = busy[d] \ {g} /\ \A e \in Device : e # d => busy'[e] = busy[e]
      /\ holds'[d] \in {holds[d], holds[d] \cup {g}} /\ \A e \in Device : e # d => holds'[e] = holds[e]
      /\ \A e \in Device : e # d => receipts'[e] = receipts[e]
      /\ \A h \in Gen : receipts'[d][h] = receipts[d][h] \/ (h = g /\ receipts'[d][h] = "stored")
      /\ holds'[d] # holds[d] => fences[d][g] = None
  <2>1. busy'[d] = busy[d] \ {g} /\ \A e \in Device : e # d => busy'[e] = busy[e] BY <1>1 DEF Inv, Shape
  <2>2. /\ holds'[d] \in {holds[d], holds[d] \cup {g}} /\ \A e \in Device : e # d => holds'[e] = holds[e]
        /\ holds'[d] # holds[d] => fences[d][g] = None
    BY <1>1 DEF Inv, Shape
  <2>3. /\ \A e \in Device : e # d => receipts'[e] = receipts[e]
        /\ \A h \in Gen : receipts'[d][h] = receipts[d][h] \/ (h = g /\ receipts'[d][h] = "stored")
    <3>1. CASE UNCHANGED receipts BY <3>1
    <3>2. CASE receipts' = [receipts EXCEPT ![d][g] = "stored"] BY <3>2 DEF Inv, Shape
    <3> QED BY <1>1, <3>1, <3>2
  <2> QED BY <2>1, <2>2, <2>3
<1>5. receipts[d][g] # "none" /\ config[d] # {} /\ g \notin missed[d] /\ ops[g] # "none"
  BY <1>1 DEF Inv, Instances, FolderOK, ReceiptOK
<1>6. ASSUME NEW e \in Device PROVE FolderOK(e)'
  <2>1. FolderOK(e) BY DEF Inv, Instances
  <2>2. Folder' = Folder BY <1>2 DEF Folder
  <2>3. CASE e = d BY <1>2, <1>5, <2>1, <2>2, <2>3 DEF FolderOK
  <2>4. CASE e # d BY <1>2, <1>4, <2>1, <2>2, <2>4 DEF FolderOK
  <2> QED BY <2>3, <2>4
<1>7. ASSUME NEW e \in Device, NEW h \in Gen PROVE ReceiptOK(e, h)'
  <2>1. ReceiptOK(e, h) BY DEF Inv, Instances
  <2> QED BY <1>2, <1>4, <1>5, <2>1 DEF ReceiptOK
<1>8. Ending(g) /\ AllPassed(g) => d \in versions[g].members
  <2> SUFFICES ASSUME Ending(g), AllPassed(g), d \notin versions[g].members PROVE FALSE OBVIOUS
  <2>1. PICK m \in versions[g].members : Passed(m, g) BY DEF Inv, Authority, VersionOK, AllPassed
  <2>2. d \in Folder BY <1>5 DEF Folder
  <2>3. g \in missed[d] BY <2>1, <2>2 DEF Inv, Copies, NewcomersOK
  <2> QED BY <1>5, <2>3
<1> QED BY <1>1, <1>3, <1>4, <1>6, <1>7, <1>8, StoreStep

LEMMA ReplicateInv == ASSUME Inv, NEW d \in Device, NEW e \in Device, NEW g \in Gen, Replicate(d, e, g) PROVE Inv'
<1>1. /\ d \in config[e] /\ ~paused[d] /\ g \in holds[d] /\ g \notin ignored[e]
      /\ holds' = [holds EXCEPT ![e] = @ \cup {g}]
      /\ UNCHANGED <<authority, receipts, busy, fences, sealed, sync, handler, faults>>
  BY DEF Replicate, Linked
<1>2. UNCHANGED <<project, ops, overdue, versions, removals, queue, confirmed, cohort, config, missed, paused, ignored>>
  BY <1>1 DEF authority, sync
<1>3. Shape' BY <1>1, <1>2 DEF Inv, Shape
<1>4. holds'[e] = holds[e] \cup {g} /\ \A x \in Device : x # e => holds'[x] = holds[x]
  BY <1>1 DEF Inv, Shape
<1>5. ASSUME NEW x \in Device PROVE FolderOK(x)'
  <2>1. FolderOK(x) BY DEF Inv, Instances
  <2>2. Folder' = Folder BY <1>2 DEF Folder
  <2> QED BY <1>1, <1>2, <1>4, <2>1, <2>2 DEF FolderOK
<1>6. ASSUME NEW x \in Device, NEW h \in Gen PROVE ReceiptOK(x, h)'
  <2>1. ReceiptOK(x, h) BY DEF Inv, Instances
  <2> QED BY <1>1, <1>2, <2>1 DEF ReceiptOK
<1>7. Ending(g) /\ AllPassed(g) => e \in versions[g].members
  <2> SUFFICES ASSUME Ending(g), AllPassed(g) PROVE FALSE OBVIOUS
  <2>1. d \in versions[g].members BY <1>1 DEF Inv, Copies, ClearedOK
  <2>2. Passed(d, g) BY <2>1 DEF AllPassed
  <2> QED BY <1>1, <2>2 DEF Inv, Instances, HandlerOK, FenceOK, Passed
<1> QED BY <1>1, <1>3, <1>4, <1>5, <1>6, <1>7, StoreStep

-----------------------------------------------------------------------------
(* Requests to remove a version *)

\* Nobody passes, joins or gets bytes.
LEMMA PassedLess ==
  ASSUME Inv, UNCHANGED <<authority, config, missed>>,
         \A e \in Device, h \in Gen : Passed(e, h)' => Passed(e, h),
         \A e \in Device : holds'[e] \subseteq holds[e]
  PROVE  \A h \in Gen : NewcomersOK(h)' /\ ClearedOK(h)'
<1>1. UNCHANGED versions BY DEF authority
<1>2. Folder' = Folder /\ \A h \in Gen : Ending(h)' <=> Ending(h) BY <1>1 DEF Folder, Ending, State
<1>3. ASSUME NEW h \in Gen, Ending(h) PROVE NewcomersOK(h)' /\ ClearedOK(h)'
  <2>1. NewcomersOK(h) /\ ClearedOK(h) BY DEF Inv, Copies
  <2>2. versions[h].members \subseteq Device BY <1>3, States DEF Inv, Ending
  <2>3. NewcomersOK(h)' BY <1>1, <1>2, <1>3, <2>1, <2>2 DEF NewcomersOK
  <2>4. AllPassed(h)' => AllPassed(h) BY <1>1, <2>2 DEF AllPassed
  <2>5. ClearedOK(h)' BY <1>1, <1>2, <1>3, <2>1, <2>2, <2>4 DEF ClearedOK
  <2> QED BY <2>3, <2>5
<1> QED BY <1>2, <1>3 DEF NewcomersOK, ClearedOK

\* A step of instance d's request: the records, receipts and the folder stay.
LEMMA RequestStep ==
  ASSUME Inv, UNCHANGED <<authority, receipts, config, missed>>, Shape', NEW d \in Device,
         \A e \in Device : e # d =>
            UNCHANGED <<busy[e], holds[e], fences[e], paused[e], ignored[e], handler[e]>>,
         busy'[d] \subseteq busy[d], holds'[d] \subseteq holds[d],
         HandlerOK(d)', \A h \in Gen : FenceOK(d, h)',
         \A h \in Gen : Passed(d, h)' => Passed(d, h), \A h \in Gen : KeptOK(h)'
  PROVE  Inv'
<1>1. UNCHANGED <<project, ops, overdue, versions, removals>> BY DEF authority
<1>2. Authority' /\ LedgerExact' BY InstanceFrame
<1>3. Folder' = Folder /\ \A h \in Gen : State(h)' = State(h) /\ (Ending(h)' <=> Ending(h))
  BY <1>1 DEF Folder, Ending, State
<1>4. \A e \in Device : busy'[e] \subseteq busy[e] /\ holds'[e] \subseteq holds[e] OBVIOUS
<1>5. ASSUME NEW e \in Device PROVE FolderOK(e)' /\ HandlerOK(e)'
  <2>1. FolderOK(e) /\ HandlerOK(e) BY DEF Inv, Instances
  <2>2. FolderOK(e)' BY <1>3, <1>4, <2>1 DEF FolderOK
  <2>3. CASE e # d BY <1>1, <2>1, <2>2, <2>3 DEF HandlerOK
  <2> QED BY <2>2, <2>3
<1>6. ASSUME NEW e \in Device, NEW h \in Gen PROVE ReceiptOK(e, h)' /\ FenceOK(e, h)'
  <2>1. ReceiptOK(e, h) /\ FenceOK(e, h) BY DEF Inv, Instances
  <2>2. ReceiptOK(e, h)' BY <1>1, <1>4, <2>1 DEF ReceiptOK
  <2>3. CASE e # d BY <1>1, <1>3, <2>1, <2>2, <2>3 DEF FenceOK, Done
  <2> QED BY <2>2, <2>3
<1>7. \A e \in Device, h \in Gen : Passed(e, h)' => Passed(e, h)
  BY DEF Passed, Done
<1>8. \A h \in Gen : NewcomersOK(h)' /\ ClearedOK(h)' BY <1>4, <1>7, PassedLess
<1> QED BY <1>2, <1>5, <1>6, <1>8 DEF Inv, Instances, Copies

LEMMA ReclaimBeginInv ==
  ASSUME Inv, NEW d \in Device, NEW g \in Gen, NEW whole \in BOOLEAN, ReclaimBegin(d, g, whole)
  PROVE  Inv'
<1> DEFINE f == IF fences[d][g] = None THEN [was |-> paused[d], done |-> FALSE] ELSE fences[d][g]
           h == [gen |-> g, step |-> "pause", whole |-> whole]
<1>1. /\ State(g) \in {"retiring", "reclaimed"} /\ d \in versions[g].members
      /\ whole => versions[g].deleted
      /\ faults' = faults \/ (faults < MaxFaults /\ faults' = faults + 1)
      /\ sealed' = [sealed EXCEPT ![d] = @ \/ whole]
      /\ fences' = [fences EXCEPT ![d][g] = f] /\ handler' = [handler EXCEPT ![d] = h]
      /\ UNCHANGED <<authority, receipts, busy, holds, sync>>
  BY DEF ReclaimBegin, Asked, Fresh, Stale
<1>2. UNCHANGED <<project, ops, overdue, versions, removals, queue, confirmed, cohort, config, missed, paused, ignored>>
  BY <1>1 DEF authority, sync
<1>3. f \in Fence /\ f # None /\ f.done = (fences[d][g] # None /\ fences[d][g].done)
  <2>1. fences[d][g] \in Fence \cup {None} /\ paused[d] \in BOOLEAN BY DEF Inv, Shape
  <2>2. CASE fences[d][g] = None
    <3>1. f \in Fence /\ f.done = FALSE BY <2>1, <2>2 DEF Fence
    <3> QED BY <2>2, <3>1, NoneAssumption
  <2>3. CASE fences[d][g] # None
    <3>1. fences[d][g] \in Fence /\ f = fences[d][g] BY <2>1, <2>3
    <3> QED BY <2>3, <3>1 DEF Fence
  <2> QED BY <2>2, <2>3
<1>4. h \in Handling /\ h # None /\ h.gen = g /\ h.step = "pause" /\ h.whole = whole
  <2>1. h \in Handling BY DEF Handling, Step
  <2> QED BY <2>1, NoneAssumption
<1> HIDE DEF f, h
<1>5. /\ fences'[d][g] = f /\ handler'[d] = h /\ \A x \in Gen : x # g => fences'[d][x] = fences[d][x]
      /\ \A e \in Device : e # d => fences'[e] = fences[e] /\ handler'[e] = handler[e]
  BY <1>1 DEF Inv, Shape
<1>6. Shape'
  <2>1. faults' \in 0..MaxFaults BY <1>1, ReclamationAssumption DEF Inv, Shape
  <2>2. sealed' \in [Device -> BOOLEAN] BY <1>1 DEF Inv, Shape
  <2>3. fences' \in [Device -> [Gen -> Fence \cup {None}]] BY <1>1, <1>3 DEF Inv, Shape
  <2>4. handler' \in [Device -> Handling \cup {None}] BY <1>1, <1>4 DEF Inv, Shape
  <2> QED BY <1>1, <1>2, <2>1, <2>2, <2>3, <2>4 DEF Inv, Shape
<1>7. \A x \in Gen : Done(d, x)' <=> Done(d, x) BY <1>3, <1>5 DEF Done
<1>8. ASSUME NEW x \in Gen PROVE FenceOK(d, x)'
  <2>1. FenceOK(d, x) BY DEF Inv, Instances
  <2>2. CASE x = g BY <1>1, <1>2, <1>7, <2>1, <2>2 DEF FenceOK, Ending, State
  <2>3. CASE x # g BY <1>1, <1>2, <1>5, <1>7, <2>1, <2>3 DEF FenceOK, Ending, State
  <2> QED BY <2>2, <2>3
<1>9. HandlerOK(d)'
  <2>1. whole => project.status = "deleted"
    <3>1. versions[g] # None BY <1>1, States DEF Inv
    <3> QED BY <1>1, <3>1 DEF Inv, Authority, VersionOK
  <2> QED BY <1>2, <1>3, <1>4, <1>5, <2>1 DEF HandlerOK
<1>10. \A x \in Gen : Passed(d, x)' => Passed(d, x) BY <1>4, <1>5, <1>7 DEF Passed
<1>11. \A x \in Gen : KeptOK(x)' BY <1>1, <1>2, KeptFrame DEF State
<1> QED BY <1>1, <1>2, <1>5, <1>6, <1>8, <1>9, <1>10, <1>11, RequestStep

\* A request goes from one step to the next.
LEMMA MovedRequest ==
  ASSUME Shape, NEW d \in Device, handler[d] # None, NEW s \in Step, Moved(d, s)
  PROVE  /\ handler' \in [Device -> Handling \cup {None}] /\ handler'[d] # None
         /\ handler'[d].gen = handler[d].gen /\ handler'[d].whole = handler[d].whole /\ handler'[d].step = s
         /\ \A e \in Device : e # d => handler'[e] = handler[e]
         /\ handler[d].gen \in Gen /\ handler[d].whole \in BOOLEAN
<1>1. handler[d] \in Handling BY DEF Shape
<1>2. handler' = [handler EXCEPT ![d] = [handler[d] EXCEPT !.step = s]] BY DEF Moved
<1>3. [handler[d] EXCEPT !.step = s] \in Handling BY <1>1 DEF Handling
<1>4. [handler[d] EXCEPT !.step = s] # None BY <1>3, NoneAssumption
<1> QED BY <1>1, <1>2, <1>3, <1>4 DEF Shape, Handling

\* A request that stops leaves everything as it is; a restart ends the uploads too.
LEMMA RequestEnds ==
  ASSUME Inv, NEW d \in Device, handler' = [handler EXCEPT ![d] = None],
         busy' \in {busy, [busy EXCEPT ![d] = {}]}, faults' \in 0..MaxFaults,
         UNCHANGED <<authority, receipts, holds, fences, sealed, sync>>
  PROVE  Inv'
<1>1. UNCHANGED <<project, ops, overdue, versions, removals, queue, confirmed, cohort, config, missed, paused, ignored>>
  BY DEF authority, sync
<1>2. /\ handler'[d] = None /\ busy'[d] \subseteq busy[d]
      /\ \A e \in Device : e # d => handler'[e] = handler[e] /\ busy'[e] = busy[e]
  BY DEF Inv, Shape
<1>3. Shape' BY <1>1 DEF Inv, Shape
<1>4. \A x \in Gen : FenceOK(d, x)' BY <1>1 DEF Inv, Instances, FenceOK, Done, Ending, State
<1>5. HandlerOK(d)' BY <1>2 DEF HandlerOK
<1>6. \A x \in Gen : Passed(d, x)' => Passed(d, x) BY <1>2 DEF Passed, Done
<1>7. \A x \in Gen : KeptOK(x)' BY <1>1, KeptFrame DEF State
<1> QED BY <1>1, <1>2, <1>3, <1>4, <1>5, <1>6, <1>7, RequestStep

LEMMA ReclaimFailsInv == ASSUME Inv, NEW d \in Device, ReclaimFails(d) PROVE Inv'
<1>1. /\ faults < MaxFaults /\ faults' = faults + 1 /\ handler' = [handler EXCEPT ![d] = None]
      /\ UNCHANGED <<authority, receipts, busy, holds, fences, sealed, sync>>
  BY DEF ReclaimFails, volume
<1>2. faults' \in 0..MaxFaults BY <1>1, ReclamationAssumption DEF Inv, Shape
<1> QED BY <1>1, <1>2, RequestEnds

LEMMA CrashInv == ASSUME Inv, NEW d \in Device, Crash(d) PROVE Inv'
<1>1. /\ faults < MaxFaults /\ faults' = faults + 1 /\ handler' = [handler EXCEPT ![d] = None]
      /\ busy' = [busy EXCEPT ![d] = {}] /\ UNCHANGED <<authority, receipts, holds, fences, sealed, sync>>
  BY DEF Crash
<1>2. faults' \in 0..MaxFaults BY <1>1, ReclamationAssumption DEF Inv, Shape
<1> QED BY <1>1, <1>2, RequestEnds

LEMMA PauseInv == ASSUME Inv, NEW d \in Device, Pause(d) PROVE Inv'
<1>1. /\ handler[d] # None /\ handler[d].step = "pause" /\ Moved(d, "ignore")
      /\ paused' = [paused EXCEPT ![d] = TRUE]
      /\ UNCHANGED <<authority, receipts, busy, holds, fences, sealed, config, missed, ignored, faults>>
  BY DEF Pause, At, volume
<1>2. UNCHANGED <<project, ops, overdue, versions, removals, queue, confirmed, cohort>> BY <1>1 DEF authority
<1>3. /\ handler' \in [Device -> Handling \cup {None}] /\ handler'[d] # None
      /\ handler'[d].gen = handler[d].gen /\ handler'[d].whole = handler[d].whole /\ handler'[d].step = "ignore"
      /\ \A e \in Device : e # d => handler'[e] = handler[e]
      /\ handler[d].gen \in Gen
  BY <1>1, MovedRequest DEF Inv, Step
<1>4. paused'[d] /\ \A e \in Device : e # d => paused'[e] = paused[e] BY <1>1 DEF Inv, Shape
<1>5. Shape' BY <1>1, <1>2, <1>3 DEF Inv, Shape
<1>6. \A x \in Gen : FenceOK(d, x)' BY <1>1, <1>2 DEF Inv, Instances, FenceOK, Done, Ending, State
<1>7. HandlerOK(d)' BY <1>1, <1>2, <1>3, <1>4 DEF Inv, Instances, HandlerOK
<1>8. \A x \in Gen : Passed(d, x)' => Passed(d, x) BY <1>1, <1>3 DEF Passed, Done
<1>9. \A x \in Gen : KeptOK(x)' BY <1>1, <1>2, KeptFrame DEF State
<1> QED BY <1>1, <1>2, <1>3, <1>4, <1>5, <1>6, <1>7, <1>8, <1>9, RequestStep

LEMMA IgnoreVersionInv == ASSUME Inv, NEW d \in Device, IgnoreVersion(d) PROVE Inv'
<1>1. /\ handler[d] # None /\ handler[d].step = "ignore" /\ Moved(d, "check")
      /\ ignored' = [ignored EXCEPT ![d] = @ \cup Gone(handler[d])]
      /\ UNCHANGED <<authority, receipts, busy, holds, fences, sealed, config, missed, paused, faults>>
  BY DEF IgnoreVersion, At, volume
<1>2. UNCHANGED <<project, ops, overdue, versions, removals, queue, confirmed, cohort>> BY <1>1 DEF authority
<1>3. /\ handler' \in [Device -> Handling \cup {None}] /\ handler'[d] # None
      /\ handler'[d].gen = handler[d].gen /\ handler'[d].whole = handler[d].whole /\ handler'[d].step = "check"
      /\ \A e \in Device : e # d => handler'[e] = handler[e]
      /\ handler[d].gen \in Gen
  BY <1>1, MovedRequest DEF Inv, Step
<1>4. Gone(handler[d]) \subseteq Gen /\ handler[d].gen \in Gone(handler[d]) BY <1>3 DEF Gone
<1>5. ignored'[d] = ignored[d] \cup Gone(handler[d]) /\ \A e \in Device : e # d => ignored'[e] = ignored[e]
  BY <1>1 DEF Inv, Shape
<1>6. Shape'
  <2>1. ignored' \in [Device -> SUBSET Gen] BY <1>1, <1>4 DEF Inv, Shape
  <2> QED BY <1>1, <1>2, <1>3, <2>1 DEF Inv, Shape
<1>7. \A x \in Gen : FenceOK(d, x)' BY <1>1, <1>2, <1>5 DEF Inv, Instances, FenceOK, Done, Ending, State
<1>8. HandlerOK(d)' BY <1>1, <1>2, <1>3, <1>4, <1>5 DEF Inv, Instances, HandlerOK
<1>9. \A x \in Gen : Passed(d, x)' => Passed(d, x) BY <1>1, <1>3 DEF Passed, Done
<1>10. \A x \in Gen : KeptOK(x)' BY <1>1, <1>2, KeptFrame DEF State
<1> QED BY <1>1, <1>2, <1>3, <1>5, <1>6, <1>7, <1>8, <1>9, <1>10, RequestStep

LEMMA RemoveVersionInv == ASSUME Inv, NEW d \in Device, RemoveVersion(d) PROVE Inv'
<1>1. /\ handler[d] # None /\ handler[d].step = "remove" /\ Moved(d, "resume")
      /\ holds' = [holds EXCEPT ![d] = @ \ Gone(handler[d])]
      /\ UNCHANGED <<authority, receipts, busy, fences, sealed, config, missed, paused, ignored, faults>>
  BY DEF RemoveVersion, At, sync
<1>2. UNCHANGED <<project, ops, overdue, versions, removals, queue, confirmed, cohort>> BY <1>1 DEF authority
<1>3. /\ handler' \in [Device -> Handling \cup {None}] /\ handler'[d] # None
      /\ handler'[d].gen = handler[d].gen /\ handler'[d].whole = handler[d].whole /\ handler'[d].step = "resume"
      /\ \A e \in Device : e # d => handler'[e] = handler[e]
      /\ handler[d].gen \in Gen
  BY <1>1, MovedRequest DEF Inv, Step
<1>4. handler[d].gen \in Gone(handler[d]) BY <1>3 DEF Gone
<1>5. holds'[d] = holds[d] \ Gone(handler[d]) /\ \A e \in Device : e # d => holds'[e] = holds[e]
  BY <1>1 DEF Inv, Shape
<1>6. Shape'
  <2>1. holds' \in [Device -> SUBSET Gen] BY <1>1 DEF Inv, Shape
  <2> QED BY <1>1, <1>2, <1>3, <2>1 DEF Inv, Shape
<1>7. \A x \in Gen : FenceOK(d, x)' BY <1>1, <1>2, <1>5 DEF Inv, Instances, FenceOK, Done, Ending, State
<1>8. HandlerOK(d)' BY <1>1, <1>2, <1>3, <1>4, <1>5 DEF Inv, Instances, HandlerOK
<1>9. \A x \in Gen : Passed(d, x)' => Passed(d, x) BY <1>1, <1>3 DEF Passed, Done
<1>10. ASSUME NEW x \in Gen PROVE KeptOK(x)'
  <2>1. KeptOK(x) BY DEF Inv, Copies
  <2>2. project.status # "deleted" => Gone(handler[d]) = {handler[d].gen}
    BY <1>1 DEF Inv, Instances, HandlerOK, Gone
  <2>3. Ending(handler[d].gen) BY <1>1, <1>3 DEF Inv, Instances, HandlerOK, FenceOK
  <2> QED BY <1>2, <1>5, <2>1, <2>2, <2>3 DEF KeptOK, Ending, State
<1> QED BY <1>1, <1>2, <1>3, <1>5, <1>6, <1>7, <1>8, <1>9, <1>10, RequestStep

LEMMA ResumeInv == ASSUME Inv, NEW d \in Device, Resume(d) PROVE Inv'
<1> DEFINE p == paused[d] /\ fences[d][handler[d].gen].was
<1>1. /\ handler[d] # None /\ handler[d].step = "resume" /\ Moved(d, "complete")
      /\ paused' = [paused EXCEPT ![d] = p]
      /\ UNCHANGED <<authority, receipts, busy, holds, fences, sealed, config, missed, ignored, faults>>
  BY DEF Resume, At, volume
<1>2. UNCHANGED <<project, ops, overdue, versions, removals, queue, confirmed, cohort>> BY <1>1 DEF authority
<1>3. /\ handler' \in [Device -> Handling \cup {None}] /\ handler'[d] # None
      /\ handler'[d].gen = handler[d].gen /\ handler'[d].whole = handler[d].whole /\ handler'[d].step = "complete"
      /\ \A e \in Device : e # d => handler'[e] = handler[e]
      /\ handler[d].gen \in Gen
  BY <1>1, MovedRequest DEF Inv, Step
<1>4. p \in BOOLEAN OBVIOUS
<1> HIDE DEF p
<1>5. \A e \in Device : e # d => paused'[e] = paused[e] BY <1>1 DEF Inv, Shape
<1>6. Shape'
  <2>1. paused' \in [Device -> BOOLEAN] BY <1>1, <1>4 DEF Inv, Shape
  <2> QED BY <1>1, <1>2, <1>3, <2>1 DEF Inv, Shape
<1>7. \A x \in Gen : FenceOK(d, x)' BY <1>1, <1>2 DEF Inv, Instances, FenceOK, Done, Ending, State
<1>8. HandlerOK(d)' BY <1>1, <1>2, <1>3 DEF Inv, Instances, HandlerOK
<1>9. \A x \in Gen : Passed(d, x)' => Passed(d, x) BY <1>1, <1>3 DEF Passed, Done
<1>10. \A x \in Gen : KeptOK(x)' BY <1>1, <1>2, KeptFrame DEF State
<1> QED BY <1>1, <1>2, <1>3, <1>5, <1>6, <1>7, <1>8, <1>9, <1>10, RequestStep

LEMMA CompleteInv == ASSUME Inv, NEW d \in Device, Complete(d) PROVE Inv'
<1> DEFINE g == handler[d].gen
           f == [fences[d][g] EXCEPT !.done = TRUE]
<1>1. /\ handler[d] # None /\ handler[d].step = "complete" /\ handler' = [handler EXCEPT ![d] = None]
      /\ fences' = [fences EXCEPT ![d][g] = f]
      /\ UNCHANGED <<authority, receipts, busy, holds, sealed, config, missed, paused, ignored, faults>>
  BY DEF Complete, At, sync
<1>2. UNCHANGED <<project, ops, overdue, versions, removals, queue, confirmed, cohort>> BY <1>1 DEF authority
<1>3. g \in Gen BY <1>1 DEF Inv, Shape, Handling
<1>4. HandlerOK(d) /\ FenceOK(d, g) BY <1>3 DEF Inv, Instances
<1>5. fences[d][g] # None /\ fences[d][g] \in Fence /\ g \in ignored[d] /\ g \notin holds[d]
  BY <1>1, <1>3, <1>4 DEF HandlerOK, Inv, Shape
<1>6. f \in Fence /\ f.done BY <1>5 DEF Fence
<1>7. f # None BY <1>6, NoneAssumption
<1> HIDE DEF f, g
<1>8. /\ fences'[d][g] = f /\ handler'[d] = None /\ \A x \in Gen : x # g => fences'[d][x] = fences[d][x]
      /\ \A e \in Device : e # d => fences'[e] = fences[e] /\ handler'[e] = handler[e]
  BY <1>1, <1>3 DEF Inv, Shape
<1>9. Shape'
  <2>1. fences' \in [Device -> [Gen -> Fence \cup {None}]] BY <1>1, <1>3, <1>6 DEF Inv, Shape
  <2>2. handler' \in [Device -> Handling \cup {None}] BY <1>1 DEF Inv, Shape
  <2> QED BY <1>1, <1>2, <2>1, <2>2 DEF Inv, Shape
<1>10. ASSUME NEW x \in Gen PROVE FenceOK(d, x)'
  <2>1. FenceOK(d, x) BY DEF Inv, Instances
  <2>2. CASE x = g BY <1>1, <1>2, <1>4, <1>5, <1>6, <1>7, <1>8, <2>2 DEF FenceOK, Done, Ending, State
  <2>3. CASE x # g BY <1>1, <1>2, <1>8, <2>1, <2>3 DEF FenceOK, Done, Ending, State
  <2> QED BY <2>2, <2>3
<1>11. HandlerOK(d)' BY <1>8 DEF HandlerOK
<1>12. \A x \in Gen : Passed(d, x)' => Passed(d, x) BY <1>1, <1>8 DEF Passed, Done, g
<1>13. \A x \in Gen : KeptOK(x)' BY <1>1, <1>2, KeptFrame DEF State
<1> QED BY <1>1, <1>2, <1>8, <1>9, <1>10, <1>11, <1>12, <1>13, RequestStep

LEMMA RecheckInv == ASSUME Inv, NEW d \in Device, Recheck(d) PROVE Inv'
<1>1. /\ handler[d] # None /\ handler[d].step = "check"
      /\ UNCHANGED <<authority, receipts, busy, holds, fences, sealed, sync, faults>>
  BY DEF Recheck, At, volume
<1>2. UNCHANGED <<project, ops, overdue, versions, removals, queue, confirmed, cohort, config, missed, paused, ignored>>
  BY <1>1 DEF authority, sync
<1>3. CASE ~SameMembers(d)
  <2>1. handler' = [handler EXCEPT ![d] = None] BY <1>3 DEF Recheck
  <2>2. faults' \in 0..MaxFaults BY <1>1 DEF Inv, Shape
  <2> QED BY <1>1, <2>1, <2>2, RequestEnds
<1>4. CASE SameMembers(d)
  <2> DEFINE g == handler[d].gen
  <2>1. Moved(d, "remove") /\ paused[d] /\ config[d] = versions[g].members BY <1>4 DEF Recheck, SameMembers
  <2>2. /\ handler' \in [Device -> Handling \cup {None}] /\ handler'[d] # None
        /\ handler'[d].gen = g /\ handler'[d].whole = handler[d].whole /\ handler'[d].step = "remove"
        /\ \A e \in Device : e # d => handler'[e] = handler[e]
        /\ g \in Gen
    BY <1>1, <2>1, MovedRequest DEF Inv, Step
  <2> HIDE DEF g
  <2>3. Shape' BY <1>1, <1>2, <2>2 DEF Inv, Shape
  <2>4. Authority' /\ LedgerExact' BY <1>1, InstanceFrame
  <2>5. /\ Folder' = Folder
        /\ \A h \in Gen : State(h)' = State(h) /\ (Ending(h)' <=> Ending(h))
        /\ \A e \in Device, h \in Gen : Done(e, h)' <=> Done(e, h)
    BY <1>1, <1>2 DEF Folder, State, Ending, Done
  <2>6. ASSUME NEW e \in Device PROVE FolderOK(e)' /\ HandlerOK(e)'
    <3>1. FolderOK(e) /\ HandlerOK(e) BY DEF Inv, Instances
    <3>2. FolderOK(e)' BY <1>1, <1>2, <2>5, <3>1 DEF FolderOK
    <3>3. UNCHANGED <<fences, project, paused, ignored, holds>> BY <1>1, <1>2
    <3>4. CASE e = d
      <4>1. fences[d][g] # None /\ (handler[d].whole => project.status = "deleted") /\ g \in ignored[d]
        BY <1>1, <3>1, <3>4 DEF HandlerOK, g
      <4> QED BY <2>1, <2>2, <3>2, <3>3, <3>4, <4>1 DEF HandlerOK
    <3>5. CASE e # d
      <4>1. handler'[e] = handler[e] BY <2>2, <3>5
      <4> QED BY <3>1, <3>2, <3>3, <4>1 DEF HandlerOK
    <3> QED BY <3>2, <3>4, <3>5
  <2>7. ASSUME NEW e \in Device, NEW h \in Gen PROVE ReceiptOK(e, h)' /\ FenceOK(e, h)'
    <3>1. ReceiptOK(e, h) /\ FenceOK(e, h) BY DEF Inv, Instances
    <3> QED BY <1>1, <1>2, <2>5, <3>1 DEF ReceiptOK, FenceOK
  <2>8. Ending(g) /\ versions[g].members # {} /\ versions[g].members \subseteq Device
    <3>1. Ending(g) BY <1>1, <2>2 DEF Inv, Instances, HandlerOK, FenceOK, g
    <3> QED BY <2>2, <3>1, States DEF Inv, Authority, VersionOK, Ending
  <2>9. versions[g].members = Folder BY <2>1, <2>8 DEF Inv, Instances, FolderOK
  <2>10. ASSUME NEW h \in Gen PROVE NewcomersOK(h)' /\ ClearedOK(h)'
    <3>1. NewcomersOK(h) /\ ClearedOK(h) BY DEF Inv, Copies
    <3>2. CASE h = g
      <4>1. NewcomersOK(h)' BY <1>2, <2>5, <2>9, <3>2 DEF NewcomersOK
      <4>2. \A e \in Device \ versions[g].members : holds[e] = {}
        BY <2>9 DEF Inv, Instances, FolderOK, Folder
      <4> QED BY <1>1, <1>2, <3>2, <4>1, <4>2 DEF ClearedOK
    <3>3. CASE h # g
      <4>1. \A e \in Device : Passed(e, h)' => Passed(e, h) BY <2>2, <2>5, <3>3 DEF Passed
      <4>2. Ending(h) => versions[h].members \subseteq Device BY States DEF Inv, Ending
      <4>3. NewcomersOK(h)' BY <1>2, <2>5, <3>1, <4>1, <4>2 DEF NewcomersOK
      <4>4. Ending(h) => (AllPassed(h)' => AllPassed(h)) BY <1>2, <4>1, <4>2 DEF AllPassed
      <4> QED BY <1>1, <1>2, <2>5, <3>1, <4>3, <4>4 DEF ClearedOK
    <3> QED BY <3>2, <3>3
  <2>11. \A h \in Gen : KeptOK(h)' BY <1>1, <1>2, <2>5, KeptFrame
  <2> QED BY <2>3, <2>4, <2>6, <2>7, <2>10, <2>11 DEF Inv, Instances, Copies
<1> QED BY <1>3, <1>4

\* A newcomer has nothing yet, and is never offered a version that is ending.
LEMMA JoinInv == ASSUME Inv, NEW d \in Device, NEW e \in Device, Join(d, e) PROVE Inv'
<1> DEFINE F == Folder \cup {e}
<1>1. /\ d \in config[d] /\ config[e] = {}
      /\ config' = [x \in Device |-> IF x \in config[d] \cup {e} THEN config[d] \cup {e} ELSE config[x]]
      /\ missed' = [missed EXCEPT ![e] = @ \cup overdue]
      /\ UNCHANGED <<authority, receipts, busy, holds, fences, sealed, paused, ignored, handler, faults>>
  BY DEF Join, volume
<1>2. UNCHANGED <<project, ops, overdue, versions, removals, queue, confirmed, cohort>> BY <1>1 DEF authority
<1>3. config[d] = Folder /\ Folder \subseteq Device /\ e \notin Folder
  BY <1>1 DEF Inv, Instances, FolderOK, Folder
<1>4. \A x \in Device : config'[x] = IF x \in F THEN F ELSE {}
  BY <1>1, <1>3 DEF Inv, Instances, FolderOK, Folder
<1>5. Folder' = F
  <2>1. F \subseteq Device /\ F # {} BY <1>3
  <2> QED BY <1>4, <2>1 DEF Folder
<1>6. missed'[e] = missed[e] \cup overdue /\ \A x \in Device : x # e => missed'[x] = missed[x]
  BY <1>1 DEF Inv, Shape
<1>7. Shape'
  <2>1. config' \in [Device -> SUBSET Device] BY <1>1, <1>3, <1>4
  <2>2. missed' \in [Device -> SUBSET Gen] BY <1>1 DEF Inv, Shape
  <2> QED BY <1>1, <1>2, <2>1, <2>2 DEF Inv, Shape
<1>8. Authority' /\ LedgerExact' BY <1>1, InstanceFrame
<1>9. /\ \A h \in Gen : State(h)' = State(h) /\ (Ending(h)' <=> Ending(h))
      /\ \A x \in Device, h \in Gen : (Done(x, h)' <=> Done(x, h)) /\ (Passed(x, h)' <=> Passed(x, h))
  BY <1>1, <1>2 DEF State, Ending, Done, Passed
<1>10. ASSUME NEW x \in Device PROVE FolderOK(x)' /\ HandlerOK(x)'
  <2>1. FolderOK(x) /\ HandlerOK(x) BY DEF Inv, Instances
  <2>2. config'[x] = {} => config[x] = {} BY <1>4 DEF Folder
  <2>3. FolderOK(x)' BY <1>1, <1>4, <1>5, <2>1, <2>2 DEF FolderOK
  <2>4. HandlerOK(x)' BY <1>1, <1>2, <2>1 DEF HandlerOK
  <2> QED BY <2>3, <2>4
<1>11. ASSUME NEW x \in Device, NEW h \in Gen PROVE ReceiptOK(x, h)' /\ FenceOK(x, h)'
  <2>1. ReceiptOK(x, h) /\ FenceOK(x, h) BY DEF Inv, Instances
  <2>2. receipts[e][h] = "none" BY <1>1 DEF Inv, Instances, FolderOK
  <2>3. ReceiptOK(x, h)' BY <1>1, <1>2, <1>6, <2>1, <2>2 DEF ReceiptOK
  <2>4. FenceOK(x, h)' BY <1>1, <1>2, <1>9, <2>1 DEF FenceOK
  <2> QED BY <2>3, <2>4
<1>12. ASSUME NEW h \in Gen PROVE NewcomersOK(h)' /\ ClearedOK(h)'
  <2>1. NewcomersOK(h) /\ ClearedOK(h) BY DEF Inv, Copies
  <2>2. Ending(h) => versions[h].members \subseteq Device /\ h \in overdue
    BY States DEF Inv, Ending, Authority, VersionOK
  <2>3. NewcomersOK(h)' BY <1>2, <1>3, <1>5, <1>6, <1>9, <2>1, <2>2 DEF NewcomersOK
  <2>4. Ending(h) => (AllPassed(h)' <=> AllPassed(h)) BY <1>2, <1>9, <2>2 DEF AllPassed
  <2> QED BY <1>1, <1>2, <1>9, <2>1, <2>3, <2>4 DEF ClearedOK
<1>13. \A h \in Gen : KeptOK(h)' BY <1>1, <1>2, <1>9, KeptFrame
<1> QED BY <1>7, <1>8, <1>10, <1>11, <1>12, <1>13 DEF Inv, Instances, Copies

-----------------------------------------------------------------------------
(* The invariant *)

LEMMA InitInv == ASSUME Init PROVE Inv
<1>1. PICK old \in {{}, {1}} :
        /\ project = [status |-> IF old = {} THEN "none" ELSE "active", active |-> IF old = {} THEN 0 ELSE 1, pending |-> 0]
        /\ ops = [g \in Gen |-> IF g \in old THEN "complete" ELSE "none"]
        /\ versions = [g \in Gen |-> IF g \in old THEN Retained ELSE None]
        /\ holds = [d \in Device |-> IF d \in cohort THEN old ELSE {}]
        /\ overdue = old /\ confirmed = old /\ allocated = Cardinality(old)
  BY DEF Init
<1>2. /\ cohort = Founders /\ config = [d \in Device |-> IF d \in cohort THEN cohort ELSE {}]
      /\ removals = {} /\ queue = {} /\ receipts = [d \in Device |-> [g \in Gen |-> "none"]]
      /\ busy = [d \in Device |-> {}] /\ fences = [d \in Device |-> [g \in Gen |-> None]]
      /\ sealed = [d \in Device |-> FALSE] /\ missed = [d \in Device |-> IF d \in Offers THEN {} ELSE Gen]
      /\ paused = [d \in Device |-> FALSE] /\ ignored = [d \in Device |-> {}]
      /\ handler = [d \in Device |-> None] /\ faults = 0
  BY DEF Init
<1>3. 1 \in Gen /\ 1 \in 0..Gens /\ 0 \in 0..Gens /\ old \subseteq Gen BY ReclamationAssumption DEF Gen
<1>4. Retained \in Version /\ Retained # None /\ Founders \subseteq Device /\ Founders # {}
  <2>1. Retained \in Version BY DEF Retained, Version
  <2> QED BY <2>1, NoneAssumption, ReclamationAssumption DEF Device
<1>5. Shape
  <2>1. project \in ProjectRec BY <1>1, <1>3 DEF ProjectRec
  <2>2. ops \in [Gen -> {"none", "pending", "complete", "aborted"}] BY <1>1
  <2>3. versions \in [Gen -> Version \cup {None}] BY <1>1, <1>4
  <2>4. holds \in [Device -> SUBSET Gen] BY <1>1, <1>3
  <2>5. config \in [Device -> SUBSET Device] BY <1>2, <1>4
  <2>6. faults \in 0..MaxFaults BY <1>2, ReclamationAssumption
  <2> QED BY <1>1, <1>2, <1>3, <1>4, <2>1, <2>2, <2>3, <2>4, <2>5, <2>6 DEF Shape, ProjectRec
<1>6. \A g \in Gen : /\ g \in old => versions[g] = Retained /\ State(g) = "retained" /\ ops[g] = "complete"
                     /\ g \notin old => versions[g] = None /\ State(g) = "none" /\ ops[g] = "none"
                     /\ ~Ending(g)
  BY <1>1, <1>4 DEF State, Retained, Ending
<1>7. Authority
  <2>1. DeletedIdle BY <1>1 DEF DeletedIdle
  <2>2. ASSUME NEW g \in Gen PROVE VersionOK(g)
    BY <1>1, <1>4, <1>6 DEF VersionOK, Retained
  <2> QED BY <2>1, <2>2 DEF Authority
<1>8. Folder = Founders BY <1>2, <1>4 DEF Folder
<1>9. ASSUME NEW d \in Device PROVE FolderOK(d) /\ HandlerOK(d)
  BY <1>1, <1>2, <1>4, <1>8 DEF FolderOK, HandlerOK
<1>10. ASSUME NEW d \in Device, NEW g \in Gen PROVE ReceiptOK(d, g) /\ FenceOK(d, g)
  BY <1>2, <1>6 DEF ReceiptOK, FenceOK, Done, Retained
<1>11. ASSUME NEW g \in Gen PROVE NewcomersOK(g) /\ ClearedOK(g) /\ KeptOK(g)
  BY <1>1, <1>2, <1>4, <1>6 DEF NewcomersOK, ClearedOK, KeptOK
<1>12. LedgerExact
  <2>1. {g \in Gen : State(g) \in {"retained", "retiring"}} = old BY <1>3, <1>6
  <2>2. old = {} \/ (project.status = "active" /\ project.active = 1 /\ old = {1}) BY <1>1
  <2> QED BY <1>1, <1>6, <2>1, <2>2 DEF LedgerExact
<1> QED BY <1>5, <1>7, <1>9, <1>10, <1>11, <1>12 DEF Inv, Instances, Copies

LEMMA StutterInv == ASSUME Inv, UNCHANGED vars PROVE Inv'
<1>1. PICK d \in Device : TRUE BY ReclamationAssumption DEF Device
<1>2. PICK g \in Gen : TRUE BY ReclamationAssumption DEF Gen
<1>3. Shape' BY DEF Inv, Shape, vars
<1>4. \A e \in Device : FolderOK(e)' BY DEF Inv, Instances, FolderOK, Folder, vars
<1>5. \A e \in Device, h \in Gen : ReceiptOK(e, h)' BY DEF Inv, Instances, ReceiptOK, vars
<1> QED BY <1>1, <1>2, <1>3, <1>4, <1>5, StoreStep DEF vars, authority, sync

LEMMA NextInv == ASSUME Inv, [Next]_vars PROVE Inv'
<1>1. CASE UNCHANGED vars BY <1>1, StutterInv
<1>2. CASE Delete \/ ReadCohort BY <1>2, DeleteInv, ReadCohortInv
<1>3. CASE \E g \in Gen : \/ Reserve(g) \/ Activate(g) \/ Abort(g)
                          \/ SelectRevision(g) \/ RemoveRevision(g) \/ Retire(g) \/ Deadline(g)
  BY <1>3, ReserveInv, ActivateInv, AbortInv, SelectInv, RemoveRevisionInv, RetireInv, DeadlineInv
<1>4. CASE \E d \in Device : Serve(d) \/ ReclaimFails(d) \/ Crash(d)
  BY <1>4, PauseInv, IgnoreVersionInv, RecheckInv, RemoveVersionInv, ResumeInv, CompleteInv, ReclaimFailsInv, CrashInv
     DEF Serve
<1>5. CASE \E d \in Device, e \in Device : Join(d, e) \/ \E g \in Gen : Replicate(d, e, g)
  BY <1>5, JoinInv, ReplicateInv
<1>6. CASE \E d \in Device, g \in Gen :
            \/ ReserveSpace(d, g) \/ UploadBegin(d, g) \/ UploadEnd(d, g) \/ Commit(d, g)
            \/ Cancel(d, g) \/ Acknowledge(d, g)
            \/ \E whole \in BOOLEAN : ReclaimBegin(d, g, whole)
  BY <1>6, ReserveSpaceInv, UploadBeginInv, UploadEndInv, CommitInv, CancelInv, AcknowledgeInv, ReclaimBeginInv
<1> QED BY <1>1, <1>2, <1>3, <1>4, <1>5, <1>6 DEF Next

\* The records, the folder and the requests of every reachable state fit together.
THEOREM Invariance == Spec => []Inv
<1>1. Init => Inv BY InitInv
<1>2. Inv /\ [Next]_vars => Inv' BY NextInv
<1> QED BY <1>1, <1>2, PTL DEF Spec

\* Records, receipts, fences and requests have the form the code gives them; at
\* most Gens versions are charged, and only members acknowledge.
THEOREM Types == Spec => []TypeOK
<1>1. Inv => TypeOK
  <2> SUFFICES ASSUME Inv PROVE TypeOK OBVIOUS
  <2>1. allocated \in 0..Gens
    <3>1. allocated = Cardinality(Charged) BY DEF Inv, LedgerExact, Charged
    <3>2. IsFiniteSet(Gen) /\ Cardinality(Gen) = Gens
      <4>1. 1 \in Int /\ Gens \in Int /\ 1 <= Gens BY ReclamationAssumption
      <4> QED BY <4>1, FS_Interval DEF Gen
    <3>3. Cardinality(Charged) <= Cardinality(Gen) /\ Cardinality(Charged) \in Nat
      BY <3>2, ChargedFinite, FS_Subset, FS_CardinalityType
    <3> QED BY <3>1, <3>2, <3>3, ReclamationAssumption
  <2>2. \A g \in Gen : versions[g] # None => versions[g].acked \subseteq versions[g].members
    <3> SUFFICES ASSUME NEW g \in Gen, versions[g] # None PROVE versions[g].acked \subseteq versions[g].members
      OBVIOUS
    <3>1. VersionOK(g) BY DEF Inv, Authority
    <3> QED BY <3>1, States DEF Inv, VersionOK, Ending
  <2> QED BY <2>1, <2>2 DEF Inv, Shape, TypeOK
<1> QED BY <1>1, Invariance, PTL

\* Once the last member's acknowledgement has refunded a version, no volume holds
\* its bytes: not a member's, not that of an instance that joined during or after
\* the reclamation, not through an upload that was still running.
THEOREM Reclaimed == Spec => []ReclaimedGone
<1>1. Inv => ReclaimedGone
  <2> SUFFICES ASSUME Inv, NEW g \in Gen, NEW d \in Device, State(g) = "reclaimed" PROVE g \notin holds[d]
    BY DEF ReclaimedGone
  <2>1. Ending(g) /\ versions[g] # None /\ versions[g].members \subseteq Device BY States DEF Inv, Ending
  <2>2. versions[g].acked = versions[g].members BY DEF Inv, Authority, VersionOK
  <2>3. \A e \in versions[g].members : Done(e, g) /\ g \notin holds[e]
    BY <2>1, <2>2 DEF Inv, Instances, FenceOK
  <2>4. AllPassed(g) BY <2>3 DEF AllPassed, Passed
  <2> QED BY <2>1, <2>3, <2>4 DEF Inv, Copies, ClearedOK
<1> QED BY <1>1, Invariance, PTL

\* While the project is live, every published version that its owner has not
\* removed has a copy: reclamation never takes the last one.
THEOREM Held == Spec => []BytesHeld
<1>1. Inv => BytesHeld
  <2> SUFFICES ASSUME Inv, project.status = "active", NEW g \in Gen \ removals, ops[g] = "complete"
               PROVE  \E d \in Device : g \in holds[d]
    BY DEF BytesHeld
  <2>1. VersionOK(g) /\ KeptOK(g) BY DEF Inv, Authority, Copies
  <2>2. versions[g] # None /\ ~Ending(g) /\ g \in confirmed BY <2>1 DEF VersionOK, Unneeded
  <2>3. State(g) = "retained" BY <2>2, States DEF Inv, Ending
  <2> QED BY <2>1, <2>2, <2>3 DEF KeptOK
<1> QED BY <1>1, Invariance, PTL

\* A version is charged from its reservation to its refund, once, and one that is
\* not active is in the queue until then.
THEOREM Ledger == Spec => []LedgerExact
<1>1. Inv => LedgerExact BY DEF Inv
<1> QED BY <1>1, Invariance, PTL
=============================================================================
