-------------------------- MODULE PublishingProofs --------------------------
(***************************************************************************)
(* Proofs about Projects and UploadLinks, for every set of identities,     *)
(* names, contents, replicas and tickets and every limit.                  *)
(*                                                                         *)
(* Projects, in four layers.  Inv: the types, the names and the transfer   *)
(* links, with what makes them inductive (operations and links name        *)
(* existing projects, a project that waits for an upload is not deleted).  *)
(* Settled: uploads and their projects name each other, and the digest     *)
(* index agrees with both.  Counted: every owner's index and count are     *)
(* those of its projects.  Charged: every owner's and project's bytes are  *)
(* those of its operations.  Between them, lemmas named ...Effect say once *)
(* what each action does to the records.                                   *)
(*                                                                         *)
(* Upload links: an operation is reserved on the revision its ticket was   *)
(* made for and keeps its body, whoever resumes it; a request that goes on *)
(* with the operation carries that body and installs it before it          *)
(* activates.  Activation asks for a ticket without a receipt and for a    *)
(* project at the operation's revision, and writes both at once.           *)
(***************************************************************************)
EXTENDS Publishing, FiniteSetTheorems, SequenceTheorems, TLAPS

-----------------------------------------------------------------------------
(* Projects *)

OpsKnown == \A o \in OpId : ops[o] # None => Known(ops[o].project)

PendingNotDeleted ==
    \A p \in Pid : Known(p) /\ projects[p].pending # None => projects[p].status # "deleted"

LinksKnown == \A p \in Pid : transfers[p] # None => Known(p)

Inv == TypeOK /\ OpsKnown /\ PendingNotDeleted /\ NamesHeld /\ LinksKnown /\ LinksCurrent

\* Every request identity has an owner (Actor.Owner).
LEMMA OwnerOfType == ASSUME NEW a \in Actor PROVE OwnerOf(a) \in Owner
  BY IdentitiesAssumption DEF OwnerOf, Owner

\* A charge is a positive number of bytes (versionCharge).
LEMMA ChargeType == ASSUME NEW d \in Digest PROVE VersionCharge(d) \in Nat /\ VersionCharge(d) > 0
  BY SizesAssumption DEF VersionCharge

\* A known project's record is a Project.
LEMMA KnownType == ASSUME TypeOK, NEW p \in Pid, Known(p) PROVE projects[p] \in Project
  BY DEF TypeOK, Known

\* A slug that chooseSlug returns is not the name of another current project.
LEMMA ChosenIsFree ==
  ASSUME Inv, NEW s \in Slug, NEW name, NEW seed, NEW p \in Pid, IsChoice(s, name, seed, p)
  PROVE  \A q \in Pid : Known(q) /\ projects[q].status # "deleted" /\ projects[q].slug = s => q = p
<1>1. SlugOwner(s) \in {None, p} BY DEF IsChoice, Available
<1> SUFFICES ASSUME NEW q \in Pid, Known(q), projects[q].status # "deleted", projects[q].slug = s
             PROVE  q = p
  OBVIOUS
<1>2. slugs[s] = q BY DEF Inv, NamesHeld
<1>3. SlugOwner(s) = q BY <1>2, NoneAssumption DEF SlugOwner
<1> QED BY <1>1, <1>3, NoneAssumption

\* The initial, empty store satisfies the invariant.
LEMMA InitInv == Init => Inv
  BY DEF Init, Inv, TypeOK, OpsKnown, PendingNotDeleted, NamesHeld, LinksKnown, LinksCurrent, Known

\* A first reservation keeps the record types.
LEMMA ReserveNewInv ==
  ASSUME Inv, NEW a \in Actor, NEW k \in Key, NEW name \in Name, NEW d \in Digest,
         ReserveNew(a, k, name, d)
  PROVE  Inv'
<1> DEFINE o == <<OwnerOf(a), k>>
           owner == OwnerOf(a)
           New(s) == [owner |-> owner, slug |-> s, suffix |-> s[2], aliases |-> 0, digest |-> None,
                      charged |-> VersionCharge(d), rev |-> 0, policy |-> 1, password |-> None,
                      watermark |-> TRUE, status |-> "reserved", pending |-> o, expired |-> FALSE]
<1>1. o \in OpId /\ o \in Pid /\ owner \in Owner BY OwnerOfType DEF OpId, Pid
<1>2. PICK s \in Slug : /\ IsChoice(s, name, d, o)
                        /\ slugs' = [slugs EXCEPT ![s] = o]
                        /\ projects' = [projects EXCEPT ![o] = New(s)]
  BY DEF ReserveNew
<1>3. /\ projects[o] = None
      /\ ops' = [ops EXCEPT ![o] = Operation0(a, o, d, 0, TRUE)]
      /\ digests' = [digests EXCEPT ![d] = [project |-> o, op |-> o]]
      /\ quotas' = [quotas EXCEPT ![owner] = [count |-> quotas[owner].count + 1,
                                              charged |-> quotas[owner].charged + VersionCharge(d)]]
      /\ index' = [index EXCEPT ![owner] = @ \cup {o}]
      /\ transfers' = transfers /\ removed' = removed
  BY DEF ReserveNew
<1>4. New(s) \in Project
  <2>1. s[2] \in Digest \cup {None} BY DEF Slug
  <2> QED BY <1>1, <2>1, ChargeType DEF Project
<1>5. Operation0(a, o, d, 0, TRUE) \in Operation BY <1>1 DEF Operation0, Operation
<1>6. [project |-> o, op |-> o] \in IndexEntry BY <1>1 DEF IndexEntry
<1> HIDE DEF o, owner, New
<1>7. TypeOK'
  <2>1. projects' \in [Pid -> Project \cup {None}] BY <1>1, <1>2, <1>4 DEF Inv, TypeOK
  <2>2. ops' \in [OpId -> Operation \cup {None}] BY <1>1, <1>3, <1>5 DEF Inv, TypeOK
  <2>3. slugs' \in [Slug -> Pid \cup {None}] BY <1>1, <1>2 DEF Inv, TypeOK
  <2>4. digests' \in [Digest -> IndexEntry \cup {None}] BY <1>3, <1>6 DEF Inv, TypeOK
  <2>5. quotas' \in [Owner -> [count : Nat, charged : Nat]] BY <1>1, <1>3, ChargeType DEF Inv, TypeOK
  <2>6. index' \in [Owner -> SUBSET Pid] BY <1>1, <1>3 DEF Inv, TypeOK
  <2> QED BY <2>1, <2>2, <2>3, <2>4, <2>5, <2>6, <1>3 DEF Inv, TypeOK
<1>8. NamesHeld'
  <2> SUFFICES ASSUME NEW p \in Pid, Known(p)', projects'[p].status # "deleted"
               PROVE  slugs'[projects'[p].slug] = p
    BY DEF NamesHeld
  <2>1. CASE p = o
    <3>1. projects'[p].slug = s BY <2>1, <1>1, <1>2 DEF Inv, TypeOK, New
    <3> QED BY <2>1, <3>1, <1>1, <1>2 DEF Inv, TypeOK
  <2>2. CASE p # o
    <3>1. projects'[p] = projects[p] BY <2>2, <1>1, <1>2 DEF Inv, TypeOK
    <3>2. Known(p) /\ slugs[projects[p].slug] = p BY <3>1 DEF Known, Inv, NamesHeld
    <3>3. projects[p].slug # s BY <2>2, <3>1, <3>2, <1>1, <1>2, ChosenIsFree
    <3>4. projects[p].slug \in Slug BY <3>2, KnownType DEF Inv, Project
    <3> QED BY <3>1, <3>2, <3>3, <3>4, <1>2 DEF Inv, TypeOK
  <2> QED BY <2>1, <2>2
<1>9. OpsKnown'
  <2> SUFFICES ASSUME NEW i \in OpId, ops'[i] # None PROVE projects'[ops'[i].project] # None
    BY DEF OpsKnown, Known
  <2>1. CASE i = o
    <3>1. ops'[i].project = o BY <2>1, <1>1, <1>3 DEF Inv, TypeOK, Operation0
    <3> QED BY <3>1, <1>1, <1>2, <1>4, NoneAssumption DEF Inv, TypeOK
  <2>2. CASE i # o
    <3>1. ops'[i] = ops[i] BY <2>2, <1>1, <1>3 DEF Inv, TypeOK
    <3>2. projects[ops[i].project] # None BY <3>1 DEF Inv, OpsKnown, Known
    <3>3. ops[i].project \in Pid BY <3>1 DEF Inv, TypeOK, Operation
    <3> QED BY <3>1, <3>2, <3>3, <1>1, <1>2, <1>3 DEF Inv, TypeOK
  <2> QED BY <2>1, <2>2
<1>10. PendingNotDeleted'
  <2>1. \A p \in Pid : p # o => projects'[p] = projects[p] BY <1>1, <1>2 DEF Inv, TypeOK
  <2>2. projects'[o].status = "reserved" BY <1>1, <1>2 DEF Inv, TypeOK, New
  <2> QED BY <2>1, <2>2 DEF Inv, PendingNotDeleted, Known
<1>11. LinksKnown' /\ LinksCurrent'
  <2>1. \A p \in Pid : transfers[p] # None => p # o /\ Known(p)
    BY <1>3 DEF Inv, LinksKnown, Known
  <2>2. \A p \in Pid : p # o => projects'[p] = projects[p] BY <1>1, <1>2 DEF Inv, TypeOK
  <2> QED BY <2>1, <2>2, <1>3 DEF Inv, LinksKnown, LinksCurrent, Known
<1> QED BY <1>7, <1>8, <1>9, <1>10, <1>11 DEF Inv

-----------------------------------------------------------------------------
(* The other actions change one existing project and keep every name. *)

KeepsProjects ==
    \A p \in Pid :
        /\ Known(p) <=> Known(p)'
        /\ Known(p) => /\ projects'[p].slug = projects[p].slug
                       /\ projects[p].status = "deleted" => projects'[p].status = "deleted"
                       /\ projects'[p].pending # None => projects'[p].status # "deleted"

OpsOfKnown == \A o \in OpId : ops'[o] # None => ops'[o].project \in Pid /\ Known(ops'[o].project)

LinksOfOwners ==
    \A p \in Pid : transfers'[p] # None =>
        Known(p) /\ transfers'[p].owner \in Anonymous /\ projects'[p].owner = transfers'[p].owner

\* A step that keeps names, existence and deletions preserves the invariant.
LEMMA FrameInv ==
  ASSUME Inv, TypeOK', KeepsProjects, slugs' = slugs, OpsOfKnown, LinksOfOwners
  PROVE  Inv'
<1>1. OpsKnown' BY DEF OpsKnown, OpsOfKnown, KeepsProjects
<1>2. PendingNotDeleted' BY DEF PendingNotDeleted, KeepsProjects
<1>3. NamesHeld' BY DEF Inv, NamesHeld, KeepsProjects
<1>4. LinksKnown' /\ LinksCurrent' BY DEF LinksKnown, LinksCurrent, LinksOfOwners, KeepsProjects
<1> QED BY <1>1, <1>2, <1>3, <1>4 DEF Inv

\* Replacing one project's record by another of the same name and owner.
LEMMA OneProject ==
  ASSUME Inv, NEW p \in Pid, Known(p), NEW r \in Project,
         projects' = [projects EXCEPT ![p] = r],
         r.slug = projects[p].slug,
         projects[p].status = "deleted" => r.status = "deleted",
         r.pending # None => r.status # "deleted"
  PROVE  KeepsProjects /\ projects' \in [Pid -> Project \cup {None}]
<1>1. projects' \in [Pid -> Project \cup {None}] BY DEF Inv, TypeOK
<1>2. \A q \in Pid : q # p => projects'[q] = projects[q] BY DEF Inv, TypeOK
<1>3. projects'[p] = r BY DEF Inv, TypeOK
<1>4. r # None BY NoneAssumption
<1> QED BY <1>1, <1>2, <1>3, <1>4 DEF KeepsProjects, Known, Inv, PendingNotDeleted

\* Links stay with their owners while neither links nor owners change.
LEMMA LinksStay ==
  ASSUME Inv, NEW p \in Pid, Known(p), NEW r \in Project,
         projects' = [projects EXCEPT ![p] = r], r.owner = projects[p].owner,
         \A q \in Pid : transfers'[q] \in {transfers[q], None}
  PROVE  LinksOfOwners
<1>1. \A q \in Pid : projects'[q].owner = projects[q].owner BY DEF Inv, TypeOK
<1> QED BY <1>1 DEF LinksOfOwners, Inv, LinksKnown, LinksCurrent

\* Operations keep naming known projects when they only change state.
LEMMA OpsStay ==
  ASSUME Inv, ops' = ops PROVE OpsOfKnown
  BY DEF OpsOfKnown, Inv, OpsKnown, TypeOK, Operation

\* SetPrivacy, SetWatermark, RemoveRevision: only the project's own record.
LEMMA EditInv ==
  ASSUME Inv, NEW a \in Actor, NEW p \in Pid, Editable(a, p), NEW r \in Project,
         projects' = [projects EXCEPT ![p] = r],
         r.slug = projects[p].slug, r.owner = projects[p].owner, r.pending = None,
         UNCHANGED <<ops, slugs, quotas, index, transfers>>,
         digests' \in [Digest -> IndexEntry \cup {None}], removed' \subseteq Pid \X Digest
  PROVE  Inv'
<1>1. Known(p) /\ projects[p].status = "active" BY DEF Editable, Live
<1>2. KeepsProjects /\ projects' \in [Pid -> Project \cup {None}] BY <1>1, OneProject
<1>3. LinksOfOwners BY <1>1, LinksStay
<1>4. OpsOfKnown BY OpsStay
<1>5. TypeOK' BY <1>2 DEF Inv, TypeOK
<1> QED BY <1>2, <1>3, <1>4, <1>5, FrameInv

\* A password change or removal (SetPrivacy) preserves the invariant.
LEMMA SetPrivacyInv ==
  ASSUME Inv, NEW a \in Actor, NEW p \in Pid, NEW pw \in Password \cup {None}, SetPrivacy(a, p, pw)
  PROVE  Inv'
<1> DEFINE r == [projects[p] EXCEPT !.password = pw, !.rev = @ + 1, !.policy = NextPolicy(p)]
<1>1. Editable(a, p) /\ projects[p] \in Project /\ projects[p].pending = None
  BY KnownType DEF SetPrivacy, Editable, Live, Inv
<1>2. r \in Project
  <2>1. projects[p].rev + 1 \in Nat /\ NextPolicy(p) \in Nat BY <1>1 DEF Project, NextPolicy
  <2> QED BY <1>1, <2>1 DEF Project
<1>3. projects' = [projects EXCEPT ![p] = r] BY DEF SetPrivacy
<1>4. r.slug = projects[p].slug /\ r.owner = projects[p].owner /\ r.pending = None BY <1>1 DEF Project
<1>5. digests' \in [Digest -> IndexEntry \cup {None}] /\ removed' \subseteq Pid \X Digest
  BY DEF SetPrivacy, Inv, TypeOK
<1> HIDE DEF r
<1> QED BY <1>1, <1>2, <1>3, <1>4, <1>5, EditInv DEF SetPrivacy

\* Switching the watermark (SetWatermark) preserves the invariant.
LEMMA SetWatermarkInv ==
  ASSUME Inv, NEW a \in Actor, NEW p \in Pid, NEW w \in BOOLEAN, SetWatermark(a, p, w)
  PROVE  Inv'
<1> DEFINE r == [projects[p] EXCEPT !.watermark = w, !.rev = @ + 1]
<1>1. Editable(a, p) /\ projects[p] \in Project /\ projects[p].pending = None
  BY KnownType DEF SetWatermark, Editable, Live, Inv
<1>2. r \in Project
  <2>1. projects[p].rev + 1 \in Nat BY <1>1 DEF Project
  <2> QED BY <1>1, <2>1, ZenonT(60) DEF Project
<1>3. projects' = [projects EXCEPT ![p] = r] BY DEF SetWatermark
<1>4. r.slug = projects[p].slug /\ r.owner = projects[p].owner /\ r.pending = None BY <1>1 DEF Project
<1>5. digests' \in [Digest -> IndexEntry \cup {None}] /\ removed' \subseteq Pid \X Digest
  BY DEF SetWatermark, Inv, TypeOK
<1> HIDE DEF r
<1> QED BY <1>1, <1>2, <1>3, <1>4, <1>5, EditInv DEF SetWatermark

\* The digest index stays well formed when p starts to serve d.
LEMMA ReindexedType ==
  ASSUME Inv, NEW p \in Pid, NEW d \in Digest
  PROVE  Reindexed(p, d) \in [Digest -> IndexEntry \cup {None}]
<1>1. [project |-> p, op |-> None] \in IndexEntry BY DEF IndexEntry
<1> QED BY <1>1 DEF Reindexed, Inv, TypeOK

\* A rollback to an earlier version (SelectRevision) preserves the invariant.
LEMMA SelectRevisionInv ==
  ASSUME Inv, NEW a \in Actor, NEW p \in Pid, NEW o \in OpId, SelectRevision(a, p, o)
  PROVE  Inv'
<1> DEFINE d == ops[o].digest
           r == [projects[p] EXCEPT !.digest = d, !.rev = @ + 1, !.policy = NextPolicy(p)]
<1>1. Editable(a, p) /\ projects[p] \in Project /\ projects[p].pending = None
  BY KnownType DEF SelectRevision, Editable, Live, Inv
<1>2. d \in Digest BY DEF SelectRevision, AvailableRevision, Inv, TypeOK, Operation
<1>3. digests' = Reindexed(p, d) BY DEF SelectRevision
<1>4. projects' = [projects EXCEPT ![p] = r] BY DEF SelectRevision
<1> HIDE DEF d
<1>5. r \in Project
  <2>1. projects[p].rev + 1 \in Nat /\ NextPolicy(p) \in Nat BY <1>1 DEF Project, NextPolicy
  <2> QED BY <1>1, <1>2, <2>1 DEF Project
<1>6. r.slug = projects[p].slug /\ r.owner = projects[p].owner /\ r.pending = None BY <1>1 DEF Project
<1>7. digests' \in [Digest -> IndexEntry \cup {None}] BY <1>2, <1>3, ReindexedType
<1>8. removed' \subseteq Pid \X Digest BY DEF SelectRevision, Inv, TypeOK
<1> HIDE DEF r
<1> QED BY <1>1, <1>4, <1>5, <1>6, <1>7, <1>8, EditInv DEF SelectRevision

\* Removing an old version (RemoveRevision) preserves the invariant.
LEMMA RemoveRevisionInv ==
  ASSUME Inv, NEW a \in Actor, NEW p \in Pid, NEW o \in OpId, RemoveRevision(a, p, o)
  PROVE  Inv'
<1> DEFINE r == [projects[p] EXCEPT !.rev = @ + 1]
<1>1. Editable(a, p) /\ projects[p] \in Project /\ projects[p].pending = None
  BY KnownType DEF RemoveRevision, Editable, Live, Inv
<1>2. ops[o].digest \in Digest BY DEF RemoveRevision, AvailableRevision, Inv, TypeOK, Operation
<1>3. r \in Project
  <2>1. projects[p].rev + 1 \in Nat BY <1>1 DEF Project
  <2> QED BY <1>1, <2>1 DEF Project
<1>4. projects' = [projects EXCEPT ![p] = r] BY DEF RemoveRevision
<1>5. r.slug = projects[p].slug /\ r.owner = projects[p].owner /\ r.pending = None BY <1>1 DEF Project
<1>6. digests' \in [Digest -> IndexEntry \cup {None}] BY DEF RemoveRevision, Inv, TypeOK
<1>7. removed' \subseteq Pid \X Digest BY <1>2 DEF RemoveRevision, Inv, TypeOK
<1> HIDE DEF r
<1> QED BY <1>1, <1>3, <1>4, <1>5, <1>6, <1>7, EditInv DEF RemoveRevision

\* Reserving a new version of a live project preserves the invariant.
LEMMA ReserveUpdateInv ==
  ASSUME Inv, NEW a \in Actor, NEW k \in Key, NEW p \in Pid, NEW d \in Digest,
         ReserveUpdate(a, k, p, d)
  PROVE  Inv'
<1> DEFINE o == <<OwnerOf(a), k>>
           c == VersionCharge(d)
           r == [projects[p] EXCEPT !.charged = @ + c, !.pending = o]
           op == Operation0(a, p, d, projects[p].rev, FALSE)
<1>1. o \in OpId /\ c \in Nat BY OwnerOfType, ChargeType DEF OpId
<1>2. Known(p) /\ projects[p] \in Project /\ projects[p].status = "active"
  BY KnownType DEF ReserveUpdate, Editable, Live, Inv
<1>3. /\ projects' = [projects EXCEPT ![p] = r]
      /\ ops' = [ops EXCEPT ![o] = op]
      /\ digests' = [digests EXCEPT ![d] = [project |-> p, op |-> o]]
      /\ quotas' = [quotas EXCEPT ![projects[p].owner].charged = @ + c]
      /\ slugs' = slugs /\ index' = index /\ transfers' = transfers /\ removed' = removed
  BY DEF ReserveUpdate
<1>4. op \in Operation BY <1>2, OwnerOfType DEF Operation0, Operation, Project
<1>5. op.project = p BY DEF Operation0
<1>6. projects[p].owner \in Owner BY <1>2 DEF Project
<1> HIDE DEF o, c, op
<1>7. r \in Project
  <2>1. projects[p].charged + c \in Nat BY <1>1, <1>2 DEF Project
  <2> QED BY <1>1, <1>2, <2>1 DEF Project
<1>8. r.slug = projects[p].slug /\ r.owner = projects[p].owner /\ r.status = "active"
  BY <1>2 DEF Project
<1> HIDE DEF r
<1>9. KeepsProjects /\ projects' \in [Pid -> Project \cup {None}] BY <1>2, <1>3, <1>7, <1>8, OneProject
<1>10. LinksOfOwners BY <1>2, <1>3, <1>7, <1>8, LinksStay
<1>11. OpsOfKnown
  <2>1. \A i \in OpId : i # o => ops'[i] = ops[i] BY <1>1, <1>3 DEF Inv, TypeOK
  <2>2. ops'[o] = op BY <1>1, <1>3 DEF Inv, TypeOK
  <2> QED BY <2>1, <2>2, <1>2, <1>5 DEF OpsOfKnown, Inv, OpsKnown, TypeOK, Operation
<1>12. TypeOK'
  <2>1. ops' \in [OpId -> Operation \cup {None}] BY <1>1, <1>3, <1>4 DEF Inv, TypeOK
  <2>2. digests' \in [Digest -> IndexEntry \cup {None}] BY <1>1, <1>3 DEF Inv, TypeOK, IndexEntry
  <2>3. quotas' \in [Owner -> [count : Nat, charged : Nat]] BY <1>1, <1>3, <1>6 DEF Inv, TypeOK
  <2> QED BY <1>3, <1>9, <2>1, <2>2, <2>3 DEF Inv, TypeOK
<1> QED BY <1>3, <1>9, <1>10, <1>11, <1>12, FrameInv

-----------------------------------------------------------------------------
(* Publication completed or given up *)

\* An operation that only changes its state keeps naming its project.
LEMMA OpStateStays ==
  ASSUME Inv, NEW o \in OpId, ops[o] # None,
         NEW st \in {"pending", "overdue", "complete", "aborted"},
         ops' = [ops EXCEPT ![o].state = st]
  PROVE  OpsOfKnown /\ ops' \in [OpId -> Operation \cup {None}]
<1>1. ops[o] \in Operation BY DEF Inv, TypeOK
<1>2. [ops[o] EXCEPT !.state = st] \in Operation BY <1>1 DEF Operation
<1>3. [ops[o] EXCEPT !.state = st].project = ops[o].project BY <1>1 DEF Operation
<1>4. ops' = [ops EXCEPT ![o] = [ops[o] EXCEPT !.state = st]] OBVIOUS
<1>5. ops' \in [OpId -> Operation \cup {None}] BY <1>2, <1>4 DEF Inv, TypeOK
<1>6. ops'[o].project = ops[o].project BY <1>3, <1>4 DEF Inv, TypeOK
<1>7. \A i \in OpId : i # o => ops'[i] = ops[i] BY <1>4 DEF Inv, TypeOK
<1>8. \A i \in OpId : ops[i] # None => ops[i].project \in Pid /\ Known(ops[i].project)
  BY DEF Inv, OpsKnown, TypeOK, Operation
<1> QED BY <1>5, <1>6, <1>7, <1>8 DEF OpsOfKnown

\* Activation (Activate, ActivatePrivate) preserves the invariant.
LEMMA ActivateInv ==
  ASSUME Inv, NEW a \in Actor, NEW o \in OpId, NEW pw \in Password \cup {None}, Activate(a, o, pw)
  PROVE  Inv'
<1> DEFINE op == ops[o]
           p == op.project
           word == IF pw # None THEN pw ELSE projects[p].password
           pol == IF pw # None THEN NextPolicy(p) ELSE projects[p].policy
           r == [projects[p] EXCEPT !.digest = op.digest, !.status = "active", !.pending = None,
                                    !.password = word, !.policy = pol, !.rev = @ + 1]
<1>1. op # None /\ op \in Operation BY DEF Activate, Inv, TypeOK
<1>2. p \in Pid /\ op.digest \in Digest BY <1>1 DEF Operation
<1>3. Known(p) BY <1>1 DEF Inv, OpsKnown
<1>4. projects[p] \in Project BY <1>2, <1>3, KnownType DEF Inv
<1>5. projects[p].status # "deleted" BY DEF Activate
<1>6. /\ digests' = Reindexed(p, op.digest)
      /\ ops' = [ops EXCEPT ![o].state = "complete"]
      /\ slugs' = slugs /\ quotas' = quotas /\ index' = index
      /\ transfers' = transfers /\ removed' = removed
  BY DEF Activate
<1>7. projects' = [projects EXCEPT ![p] = r] BY DEF Activate
<1>8. word \in Password \cup {None} /\ pol \in Nat /\ projects[p].rev + 1 \in Nat
  BY <1>4 DEF Project, NextPolicy
<1>9. digests' \in [Digest -> IndexEntry \cup {None}] BY <1>2, <1>6, ReindexedType
<1>10. OpsOfKnown /\ ops' \in [OpId -> Operation \cup {None}] BY <1>1, <1>6, OpStateStays
<1> HIDE DEF word, pol, p
<1>11. r \in Project BY <1>2, <1>4, <1>8 DEF Project
<1>12. r.slug = projects[p].slug /\ r.owner = projects[p].owner /\ r.pending = None BY <1>4 DEF Project
<1> HIDE DEF r
<1>13. KeepsProjects /\ projects' \in [Pid -> Project \cup {None}]
  BY <1>2, <1>3, <1>5, <1>7, <1>11, <1>12, OneProject
<1>14. LinksOfOwners BY <1>2, <1>3, <1>6, <1>7, <1>11, <1>12, LinksStay
<1>15. TypeOK' BY <1>6, <1>9, <1>10, <1>13 DEF Inv, TypeOK
<1> QED BY <1>6, <1>10, <1>13, <1>14, <1>15, FrameInv

\* The index entry an aborted upload leaves behind is well formed.
LEMMA ReleasedType ==
  ASSUME Inv, NEW o \in OpId, ops[o] # None PROVE ReleasedEntry(o) \in IndexEntry \cup {None}
<1>1. ops[o] \in Operation BY DEF Inv, TypeOK
<1>2. ops[o].project \in Pid /\ ops[o].digest \in Digest BY <1>1 DEF Operation
<1>3. digests[ops[o].digest] \in IndexEntry \cup {None} BY <1>2 DEF Inv, TypeOK
<1>4. [project |-> ops[o].project, op |-> None] \in IndexEntry BY <1>2 DEF IndexEntry
<1> QED BY <1>3, <1>4 DEF ReleasedEntry

\* Giving a project's count back keeps quotas well formed.
LEMMA UncountType ==
  ASSUME Inv, NEW w \in Owner, quotas[w].count > 0
  PROVE  Uncount(w) \in [Owner -> [count : Nat, charged : Nat]]
<1>1. quotas[w] \in [count : Nat, charged : Nat] BY DEF Inv, TypeOK
<1>2. quotas[w].count - 1 \in Nat BY <1>1
<1>3. [quotas[w] EXCEPT !.count = @ - 1] \in [count : Nat, charged : Nat] BY <1>1, <1>2
<1>4. Uncount(w) = [quotas EXCEPT ![w] = [quotas[w] EXCEPT !.count = @ - 1]] BY DEF Uncount
<1> QED BY <1>3, <1>4 DEF Inv, TypeOK

\* abort preserves the invariant: a name it frees was its own project's.
LEMMA ReleaseInv ==
  ASSUME Inv, NEW o \in OpId, ops[o] # None, Release(o)
  PROVE  Inv'
<1> DEFINE op == ops[o]
           p == op.project
           w == projects[p].owner
           st == IF op.new THEN "deleted" ELSE projects[p].status
           r == [projects[p] EXCEPT !.pending = None, !.status = st]
<1>1. op \in Operation BY DEF Inv, TypeOK
<1>2. p \in Pid /\ op.digest \in Digest /\ op.new \in BOOLEAN BY <1>1 DEF Operation
<1>3. Known(p) BY DEF Inv, OpsKnown
<1>4. projects[p] \in Project BY <1>2, <1>3, KnownType DEF Inv
<1>5. projects[p].pending = o /\ (op.new => quotas[w].count > 0) BY DEF Release
<1>6. projects[p].status # "deleted"
  <2>1. o # None BY NoneAssumption DEF Pid
  <2> QED BY <2>1, <1>2, <1>3, <1>5 DEF Inv, PendingNotDeleted
<1>7. /\ digests' = [digests EXCEPT ![op.digest] = ReleasedEntry(o)]
      /\ ops' = [ops EXCEPT ![o].state = "aborted"]
      /\ quotas' = IF op.new THEN Uncount(w) ELSE quotas
      /\ slugs' = [slugs EXCEPT ![projects[p].slug] = IF op.new THEN None ELSE @]
      /\ index' = [index EXCEPT ![w] = IF op.new THEN @ \ {p} ELSE @]
      /\ transfers' = transfers /\ removed' = removed
  BY DEF Release
<1>8. projects' = [projects EXCEPT ![p] = r] BY DEF Release
<1>9. digests' \in [Digest -> IndexEntry \cup {None}] BY <1>2, <1>7, ReleasedType DEF Inv, TypeOK
<1>10. OpsOfKnown /\ ops' \in [OpId -> Operation \cup {None}] BY <1>7, OpStateStays
<1>11. w \in Owner /\ projects[p].slug \in Slug BY <1>4 DEF Project
<1>12. quotas' \in [Owner -> [count : Nat, charged : Nat]]
  BY <1>2, <1>5, <1>7, <1>11, UncountType DEF Inv, TypeOK
<1>13. slugs' \in [Slug -> Pid \cup {None}] BY <1>7, <1>11 DEF Inv, TypeOK
<1>14. index' \in [Owner -> SUBSET Pid] BY <1>7, <1>11 DEF Inv, TypeOK
<1>15. st \in {"reserved", "active", "deleted"} BY <1>4 DEF Project
<1>16. op.new => st = "deleted" OBVIOUS
<1>17. ~op.new => slugs' = slugs BY <1>7, <1>11 DEF Inv, TypeOK
<1>18. op.new => slugs' = [slugs EXCEPT ![projects[p].slug] = None] BY <1>7
<1> HIDE DEF st, w, p, op
<1>19. r \in Project BY <1>4, <1>15 DEF Project
<1>20. /\ r.slug = projects[p].slug /\ r.owner = projects[p].owner
       /\ r.pending = None /\ r.status = st
  BY <1>4 DEF Project
<1> HIDE DEF r
<1>21. KeepsProjects /\ projects' \in [Pid -> Project \cup {None}]
  BY <1>2, <1>3, <1>6, <1>8, <1>19, <1>20, OneProject
<1>22. LinksOfOwners BY <1>2, <1>3, <1>7, <1>8, <1>19, <1>20, w = projects[p].owner, LinksStay DEF w
<1>23. TypeOK' BY <1>7, <1>9, <1>10, <1>12, <1>13, <1>14, <1>21 DEF Inv, TypeOK
<1>24. OpsKnown' BY <1>10, <1>21 DEF OpsKnown, OpsOfKnown, KeepsProjects
<1>25. PendingNotDeleted' BY <1>21 DEF PendingNotDeleted, KeepsProjects
<1>26. NamesHeld'
  <2>1. CASE ~op.new BY <2>1, <1>17, <1>21 DEF Inv, NamesHeld, KeepsProjects
  <2>2. CASE op.new
    <3> SUFFICES ASSUME NEW q \in Pid, Known(q)', projects'[q].status # "deleted"
                 PROVE  slugs'[projects'[q].slug] = q
      BY DEF NamesHeld
    <3>1. projects'[p].status = "deleted" BY <2>2, <1>2, <1>8, <1>16, <1>20 DEF Inv, TypeOK
    <3>2. q # p BY <3>1
    <3>3. Known(q) /\ projects'[q] = projects[q] BY <3>2, <1>2, <1>8, <1>21 DEF Inv, TypeOK, KeepsProjects
    <3>4. slugs[projects[q].slug] = q BY <3>3 DEF Inv, NamesHeld
    <3>5. slugs[projects[p].slug] = p BY <1>2, <1>3, <1>6 DEF Inv, NamesHeld
    <3>6. projects[q].slug # projects[p].slug BY <3>2, <3>4, <3>5
    <3>7. projects[q].slug \in Slug BY <3>3, KnownType DEF Inv, Project
    <3> QED BY <2>2, <3>3, <3>4, <3>6, <3>7, <1>11, <1>18 DEF Inv, TypeOK
  <2> QED BY <2>1, <2>2
<1>27. LinksKnown' /\ LinksCurrent'
  BY <1>21, <1>22 DEF LinksKnown, LinksCurrent, LinksOfOwners, KeepsProjects
<1> QED BY <1>23, <1>24, <1>25, <1>26, <1>27 DEF Inv

\* Rename preserves the invariant: the name it takes was nobody else's.
LEMMA RenameInv ==
  ASSUME Inv, NEW a \in Actor, NEW p \in Pid, NEW name \in Name, Rename(a, p, name)
  PROVE  Inv'
<1> DEFINE seed == IF projects[p].suffix # None THEN projects[p].suffix ELSE projects[p].digest
           Aliases(s) == IF slugs[s] # p THEN projects[p].aliases + 1 ELSE projects[p].aliases
           R(s) == [projects[p] EXCEPT !.slug = s, !.suffix = s[2], !.rev = @ + 1,
                                       !.policy = NextPolicy(p), !.aliases = Aliases(s)]
<1>1. Known(p) /\ projects[p] \in Project /\ projects[p].pending = None
  BY KnownType DEF Rename, Editable, Live, Inv
<1>2. PICK s \in Slug :
        /\ IsChoice(s, name, seed, p)
        /\ slugs' = [slugs EXCEPT ![s] = p]
        /\ projects' = [projects EXCEPT
             ![p].slug = s, ![p].suffix = s[2], ![p].rev = @ + 1, ![p].policy = NextPolicy(p),
             ![p].aliases = IF slugs[s] # p THEN @ + 1 ELSE @]
  BY DEF Rename
<1>3. /\ ops' = ops /\ digests' = digests /\ quotas' = quotas
      /\ index' = index /\ transfers' = transfers /\ removed' = removed
  BY DEF Rename
<1> DEFINE r == R(s)
<1>4. r \in Project
  <2>1. s[2] \in Digest \cup {None} BY DEF Slug
  <2>2. projects[p].rev + 1 \in Nat /\ NextPolicy(p) \in Nat /\ Aliases(s) \in Nat
    BY <1>1 DEF Project, NextPolicy
  <2> HIDE DEF Aliases
  <2> QED BY <1>1, <2>1, <2>2 DEF Project
<1>5. r.slug = s /\ r.owner = projects[p].owner /\ r.pending = None BY <1>1 DEF Project
<1>6. projects' = [projects EXCEPT ![p] = r] BY <1>2
<1> HIDE DEF r, R, Aliases, seed
<1>7. /\ projects'[p] = r /\ r # None
      /\ \A q \in Pid : q # p => projects'[q] = projects[q]
  BY <1>4, <1>6, NoneAssumption DEF Inv, TypeOK
<1>8. TypeOK'
  <2>1. projects' \in [Pid -> Project \cup {None}] BY <1>4, <1>6 DEF Inv, TypeOK
  <2>2. slugs' \in [Slug -> Pid \cup {None}] BY <1>2 DEF Inv, TypeOK
  <2> QED BY <2>1, <2>2, <1>3 DEF Inv, TypeOK
<1>9. NamesHeld'
  <2> SUFFICES ASSUME NEW q \in Pid, Known(q)', projects'[q].status # "deleted"
               PROVE  slugs'[projects'[q].slug] = q
    BY DEF NamesHeld
  <2>1. CASE q = p BY <2>1, <1>2, <1>5, <1>7 DEF Inv, TypeOK
  <2>2. CASE q # p
    <3>1. projects'[q] = projects[q] BY <2>2, <1>7
    <3>2. Known(q) /\ slugs[projects[q].slug] = q BY <3>1 DEF Known, Inv, NamesHeld
    <3>3. projects[q].slug # s BY <2>2, <3>1, <3>2, <1>2, ChosenIsFree
    <3>4. projects[q].slug \in Slug BY <3>2, KnownType DEF Inv, Project
    <3> QED BY <3>1, <3>2, <3>3, <3>4, <1>2 DEF Inv, TypeOK
  <2> QED BY <2>1, <2>2
<1>10. OpsKnown'
  <2>1. \A q \in Pid : Known(q) => Known(q)' BY <1>7 DEF Known
  <2>2. OpsOfKnown BY <1>3, OpsStay
  <2> QED BY <2>1, <2>2 DEF OpsKnown, OpsOfKnown
<1>11. PendingNotDeleted' BY <1>5, <1>7 DEF Inv, PendingNotDeleted, Known
<1>12. LinksKnown' /\ LinksCurrent'
  <2>1. LinksOfOwners BY <1>1, <1>3, <1>4, <1>5, <1>6, LinksStay
  <2> QED BY <2>1, <1>7 DEF LinksOfOwners, LinksKnown, LinksCurrent, Known
<1> QED BY <1>8, <1>9, <1>10, <1>11, <1>12 DEF Inv

-----------------------------------------------------------------------------
(* Ownership and links *)

\* moveToAccount, from Claim or RedeemTransfer, preserves the invariant: the
\* link of the previous owner goes with the ownership.
LEMMA MoveInv ==
  ASSUME Inv, NEW p \in Pid, Live(p), projects[p].pending = None,
         projects[p].owner \in Anonymous, NEW uid \in Account, MoveToAccount(p, uid)
  PROVE  Inv'
<1> DEFINE w == projects[p].owner
           c == projects[p].charged
           r == [projects[p] EXCEPT !.owner = uid, !.rev = @ + 1]
           qo == [count |-> quotas[w].count - 1, charged |-> quotas[w].charged - c]
           qn == [count |-> quotas[uid].count + 1, charged |-> quotas[uid].charged + c]
<1>1. Known(p) /\ projects[p].status = "active" BY DEF Live
<1>2. projects[p] \in Project BY <1>1, KnownType DEF Inv
<1>3. uid \in Owner /\ w \in Owner /\ c \in Nat BY <1>2 DEF Owner, Project
<1>4. /\ quotas[w].count >= 1 /\ c <= quotas[w].charged
      /\ quotas' = [quotas EXCEPT ![w] = qo, ![uid] = qn]
      /\ index' = [index EXCEPT ![w] = @ \ {p}, ![uid] = @ \cup {p}]
      /\ transfers' = [transfers EXCEPT ![p] = None]
      /\ ops' = ops /\ slugs' = slugs /\ digests' = digests /\ removed' = removed
  BY DEF MoveToAccount, MovedQuotas, ClearTransfer
<1>5. projects' = [projects EXCEPT ![p] = r] BY DEF MoveToAccount
<1>6. quotas[w] \in [count : Nat, charged : Nat] /\ quotas[uid] \in [count : Nat, charged : Nat]
  BY <1>3 DEF Inv, TypeOK
<1>7. qo \in [count : Nat, charged : Nat]
  <2>1. quotas[w].count - 1 \in Nat /\ quotas[w].charged - c \in Nat BY <1>3, <1>4, <1>6
  <2> QED BY <2>1
<1>8. qn \in [count : Nat, charged : Nat] BY <1>3, <1>6
<1>9. r \in Project
  <2>1. projects[p].rev + 1 \in Nat BY <1>2 DEF Project
  <2> QED BY <1>2, <1>3, <2>1 DEF Project
<1>10. r.slug = projects[p].slug /\ r.pending = None BY <1>2 DEF Project
<1> HIDE DEF r, qo, qn, w, c
<1>11. KeepsProjects /\ projects' \in [Pid -> Project \cup {None}]
  BY <1>1, <1>5, <1>9, <1>10, OneProject
<1>12. OpsOfKnown BY <1>4, OpsStay
<1>13. LinksOfOwners
  <2>1. transfers'[p] = None /\ \A q \in Pid : q # p => transfers'[q] = transfers[q]
    BY <1>4 DEF Inv, TypeOK
  <2>2. \A q \in Pid : q # p => projects'[q] = projects[q] BY <1>5 DEF Inv, TypeOK
  <2> QED BY <2>1, <2>2 DEF LinksOfOwners, Inv, LinksKnown, LinksCurrent
<1>14. TypeOK'
  <2>1. quotas' \in [Owner -> [count : Nat, charged : Nat]] BY <1>3, <1>4, <1>7, <1>8 DEF Inv, TypeOK
  <2>2. index' \in [Owner -> SUBSET Pid] BY <1>3, <1>4 DEF Inv, TypeOK
  <2>3. transfers' \in [Pid -> [owner : Owner, expired : BOOLEAN] \cup {None}] BY <1>4 DEF Inv, TypeOK
  <2> QED BY <1>4, <1>11, <2>1, <2>2, <2>3 DEF Inv, TypeOK
<1> QED BY <1>4, <1>11, <1>12, <1>13, <1>14, FrameInv

\* Steps that change only transfer links preserve the invariant when each new
\* link names the project's anonymous owner.
LEMMA LinkInv ==
  ASSUME Inv, NEW p \in Pid, Known(p), projects[p].owner \in Anonymous,
         NEW l \in [owner : Owner, expired : BOOLEAN] \cup {None},
         l # None => l.owner = projects[p].owner,
         transfers' = [transfers EXCEPT ![p] = l],
         UNCHANGED <<projects, ops, slugs, digests, quotas, index, removed>>
  PROVE  Inv'
<1>1. transfers' \in [Pid -> [owner : Owner, expired : BOOLEAN] \cup {None}] BY DEF Inv, TypeOK
<1>2. transfers'[p] = l /\ \A q \in Pid : q # p => transfers'[q] = transfers[q] BY DEF Inv, TypeOK
<1>3. TypeOK' BY <1>1 DEF Inv, TypeOK
<1>4. KeepsProjects BY DEF KeepsProjects, Known, Inv, PendingNotDeleted
<1>5. OpsOfKnown BY OpsStay
<1>6. LinksOfOwners BY <1>2 DEF LinksOfOwners, Inv, LinksKnown, LinksCurrent
<1> QED BY <1>3, <1>4, <1>5, <1>6, FrameInv

\* Issuing a transfer link preserves the invariant.
LEMMA CreateTransferInv ==
  ASSUME Inv, NEW a \in Actor, NEW p \in Pid, CreateTransfer(a, p) PROVE Inv'
<1> DEFINE l == [owner |-> projects[p].owner, expired |-> FALSE]
<1>1. Known(p) /\ projects[p].owner \in Anonymous BY DEF CreateTransfer, Editable, Live
<1>2. l \in [owner : Owner, expired : BOOLEAN] /\ l.owner = projects[p].owner BY <1>1 DEF Owner
<1>3. transfers' = [transfers EXCEPT ![p] = l] BY DEF CreateTransfer
<1> HIDE DEF l
<1> QED BY <1>1, <1>2, <1>3, LinkInv DEF CreateTransfer

\* Revoking a transfer link preserves the invariant.
LEMMA RevokeTransferInv ==
  ASSUME Inv, NEW a \in Actor, NEW p \in Pid, RevokeTransfer(a, p) PROVE Inv'
<1>1. Known(p) /\ projects[p].owner \in Anonymous BY DEF RevokeTransfer, Live
<1>2. transfers' = [transfers EXCEPT ![p] = None] BY DEF RevokeTransfer, ClearTransfer
<1> QED BY <1>1, <1>2, LinkInv DEF RevokeTransfer

\* A transfer link that reaches its deadline preserves the invariant.
LEMMA TransferDeadlineInv ==
  ASSUME Inv, NEW p \in Pid, TransferDeadline(p) PROVE Inv'
<1> DEFINE l == [transfers[p] EXCEPT !.expired = TRUE]
<1>1. transfers[p] # None /\ transfers[p] \in [owner : Owner, expired : BOOLEAN]
  BY DEF TransferDeadline, Inv, TypeOK
<1>2. Known(p) /\ projects[p].owner \in Anonymous /\ projects[p].owner = transfers[p].owner
  BY <1>1 DEF Inv, LinksKnown, LinksCurrent
<1>3. l \in [owner : Owner, expired : BOOLEAN] /\ l.owner = projects[p].owner BY <1>1, <1>2
<1>4. transfers' = [transfers EXCEPT ![p] = l] BY DEF TransferDeadline
<1> HIDE DEF l
<1> QED BY <1>2, <1>3, <1>4, LinkInv DEF TransferDeadline

-----------------------------------------------------------------------------
(* Deletion and deadlines *)

\* Deletion, by the owner or by expiry, preserves the invariant.
LEMMA BuryInv ==
  ASSUME Inv, NEW p \in Pid, Known(p), projects[p].pending = None, Bury(p),
         transfers' = transfers \/ ClearTransfer(p)
  PROVE  Inv'
<1> DEFINE w == projects[p].owner
           r == [projects[p] EXCEPT !.status = "deleted", !.rev = @ + 1, !.policy = NextPolicy(p)]
<1>1. projects[p] \in Project BY KnownType DEF Inv
<1>2. w \in Owner BY <1>1 DEF Project
<1>3. /\ quotas' = Uncount(w) /\ quotas[w].count > 0
      /\ index' = [index EXCEPT ![w] = @ \ {p}]
      /\ ops' = ops /\ slugs' = slugs /\ removed' = removed
  BY DEF Bury
<1>4. digests' \in [Digest -> IndexEntry \cup {None}] BY DEF Bury, Inv, TypeOK
<1>5. projects' = [projects EXCEPT ![p] = r] BY DEF Bury
<1>6. r \in Project
  <2>1. projects[p].rev + 1 \in Nat /\ NextPolicy(p) \in Nat BY <1>1 DEF Project, NextPolicy
  <2> QED BY <1>1, <2>1 DEF Project
<1>7. /\ r.slug = projects[p].slug /\ r.owner = projects[p].owner
      /\ r.pending = None /\ r.status = "deleted"
  BY <1>1 DEF Project
<1> HIDE DEF r, w
<1>8. KeepsProjects /\ projects' \in [Pid -> Project \cup {None}] BY <1>5, <1>6, <1>7, OneProject
<1>9. OpsOfKnown BY <1>3, OpsStay
<1>10. \A q \in Pid : transfers'[q] \in {transfers[q], None} BY DEF ClearTransfer, Inv, TypeOK
<1>11. LinksOfOwners BY <1>5, <1>6, <1>7, <1>10, LinksStay
<1>12. TypeOK'
  <2>1. quotas' \in [Owner -> [count : Nat, charged : Nat]] BY <1>2, <1>3, UncountType
  <2>2. index' \in [Owner -> SUBSET Pid] BY <1>2, <1>3 DEF Inv, TypeOK
  <2>3. transfers' \in [Pid -> [owner : Owner, expired : BOOLEAN] \cup {None}]
    BY DEF ClearTransfer, Inv, TypeOK
  <2> QED BY <1>3, <1>4, <1>8, <2>1, <2>2, <2>3 DEF Inv, TypeOK
<1> QED BY <1>3, <1>8, <1>9, <1>11, <1>12, FrameInv

\* An upload that passes its deadline preserves the invariant.
LEMMA OperationDeadlineInv ==
  ASSUME Inv, NEW o \in OpId, OperationDeadline(o) PROVE Inv'
<1>1. OpsOfKnown /\ ops' \in [OpId -> Operation \cup {None}]
  BY OpStateStays DEF OperationDeadline
<1>2. TypeOK' BY <1>1 DEF OperationDeadline, Inv, TypeOK
<1>3. KeepsProjects BY DEF OperationDeadline, KeepsProjects, Known, Inv, PendingNotDeleted
<1>4. LinksOfOwners BY DEF OperationDeadline, LinksOfOwners, Inv, LinksKnown, LinksCurrent
<1>5. slugs' = slugs BY DEF OperationDeadline
<1> QED BY <1>1, <1>2, <1>3, <1>4, <1>5, FrameInv

\* An anonymous project that passes its deadline preserves the invariant.
LEMMA ProjectDeadlineInv ==
  ASSUME Inv, NEW p \in Pid, ProjectDeadline(p) PROVE Inv'
<1> DEFINE r == [projects[p] EXCEPT !.expired = TRUE]
<1>1. Known(p) /\ projects[p] \in Project /\ projects[p].status # "deleted"
  BY KnownType DEF ProjectDeadline, Inv
<1>2. projects' = [projects EXCEPT ![p] = r] BY DEF ProjectDeadline
<1>3. r \in Project BY <1>1 DEF Project
<1>4. /\ r.slug = projects[p].slug /\ r.owner = projects[p].owner
      /\ r.pending = projects[p].pending /\ r.status = projects[p].status
  BY <1>1 DEF Project
<1> HIDE DEF r
<1>5. KeepsProjects /\ projects' \in [Pid -> Project \cup {None}]
  BY <1>1, <1>2, <1>3, <1>4, OneProject
<1>6. ops' = ops /\ slugs' = slugs /\ transfers' = transfers BY DEF ProjectDeadline
<1>7. OpsOfKnown BY <1>6, OpsStay
<1>8. LinksOfOwners BY <1>1, <1>2, <1>3, <1>4, <1>6, LinksStay
<1>9. TypeOK' BY <1>5 DEF ProjectDeadline, Inv, TypeOK
<1> QED BY <1>5, <1>6, <1>7, <1>8, <1>9, FrameInv

-----------------------------------------------------------------------------
(* Every step *)

\* A password prepared for a project's next policy revision is well formed.
LEMMA NextPasswordsType ==
  ASSUME TypeOK, NEW p \in Pid, Known(p), NEW pw \in NextPasswords(p) PROVE pw \in Password
<1>1. projects[p] \in Project BY KnownType
<1>2. NextPolicy(p) \in Nat BY <1>1 DEF NextPolicy, Project
<1> QED BY <1>2 DEF NextPasswords, Password

\* What a signed-in or anonymous actor publishes preserves the invariant.
LEMMA PublishInv == ASSUME Inv, NEW a \in Actor, Publish(a) PROVE Inv'
<1>1. CASE \E k \in Key, d \in Digest, name \in Name : ReserveNew(a, k, name, d)
  BY <1>1, ReserveNewInv
<1>2. CASE \E k \in Key, d \in Digest, p \in Pid : ReserveUpdate(a, k, p, d)
  BY <1>2, ReserveUpdateInv
<1>3. CASE \E o \in OpId : Activate(a, o, None) BY <1>3, ActivateInv
<1>4. CASE \E o \in OpId : Abort(a, o) BY <1>4, ReleaseInv DEF Abort, Pending
<1>5. CASE \E o \in OpId : /\ ops[o] # None
                           /\ \E pw \in NextPasswords(ops[o].project) : Activate(a, o, pw)
  <2>1. PICK o \in OpId : /\ ops[o] # None
                          /\ \E pw \in NextPasswords(ops[o].project) : Activate(a, o, pw)
    BY <1>5
  <2>2. PICK pw \in NextPasswords(ops[o].project) : Activate(a, o, pw) BY <2>1
  <2>3. ops[o].project \in Pid /\ Known(ops[o].project)
    BY <2>1 DEF Inv, OpsKnown, TypeOK, Operation
  <2>4. pw \in Password BY <2>3, NextPasswordsType DEF Inv
  <2> QED BY <2>2, <2>4, ActivateInv
<1> QED BY <1>1, <1>2, <1>3, <1>4, <1>5 DEF Publish

\* What an actor changes in an existing project preserves the invariant.
LEMMA ManageInv == ASSUME Inv, NEW a \in Actor, Manage(a) PROVE Inv'
<1>0. PICK p \in Pid :
        \/ Claim(a, p) \/ CreateTransfer(a, p) \/ RevokeTransfer(a, p) \/ RedeemTransfer(a, p)
        \/ Tombstone(a, p)
        \/ \E name \in Name : Rename(a, p, name)
        \/ \E enabled \in BOOLEAN : SetWatermark(a, p, enabled)
        \/ \E o \in OpId : SelectRevision(a, p, o) \/ RemoveRevision(a, p, o)
        \/ SetPrivacy(a, p, None)
        \/ Known(p) /\ \E pw \in NextPasswords(p) : SetPrivacy(a, p, pw)
  BY DEF Manage
<1>a. a.uid # None => a.uid \in Account BY IdentitiesAssumption
<1>1. CASE Claim(a, p) BY <1>1, <1>a, MoveInv DEF Claim, Editable
<1>2. CASE CreateTransfer(a, p) BY <1>2, CreateTransferInv
<1>3. CASE RevokeTransfer(a, p) BY <1>3, RevokeTransferInv
<1>4. CASE RedeemTransfer(a, p) BY <1>4, <1>a, MoveInv DEF RedeemTransfer
<1>5. CASE Tombstone(a, p) BY <1>5, BuryInv DEF Tombstone
<1>6. CASE \E name \in Name : Rename(a, p, name) BY <1>6, RenameInv
<1>7. CASE \E enabled \in BOOLEAN : SetWatermark(a, p, enabled) BY <1>7, SetWatermarkInv
<1>8. CASE \E o \in OpId : SelectRevision(a, p, o) BY <1>8, SelectRevisionInv
<1>9. CASE \E o \in OpId : RemoveRevision(a, p, o) BY <1>9, RemoveRevisionInv
<1>10. CASE SetPrivacy(a, p, None) BY <1>10, SetPrivacyInv
<1>11. CASE Known(p) /\ \E pw \in NextPasswords(p) : SetPrivacy(a, p, pw)
  <2>1. PICK pw \in NextPasswords(p) : SetPrivacy(a, p, pw) BY <1>11
  <2>2. pw \in Password BY <1>11, NextPasswordsType DEF Inv
  <2> QED BY <2>1, <2>2, SetPrivacyInv
<1> QED BY <1>0, <1>1, <1>2, <1>3, <1>4, <1>5, <1>6, <1>7, <1>8, <1>9, <1>10, <1>11

\* Every step of the repository preserves the invariant.
LEMMA NextInv == Inv /\ [Next]_vars => Inv'
<1> SUFFICES ASSUME Inv, [Next]_vars PROVE Inv'
  OBVIOUS
<1>1. CASE \E o \in OpId : AbortExpired(o) BY <1>1, ReleaseInv DEF AbortExpired
<1>2. CASE \E p \in Pid : ExpireProject(p) BY <1>2, BuryInv DEF ExpireProject
<1>3. CASE \E o \in OpId : OperationDeadline(o) BY <1>3, OperationDeadlineInv
<1>4. CASE \E p \in Pid : ProjectDeadline(p) BY <1>4, ProjectDeadlineInv
<1>5. CASE \E p \in Pid : TransferDeadline(p) BY <1>5, TransferDeadlineInv
<1>6. CASE \E a \in Actor : Publish(a) BY <1>6, PublishInv
<1>7. CASE \E a \in Actor : Manage(a) BY <1>7, ManageInv
<1>8. CASE UNCHANGED vars
  BY <1>8 DEF vars, Inv, TypeOK, OpsKnown, PendingNotDeleted, NamesHeld, LinksKnown, LinksCurrent,
              Known
<1> QED BY <1>1, <1>2, <1>3, <1>4, <1>5, <1>6, <1>7, <1>8 DEF Next, Maintain, Clock

\* Inv holds in every reachable state of the repository.
LEMMA Invariance == Spec => []Inv
<1> QED BY InitInv, NextInv, PTL DEF Spec

\* The records of the repository keep their types in every behaviour.
THEOREM TypesHold == Spec => []TypeOK
<1>1. Inv => TypeOK BY DEF Inv
<1> QED BY <1>1, Invariance, PTL

\* Every reserved or active project is found under its own name, whatever
\* renames, aborts and reuses of deleted projects' names happen around it.
THEOREM NamesStayHeld == Spec => []NamesHeld
<1>1. Inv => NamesHeld BY DEF Inv
<1> QED BY <1>1, Invariance, PTL

\* No transfer link outlives the anonymous ownership it was issued under.
THEOREM LinksStayCurrent == Spec => []LinksCurrent
<1>1. Inv => LinksCurrent BY DEF Inv
<1> QED BY <1>1, Invariance, PTL

-----------------------------------------------------------------------------
(* What each action does to the projects and operations, record by record. *)

\* Only p's record changes, and it exists before and after.
Change(p) ==
    /\ Known(p) /\ projects[p] \in Project /\ projects'[p] \in Project /\ Known(p)'
    /\ \A q \in Pid \ {p} : projects'[q] = projects[q]

\* Only o's record changes: it is no longer pending.
Ended(o) ==
    /\ ops[o] # None /\ ops'[o] # None /\ ~Pending(o)'
    /\ ops'[o].project = ops[o].project /\ ops'[o].digest = ops[o].digest
    /\ \A i \in OpId \ {o} : ops'[i] = ops[i]

\* The condition of AccessChangesBumpPolicy on p.
Bumped(p) ==
    Known(p) =>
        LET old == projects[p]
            new == projects'[p]
        IN  /\ new.policy >= old.policy
            /\ \/ new.password # old.password \/ new.slug # old.slug
               \/ old.status = "active" /\ new.status = "deleted"
               \/ old.digest # None /\ new.digest # old.digest /\ new.pending = old.pending
               => new.policy > old.policy

\* Replacing one project's record.
LEMMA ChangeOne ==
  ASSUME Inv, NEW p \in Pid, Known(p), NEW r \in Project, projects' = [projects EXCEPT ![p] = r]
  PROVE  Change(p) /\ projects'[p] = r
<1>1. projects \in [Pid -> Project \cup {None}] BY DEF Inv, TypeOK
<1>2. projects'[p] = r /\ r # None BY <1>1, NoneAssumption
<1> QED BY <1>1, <1>2, KnownType DEF Change, Known, Inv

\* Ending one operation.
LEMMA EndOne ==
  ASSUME Inv, NEW o \in OpId, ops[o] # None, NEW st \in {"complete", "aborted"},
         ops' = [ops EXCEPT ![o].state = st]
  PROVE  Ended(o)
<1>1. ops[o] \in Operation /\ ops \in [OpId -> Operation \cup {None}] BY DEF Inv, TypeOK
<1> DEFINE r == [ops[o] EXCEPT !.state = st]
<1>2. /\ r \in Operation /\ r.state = st
      /\ r.project = ops[o].project /\ r.digest = ops[o].digest
  BY <1>1 DEF Operation
<1>3. ops' = [ops EXCEPT ![o] = r] OBVIOUS
<1> HIDE DEF r
<1>4. ops'[o] = r /\ r # None BY <1>1, <1>2, <1>3, NoneAssumption
<1>5. \A i \in OpId \ {o} : ops'[i] = ops[i] BY <1>1, <1>3
<1> QED BY <1>2, <1>4, <1>5 DEF Ended, Pending

\* What the activation of o, an upload of d to p, does.
Activated(p, d, o) ==
    /\ p \in Pid /\ d \in Digest /\ Change(p) /\ Ended(o)
    /\ projects[p].pending = o /\ ~projects[p].expired /\ <<p, d>> \notin removed
    /\ digests[d] = [project |-> p, op |-> o]
    /\ projects'[p].digest = d /\ projects'[p].status = "active"
    /\ projects'[p].pending = None /\ ~projects'[p].expired
    /\ projects'[p].owner = projects[p].owner /\ projects'[p].slug = projects[p].slug
    /\ projects'[p].charged = projects[p].charged /\ Bumped(p)
    /\ digests' = Reindexed(p, d) /\ UNCHANGED <<quotas, index, removed>>

\* activate: the project serves the uploaded version; the policy moves with the
\* password.
LEMMA ActivateEffect ==
  ASSUME Inv, NEW a \in Actor, NEW o \in OpId, NEW pw \in Password \cup {None}, Activate(a, o, pw),
         NEW p, p = ops[o].project, NEW d, d = ops[o].digest
  PROVE  Activated(p, d, o)
<1> DEFINE op == ops[o]
           word == IF pw # None THEN pw ELSE projects[p].password
           pol == IF pw # None THEN NextPolicy(p) ELSE projects[p].policy
           r == [projects[p] EXCEPT !.digest = d, !.status = "active", !.pending = None,
                                    !.password = word, !.policy = pol, !.rev = @ + 1]
<1>1. op # None /\ op \in Operation BY DEF Activate, Inv, TypeOK
<1>2. p \in Pid /\ d \in Digest /\ Known(p) BY <1>1 DEF Operation, Inv, OpsKnown
<1>3. projects[p] \in Project BY <1>2, KnownType DEF Inv
<1>4. word \in Password \cup {None} /\ pol \in Nat /\ projects[p].rev + 1 \in Nat
  BY <1>3 DEF Project, NextPolicy
<1>5. projects' = [projects EXCEPT ![p] = r] BY DEF Activate
<1>6. \/ word = projects[p].password /\ pol = projects[p].policy
      \/ pol = projects[p].policy + 1
  BY DEF NextPolicy
<1>7. /\ projects[p].pending = o /\ ~projects[p].expired /\ <<p, d>> \notin removed
      /\ digests[d] = [project |-> p, op |-> o]
      /\ digests' = Reindexed(p, d) /\ UNCHANGED <<quotas, index, removed>>
      /\ ops' = [ops EXCEPT ![o].state = "complete"]
  BY DEF Activate, NotRetired
<1>8. Ended(o) BY <1>1, <1>7, EndOne
<1> HIDE DEF word, pol
<1>9. r \in Project BY <1>2, <1>3, <1>4, ZenonT(30) DEF Project
<1>10. /\ r.digest = d /\ r.status = "active" /\ r.pending = None
       /\ r.expired = projects[p].expired /\ r.owner = projects[p].owner /\ r.slug = projects[p].slug
       /\ r.password = word /\ r.policy = pol /\ r.charged = projects[p].charged
  BY <1>3 DEF Project
<1> HIDE DEF r
<1>11. Change(p) /\ projects'[p] = r BY <1>2, <1>5, <1>9, ChangeOne
<1>12. Bumped(p)
  <2>1. projects'[p].pending # projects[p].pending BY <1>7, <1>10, <1>11, NoneAssumption DEF Pid
  <2>2. projects[p].policy \in Nat BY <1>3 DEF Project
  <2> QED BY <1>6, <1>10, <1>11, <2>1, <2>2 DEF Bumped
<1> QED BY <1>2, <1>7, <1>8, <1>10, <1>11, <1>12 DEF Activated

\* abort: a first upload's project is deleted with its count, a later one stays.
LEMMA ReleaseEffect ==
  ASSUME Inv, NEW o \in OpId, ops[o] # None, Release(o),
         NEW p, p = ops[o].project, NEW d, d = ops[o].digest, NEW w, w = projects[p].owner
  PROVE  /\ p \in Pid /\ d \in Digest /\ Change(p) /\ Ended(o) /\ w \in Owner
         /\ projects[p].pending = o /\ projects'[p].pending = None
         /\ projects'[p].digest = projects[p].digest /\ projects'[p].expired = projects[p].expired
         /\ projects'[p].status = IF ops[o].new THEN "deleted" ELSE projects[p].status
         /\ projects'[p].owner = w /\ projects'[p].slug = projects[p].slug
         /\ projects'[p].charged = projects[p].charged
         /\ projects'[p].password = projects[p].password /\ projects'[p].policy = projects[p].policy
         /\ digests' = [digests EXCEPT ![d] = ReleasedEntry(o)] /\ removed' = removed
         /\ ops[o].new => /\ quotas[w].count > 0 /\ quotas' = Uncount(w)
                          /\ index' = [index EXCEPT ![w] = @ \ {p}]
         /\ ~ops[o].new => quotas' = quotas /\ index' = index
<1> DEFINE op == ops[o]
           st == IF op.new THEN "deleted" ELSE projects[p].status
           r == [projects[p] EXCEPT !.pending = None, !.status = st]
<1>1. op \in Operation BY DEF Inv, TypeOK
<1>2. p \in Pid /\ d \in Digest /\ op.new \in BOOLEAN /\ Known(p)
  BY <1>1 DEF Operation, Inv, OpsKnown
<1>3. projects[p] \in Project BY <1>2, KnownType DEF Inv
<1>4. w \in Owner /\ st \in {"reserved", "active", "deleted"} BY <1>3 DEF Project
<1>5. /\ projects[p].pending = o /\ (op.new => quotas[w].count > 0)
      /\ digests' = [digests EXCEPT ![d] = ReleasedEntry(o)] /\ removed' = removed
      /\ ops' = [ops EXCEPT ![o].state = "aborted"]
      /\ quotas' = IF op.new THEN Uncount(w) ELSE quotas
      /\ index' = [index EXCEPT ![w] = IF op.new THEN @ \ {p} ELSE @]
  BY DEF Release
<1>6. projects' = [projects EXCEPT ![p] = r] BY DEF Release
<1>7. Ended(o) BY <1>5, EndOne
<1>8. ~op.new => index' = index BY <1>4, <1>5 DEF Inv, TypeOK
<1> HIDE DEF st
<1>9. r \in Project BY <1>3, <1>4 DEF Project
<1>10. /\ r.pending = None /\ r.status = st /\ r.digest = projects[p].digest
       /\ r.expired = projects[p].expired /\ r.owner = w /\ r.slug = projects[p].slug
       /\ r.password = projects[p].password /\ r.policy = projects[p].policy
       /\ r.charged = projects[p].charged
  BY <1>3 DEF Project
<1> HIDE DEF r
<1>11. Change(p) /\ projects'[p] = r BY <1>2, <1>6, <1>9, ChangeOne
<1> QED BY <1>2, <1>4, <1>5, <1>7, <1>8, <1>10, <1>11 DEF st

\* The step keeps the version served, the upload awaited, the charge and the
\* owner's count.
Quiet(p) ==
    /\ Change(p)
    /\ projects'[p].digest = projects[p].digest /\ projects'[p].pending = projects[p].pending
    /\ projects'[p].status = projects[p].status /\ (projects[p].expired => projects'[p].expired)
    /\ projects'[p].charged = projects[p].charged

\* The records a management operation leaves alone.
Aside == UNCHANGED <<ops, digests, quotas, index>>

\* A step that replaces one project's record by r without a new version.
LEMMA QuietOne ==
  ASSUME Inv, NEW p \in Pid, Known(p), NEW r \in Project, projects' = [projects EXCEPT ![p] = r],
         r.digest = projects[p].digest, r.pending = projects[p].pending,
         r.status = projects[p].status, projects[p].expired => r.expired,
         r.charged = projects[p].charged,
         \/ r.policy = projects[p].policy + 1
         \/ /\ r.policy = projects[p].policy /\ r.password = projects[p].password
            /\ r.slug = projects[p].slug
  PROVE  Quiet(p) /\ Bumped(p) /\ projects'[p] = r
<1>1. Change(p) /\ projects'[p] = r BY ChangeOne
<1>2. ~(projects[p].status = "active" /\ projects[p].status = "deleted") OBVIOUS
<1>3. Quiet(p) BY <1>1 DEF Quiet
<1>4. projects[p].policy \in Nat BY <1>1 DEF Change, Project
<1>5. Bumped(p) BY <1>1, <1>2, <1>4 DEF Bumped
<1> QED BY <1>1, <1>3, <1>5

\* SetPrivacy changes the password with the policy.
LEMMA SetPrivacyEffect ==
  ASSUME Inv, NEW a \in Actor, NEW p \in Pid, NEW pw \in Password \cup {None}, SetPrivacy(a, p, pw)
  PROVE  Quiet(p) /\ Bumped(p) /\ projects'[p].owner = projects[p].owner /\ Aside /\ removed' = removed
<1> DEFINE r == [projects[p] EXCEPT !.password = pw, !.rev = @ + 1, !.policy = NextPolicy(p)]
<1>1. Known(p) /\ projects[p] \in Project BY KnownType DEF SetPrivacy, Editable, Live, Inv
<1>2. projects[p].rev + 1 \in Nat /\ NextPolicy(p) \in Nat /\ NextPolicy(p) = projects[p].policy + 1
  BY <1>1 DEF Project, NextPolicy
<1>3. r \in Project BY <1>1, <1>2 DEF Project
<1>4. projects' = [projects EXCEPT ![p] = r] BY DEF SetPrivacy
<1>5. /\ r.owner = projects[p].owner /\ r.digest = projects[p].digest
      /\ r.pending = projects[p].pending /\ r.status = projects[p].status
      /\ r.expired = projects[p].expired /\ r.policy = NextPolicy(p)
      /\ r.charged = projects[p].charged
  BY <1>1 DEF Project
<1> HIDE DEF r
<1>6. Quiet(p) /\ Bumped(p) /\ projects'[p] = r BY <1>1, <1>2, <1>3, <1>4, <1>5, QuietOne
<1> QED BY <1>5, <1>6 DEF SetPrivacy, Aside

\* SetWatermark changes neither access nor versions.
LEMMA SetWatermarkEffect ==
  ASSUME Inv, NEW a \in Actor, NEW p \in Pid, NEW w \in BOOLEAN, SetWatermark(a, p, w)
  PROVE  Quiet(p) /\ Bumped(p) /\ projects'[p].owner = projects[p].owner /\ Aside /\ removed' = removed
<1> DEFINE r == [projects[p] EXCEPT !.watermark = w, !.rev = @ + 1]
<1>1. Known(p) /\ projects[p] \in Project BY KnownType DEF SetWatermark, Editable, Live, Inv
<1>2. projects[p].rev + 1 \in Nat BY <1>1 DEF Project
<1>3. r \in Project BY <1>1, <1>2 DEF Project
<1>4. projects' = [projects EXCEPT ![p] = r] BY DEF SetWatermark
<1>5. /\ r.owner = projects[p].owner /\ r.digest = projects[p].digest
      /\ r.pending = projects[p].pending /\ r.status = projects[p].status
      /\ r.expired = projects[p].expired /\ r.policy = projects[p].policy
      /\ r.password = projects[p].password /\ r.slug = projects[p].slug
      /\ r.charged = projects[p].charged
  BY <1>1 DEF Project
<1> HIDE DEF r
<1>6. Quiet(p) /\ Bumped(p) /\ projects'[p] = r BY <1>1, <1>3, <1>4, <1>5, QuietOne
<1> QED BY <1>5, <1>6 DEF SetWatermark, Aside

\* RemoveRevision removes a version that is not the served one.
LEMMA RemoveRevisionEffect ==
  ASSUME Inv, NEW a \in Actor, NEW p \in Pid, NEW o \in OpId, RemoveRevision(a, p, o)
  PROVE  /\ Quiet(p) /\ Bumped(p) /\ projects'[p].owner = projects[p].owner /\ Aside
         /\ projects[p].pending = None /\ ops[o].digest # projects[p].digest
         /\ removed' = removed \cup {<<p, ops[o].digest>>}
<1> DEFINE r == [projects[p] EXCEPT !.rev = @ + 1]
<1>1. Known(p) /\ projects[p] \in Project BY KnownType DEF RemoveRevision, Editable, Live, Inv
<1>2. projects[p].rev + 1 \in Nat BY <1>1 DEF Project
<1>3. r \in Project BY <1>1, <1>2 DEF Project
<1>4. projects' = [projects EXCEPT ![p] = r] BY DEF RemoveRevision
<1>5. /\ r.owner = projects[p].owner /\ r.digest = projects[p].digest
      /\ r.pending = projects[p].pending /\ r.status = projects[p].status
      /\ r.expired = projects[p].expired /\ r.policy = projects[p].policy
      /\ r.password = projects[p].password /\ r.slug = projects[p].slug
      /\ r.charged = projects[p].charged
  BY <1>1 DEF Project
<1> HIDE DEF r
<1>6. Quiet(p) /\ Bumped(p) /\ projects'[p] = r BY <1>1, <1>3, <1>4, <1>5, QuietOne
<1> QED BY <1>5, <1>6 DEF RemoveRevision, Editable, Aside

\* Rename changes the name with the policy.
LEMMA RenameEffect ==
  ASSUME Inv, NEW a \in Actor, NEW p \in Pid, NEW name \in Name, Rename(a, p, name)
  PROVE  Quiet(p) /\ Bumped(p) /\ projects'[p].owner = projects[p].owner /\ Aside /\ removed' = removed
<1> DEFINE Aliases(s) == IF slugs[s] # p THEN projects[p].aliases + 1 ELSE projects[p].aliases
           R(s) == [projects[p] EXCEPT !.slug = s, !.suffix = s[2], !.rev = @ + 1,
                                       !.policy = NextPolicy(p), !.aliases = Aliases(s)]
<1>1. Known(p) /\ projects[p] \in Project BY KnownType DEF Rename, Editable, Live, Inv
<1>2. PICK s \in Slug : projects' = [projects EXCEPT
             ![p].slug = s, ![p].suffix = s[2], ![p].rev = @ + 1, ![p].policy = NextPolicy(p),
             ![p].aliases = IF slugs[s] # p THEN @ + 1 ELSE @]
  BY DEF Rename
<1> DEFINE r == R(s)
<1>3. /\ projects[p].rev + 1 \in Nat /\ NextPolicy(p) \in Nat /\ Aliases(s) \in Nat
      /\ NextPolicy(p) = projects[p].policy + 1 /\ s[2] \in Digest \cup {None}
  BY <1>1 DEF Project, NextPolicy, Slug
<1>4. projects' = [projects EXCEPT ![p] = r] BY <1>2
<1> HIDE DEF Aliases
<1>5. r \in Project BY <1>1, <1>3 DEF Project
<1>6. /\ r.owner = projects[p].owner /\ r.digest = projects[p].digest
      /\ r.pending = projects[p].pending /\ r.status = projects[p].status
      /\ r.expired = projects[p].expired /\ r.policy = NextPolicy(p)
      /\ r.charged = projects[p].charged
  BY <1>1 DEF Project
<1> HIDE DEF r, R
<1>7. Quiet(p) /\ Bumped(p) /\ projects'[p] = r BY <1>1, <1>3, <1>4, <1>5, <1>6, QuietOne
<1> QED BY <1>6, <1>7 DEF Rename, Aside

\* A deadline of an anonymous project.
LEMMA ProjectDeadlineEffect ==
  ASSUME Inv, NEW p \in Pid, ProjectDeadline(p)
  PROVE  Quiet(p) /\ Bumped(p) /\ projects'[p].owner = projects[p].owner /\ Aside /\ removed' = removed
<1> DEFINE r == [projects[p] EXCEPT !.expired = TRUE]
<1>1. Known(p) /\ projects[p] \in Project BY KnownType DEF ProjectDeadline, Inv
<1>2. r \in Project BY <1>1 DEF Project
<1>3. projects' = [projects EXCEPT ![p] = r] BY DEF ProjectDeadline
<1>4. /\ r.owner = projects[p].owner /\ r.digest = projects[p].digest
      /\ r.pending = projects[p].pending /\ r.status = projects[p].status
      /\ r.expired /\ r.policy = projects[p].policy
      /\ r.password = projects[p].password /\ r.slug = projects[p].slug
      /\ r.charged = projects[p].charged
  BY <1>1 DEF Project
<1> HIDE DEF r
<1>5. Quiet(p) /\ Bumped(p) /\ projects'[p] = r BY <1>1, <1>2, <1>3, <1>4, QuietOne
<1> QED BY <1>4, <1>5 DEF ProjectDeadline, Aside

\* moveToAccount: the owner changes, and the count and the index entry with it.
LEMMA MoveEffect ==
  ASSUME Inv, NEW p \in Pid, Live(p), projects[p].owner \in Anonymous,
         NEW uid \in Account, MoveToAccount(p, uid)
  PROVE  LET w == projects[p].owner IN
         /\ Quiet(p) /\ Bumped(p) /\ projects'[p].owner = uid
         /\ UNCHANGED <<ops, digests, removed>>
         /\ w \in Owner /\ uid \in Owner /\ w # uid
         /\ quotas[w].count >= 1 /\ quotas[uid].count < Limit["firebase"]
         /\ quotas'[w].count = quotas[w].count - 1 /\ quotas'[uid].count = quotas[uid].count + 1
         /\ quotas'[w].charged = quotas[w].charged - projects[p].charged
         /\ quotas'[uid].charged = quotas[uid].charged + projects[p].charged
         /\ quotas'[uid].charged <= ByteLimit["firebase"]
         /\ \A o \in Owner \ {w, uid} : quotas'[o] = quotas[o] /\ index'[o] = index[o]
         /\ index'[w] = index[w] \ {p} /\ index'[uid] = index[uid] \cup {p}
<1> DEFINE w == projects[p].owner
           c == projects[p].charged
           r == [projects[p] EXCEPT !.owner = uid, !.rev = @ + 1]
           qo == [count |-> quotas[w].count - 1, charged |-> quotas[w].charged - c]
           qn == [count |-> quotas[uid].count + 1, charged |-> quotas[uid].charged + c]
<1>1. Known(p) BY DEF Live
<1>2. projects[p] \in Project BY <1>1, KnownType DEF Inv
<1>3. uid \in Owner /\ w \in Owner /\ w # uid BY <1>2, IdentitiesAssumption DEF Owner, Project
<1>4. /\ quotas[w].count >= 1 /\ quotas[uid].count < Limit["firebase"]
      /\ FitsBytes(quotas[uid].charged, c, ByteLimit["firebase"])
      /\ quotas' = [quotas EXCEPT ![w] = qo, ![uid] = qn]
      /\ index' = [index EXCEPT ![w] = @ \ {p}, ![uid] = @ \cup {p}]
      /\ UNCHANGED <<ops, digests, removed>>
  BY DEF MoveToAccount, MovedQuotas
<1>5. projects' = [projects EXCEPT ![p] = r] BY DEF MoveToAccount
<1>6. r \in Project
  <2>1. projects[p].rev + 1 \in Nat BY <1>2 DEF Project
  <2> QED BY <1>2, <1>3, <2>1 DEF Project
<1>7. /\ r.owner = uid /\ r.digest = projects[p].digest
      /\ r.pending = projects[p].pending /\ r.status = projects[p].status
      /\ r.expired = projects[p].expired /\ r.policy = projects[p].policy
      /\ r.password = projects[p].password /\ r.slug = projects[p].slug
      /\ r.charged = projects[p].charged
  BY <1>2 DEF Project
<1>8. /\ qo.count = quotas[w].count - 1 /\ qn.count = quotas[uid].count + 1
      /\ qo.charged = quotas[w].charged - c /\ qn.charged = quotas[uid].charged + c
  OBVIOUS
<1>a. quotas[uid].charged + c <= ByteLimit["firebase"]
  <2>1. /\ quotas[uid].charged \in Nat /\ c \in Nat /\ ByteLimit["firebase"] \in Nat
    BY <1>2, <1>3, SizesAssumption DEF Inv, TypeOK, Project
  <2> QED BY <1>4, <2>1 DEF FitsBytes
<1> HIDE DEF r, qo, qn, w, c
<1>9. Quiet(p) /\ Bumped(p) /\ projects'[p] = r BY <1>1, <1>5, <1>6, <1>7, QuietOne
<1>10. /\ quotas'[w] = qo /\ quotas'[uid] = qn /\ \A o \in Owner \ {w, uid} : quotas'[o] = quotas[o]
  BY <1>3, <1>4 DEF Inv, TypeOK
<1>11. /\ index'[w] = index[w] \ {p} /\ index'[uid] = index[uid] \cup {p}
       /\ \A o \in Owner \ {w, uid} : index'[o] = index[o]
  BY <1>3, <1>4 DEF Inv, TypeOK
<1> QED BY <1>3, <1>4, <1>7, <1>8, <1>9, <1>10, <1>11, <1>a DEF w, c

\* SelectRevision: an earlier version is served, under the next policy.
LEMMA SelectRevisionEffect ==
  ASSUME Inv, NEW a \in Actor, NEW p \in Pid, NEW o \in OpId, SelectRevision(a, p, o),
         NEW d, d = ops[o].digest
  PROVE  /\ d \in Digest /\ Change(p) /\ Bumped(p) /\ projects[p].pending = None
         /\ <<p, d>> \notin removed /\ (digests[d] # None => digests[d].project = p)
         /\ projects'[p].digest = d /\ projects'[p].pending = None
         /\ projects[p].status = "active" /\ projects'[p].status = "active"
         /\ projects'[p].owner = projects[p].owner /\ projects'[p].charged = projects[p].charged
         /\ digests' = Reindexed(p, d) /\ UNCHANGED <<ops, quotas, index, removed>>
<1> DEFINE r == [projects[p] EXCEPT !.digest = d, !.rev = @ + 1, !.policy = NextPolicy(p)]
<1>1. /\ Known(p) /\ projects[p] \in Project /\ projects[p].pending = None
      /\ projects[p].status = "active"
  BY KnownType DEF SelectRevision, Editable, Live, Inv
<1>2. d \in Digest BY DEF SelectRevision, AvailableRevision, Inv, TypeOK, Operation
<1>3. /\ <<p, d>> \notin removed /\ (digests[d] # None => digests[d].project = p)
      /\ digests' = Reindexed(p, d) /\ UNCHANGED <<ops, quotas, index, removed>>
  BY DEF SelectRevision, AvailableRevision, NotRetired
<1>4. projects' = [projects EXCEPT ![p] = r] BY DEF SelectRevision
<1>5. projects[p].rev + 1 \in Nat /\ projects[p].policy \in Nat /\ NextPolicy(p) \in Nat
      /\ NextPolicy(p) = projects[p].policy + 1
  BY <1>1 DEF Project, NextPolicy
<1>6. r \in Project BY <1>1, <1>2, <1>5 DEF Project
<1>7. /\ r.owner = projects[p].owner /\ r.digest = d /\ r.pending = None /\ r.status = "active"
      /\ r.policy = NextPolicy(p) /\ r.charged = projects[p].charged
  BY <1>1 DEF Project
<1> HIDE DEF r
<1>8. Change(p) /\ projects'[p] = r BY <1>1, <1>4, <1>6, ChangeOne
<1>9. Bumped(p)
  <2>1. projects'[p].policy > projects[p].policy /\ projects'[p].policy >= projects[p].policy
    BY <1>5, <1>7, <1>8
  <2> QED BY <2>1 DEF Bumped
<1> QED BY <1>1, <1>2, <1>3, <1>7, <1>8, <1>9

\* The digest index when the project that served d is deleted.
Unindexed(p) ==
    [d \in Digest |-> IF d = projects[p].digest /\ digests[d] # None /\ digests[d].project = p
                      THEN None ELSE digests[d]]

\* Deletion: the count goes, and the policy moves.
LEMMA BuryEffect ==
  ASSUME Inv, NEW p \in Pid, Known(p), projects[p].pending = None, Bury(p)
  PROVE  LET w == projects[p].owner IN
         /\ Change(p) /\ Bumped(p) /\ w \in Owner /\ quotas[w].count > 0
         /\ projects'[p].pending = None /\ projects'[p].status = "deleted" /\ projects'[p].owner = w
         /\ projects'[p].charged = projects[p].charged
         /\ quotas' = Uncount(w) /\ index' = [index EXCEPT ![w] = @ \ {p}]
         /\ digests' = Unindexed(p) /\ UNCHANGED <<ops, removed>>
<1> DEFINE w == projects[p].owner
           r == [projects[p] EXCEPT !.status = "deleted", !.rev = @ + 1, !.policy = NextPolicy(p)]
<1>1. projects[p] \in Project BY KnownType DEF Inv
<1>2. w \in Owner BY <1>1 DEF Project
<1>3. /\ quotas' = Uncount(w) /\ quotas[w].count > 0
      /\ index' = [index EXCEPT ![w] = @ \ {p}]
      /\ UNCHANGED <<ops, removed>> /\ digests' = Unindexed(p)
  BY DEF Bury, Unindexed
<1>4. projects' = [projects EXCEPT ![p] = r] BY DEF Bury
<1>5. projects[p].rev + 1 \in Nat /\ projects[p].policy \in Nat /\ NextPolicy(p) \in Nat
      /\ NextPolicy(p) = projects[p].policy + 1
  BY <1>1 DEF Project, NextPolicy
<1>6. r \in Project BY <1>1, <1>5 DEF Project
<1>7. /\ r.owner = w /\ r.pending = None /\ r.status = "deleted" /\ r.policy = NextPolicy(p)
      /\ r.charged = projects[p].charged
  BY <1>1 DEF Project
<1> HIDE DEF r
<1>8. Change(p) /\ projects'[p] = r BY <1>4, <1>6, ChangeOne
<1>9. Bumped(p)
  <2>1. projects'[p].policy > projects[p].policy /\ projects'[p].policy >= projects[p].policy
    BY <1>5, <1>7, <1>8
  <2> QED BY <2>1 DEF Bumped
<1> QED BY <1>2, <1>3, <1>7, <1>8, <1>9

\* What the first reservation o of a project by w with content d does.
ReservedNew(o, w, d) ==
    /\ o \in OpId /\ o \in Pid /\ w \in Owner /\ ~Known(o) /\ ops[o] = None
    /\ DigestFree(d, o) /\ <<o, d>> \notin removed
    /\ Known(o)' /\ \A q \in Pid \ {o} : projects'[q] = projects[q]
    /\ projects'[o].owner = w /\ projects'[o].status = "reserved"
    /\ projects'[o].pending = o /\ ~projects'[o].expired
    /\ ops'[o] # None /\ ops'[o].project = o /\ ops'[o].digest = d /\ ops'[o].new = TRUE
    /\ Pending(o)' /\ \A i \in OpId \ {o} : ops'[i] = ops[i]
    /\ digests'[d] = [project |-> o, op |-> o] /\ \A e \in Digest \ {d} : digests'[e] = digests[e]
    /\ quotas[w].count < Limit[Kind(w)] /\ quotas'[w].count = quotas[w].count + 1
    /\ d \in Digest /\ projects'[o].charged = VersionCharge(d)
    /\ quotas'[w].charged = quotas[w].charged + VersionCharge(d)
    /\ quotas'[w].charged <= ByteLimit[Kind(w)]
    /\ \A v \in Owner \ {w} : quotas'[v] = quotas[v] /\ index'[v] = index[v]
    /\ index'[w] = index[w] \cup {o} /\ removed' = removed

\* What FitsBytes admits stays within the limit.
LEMMA FitsIs ==
  ASSUME Inv, NEW w \in Owner, NEW d \in Digest,
         FitsBytes(quotas[w].charged, VersionCharge(d), ByteLimit[Kind(w)])
  PROVE  quotas[w].charged + VersionCharge(d) <= ByteLimit[Kind(w)]
<1>1. quotas[w].charged \in Nat /\ VersionCharge(d) \in Nat /\ ByteLimit[Kind(w)] \in Nat
  BY ChargeType, SizesAssumption DEF Inv, TypeOK, Kind
<1> QED BY <1>1 DEF FitsBytes

\* Reserve for a new project.
LEMMA ReserveNewEffect ==
  ASSUME Inv, NEW a \in Actor, NEW k \in Key, NEW name \in Name, NEW d \in Digest,
         ReserveNew(a, k, name, d), NEW o, o = <<OwnerOf(a), k>>, NEW w, w = OwnerOf(a)
  PROVE  ReservedNew(o, w, d)
<1> DEFINE op == Operation0(a, o, d, 0, TRUE)
           q == [count |-> quotas[w].count + 1, charged |-> quotas[w].charged + VersionCharge(d)]
           New(s) == [owner |-> w, slug |-> s, suffix |-> s[2], aliases |-> 0, digest |-> None,
                      charged |-> VersionCharge(d), rev |-> 0, policy |-> 1, password |-> None,
                      watermark |-> TRUE, status |-> "reserved", pending |-> o, expired |-> FALSE]
<1>1. o \in OpId /\ o \in Pid /\ w \in Owner BY OwnerOfType DEF OpId, Pid
<1>2. PICK s \in Slug : projects' = [projects EXCEPT ![o] = New(s)] BY DEF ReserveNew
<1>3. /\ projects[o] = None /\ ops[o] = None /\ DigestFree(d, o) /\ <<o, d>> \notin removed
      /\ quotas[w].count < Limit[Kind(w)]
      /\ FitsBytes(quotas[w].charged, VersionCharge(d), ByteLimit[Kind(w)])
      /\ ops' = [ops EXCEPT ![o] = op]
      /\ digests' = [digests EXCEPT ![d] = [project |-> o, op |-> o]]
      /\ quotas' = [quotas EXCEPT ![w] = q]
      /\ index' = [index EXCEPT ![w] = @ \cup {o}]
      /\ removed' = removed
  BY DEF ReserveNew, NotRetired
<1>4. New(s) \in Project
  <2>1. s[2] \in Digest \cup {None} BY DEF Slug
  <2> QED BY <1>1, <2>1, ChargeType DEF Project
<1>5. op \in Operation /\ op.project = o /\ op.digest = d /\ op.new = TRUE /\ op.state = "pending"
  BY <1>1 DEF Operation0, Operation
<1>6. /\ New(s).owner = w /\ New(s).status = "reserved" /\ New(s).pending = o /\ ~New(s).expired
      /\ New(s).charged = VersionCharge(d)
      /\ q.count = quotas[w].count + 1 /\ q.charged = quotas[w].charged + VersionCharge(d)
  OBVIOUS
<1> HIDE DEF New, op, q
<1>7. projects'[o] = New(s) /\ New(s) # None /\ \A p \in Pid \ {o} : projects'[p] = projects[p]
  BY <1>1, <1>2, <1>4, NoneAssumption DEF Inv, TypeOK
<1>8. ops'[o] = op /\ op # None /\ \A i \in OpId \ {o} : ops'[i] = ops[i]
  BY <1>1, <1>3, <1>5, NoneAssumption DEF Inv, TypeOK
<1>9. quotas'[w] = q /\ \A v \in Owner \ {w} : quotas'[v] = quotas[v] BY <1>1, <1>3 DEF Inv, TypeOK
<1>10. index'[w] = index[w] \cup {o} /\ \A v \in Owner \ {w} : index'[v] = index[v]
  BY <1>1, <1>3 DEF Inv, TypeOK
<1>11. Pending(o)' BY <1>5, <1>8 DEF Pending
<1>12. digests'[d] = [project |-> o, op |-> o] /\ \A e \in Digest \ {d} : digests'[e] = digests[e]
  BY <1>3 DEF Inv, TypeOK
<1>13. quotas[w].charged + VersionCharge(d) <= ByteLimit[Kind(w)] BY <1>1, <1>3, FitsIs
<1> QED BY <1>1, <1>3, <1>5, <1>6, <1>7, <1>8, <1>9, <1>10, <1>11, <1>12, <1>13
        DEF Known, ReservedNew

\* What the reservation o of version d of p does.
ReservedNext(o, p, d) ==
    /\ o \in OpId /\ ops[o] = None /\ Change(p) /\ Bumped(p)
    /\ Live(p) /\ projects[p].pending = None
    /\ DigestFree(d, p) /\ <<p, d>> \notin removed
    /\ projects'[p].owner = projects[p].owner /\ projects'[p].status = "active"
    /\ projects'[p].digest = projects[p].digest
    /\ projects'[p].pending = o /\ ~projects'[p].expired
    /\ ops'[o] # None /\ ops'[o].project = p /\ ops'[o].digest = d /\ ~ops'[o].new
    /\ Pending(o)' /\ \A i \in OpId \ {o} : ops'[i] = ops[i]
    /\ digests' = [digests EXCEPT ![d] = [project |-> p, op |-> o]]
    /\ \A v \in Owner : quotas'[v].count = quotas[v].count
    /\ index' = index /\ removed' = removed
    /\ d \in Digest /\ projects'[p].charged = projects[p].charged + VersionCharge(d)
    /\ \A v \in Owner : IF v = projects[p].owner
                        THEN /\ quotas'[v].charged = quotas[v].charged + VersionCharge(d)
                             /\ quotas'[v].charged <= ByteLimit[Kind(v)]
                        ELSE quotas'[v].charged = quotas[v].charged

\* Reserve for a new version of a live project.
LEMMA ReserveUpdateEffect ==
  ASSUME Inv, NEW a \in Actor, NEW k \in Key, NEW p \in Pid, NEW d \in Digest,
         ReserveUpdate(a, k, p, d), NEW o, o = <<OwnerOf(a), k>>
  PROVE  ReservedNext(o, p, d)
<1> DEFINE c == VersionCharge(d)
           w == projects[p].owner
           r == [projects[p] EXCEPT !.charged = @ + c, !.pending = o]
           op == Operation0(a, p, d, projects[p].rev, FALSE)
           q == [quotas[w] EXCEPT !.charged = @ + c]
<1>1. o \in OpId /\ c \in Nat BY OwnerOfType, ChargeType DEF OpId
<1>2. Live(p) /\ Known(p) /\ projects[p] \in Project /\ projects[p].pending = None
  BY KnownType DEF ReserveUpdate, Editable, Live, Inv
<1>3. /\ ops[o] = None /\ DigestFree(d, p) /\ <<p, d>> \notin removed
      /\ projects' = [projects EXCEPT ![p] = r]
      /\ ops' = [ops EXCEPT ![o] = op]
      /\ digests' = [digests EXCEPT ![d] = [project |-> p, op |-> o]]
      /\ quotas' = [quotas EXCEPT ![w] = q]
      /\ index' = index /\ removed' = removed
      /\ FitsBytes(quotas[w].charged, c, ByteLimit[Kind(w)])
  BY DEF ReserveUpdate, NotRetired
<1>4. op \in Operation BY <1>2, OwnerOfType DEF Operation0, Operation, Project
<1>5. op.project = p /\ op.digest = d /\ ~op.new /\ op.state = "pending" BY DEF Operation0
<1>6. w \in Owner BY <1>2 DEF Project
<1>7. q.count = quotas[w].count /\ q.charged = quotas[w].charged + c
  <2>1. quotas[w] \in [count : Nat, charged : Nat] BY <1>6 DEF Inv, TypeOK
  <2> QED BY <2>1
<1>a. quotas[w].charged + c <= ByteLimit[Kind(w)] BY <1>3, <1>6, FitsIs
<1> HIDE DEF c, op, q
<1>8. r \in Project
  <2>1. projects[p].charged + c \in Nat BY <1>1, <1>2 DEF Project
  <2> QED BY <1>1, <1>2, <2>1 DEF Project
<1>9. /\ r.slug = projects[p].slug /\ r.owner = projects[p].owner /\ r.status = projects[p].status
      /\ r.pending = o /\ r.expired = projects[p].expired /\ r.digest = projects[p].digest
      /\ r.policy = projects[p].policy /\ r.password = projects[p].password
      /\ r.charged = projects[p].charged + c
  BY <1>2 DEF Project
<1> HIDE DEF r, w
<1>10. Change(p) /\ projects'[p] = r BY <1>2, <1>3, <1>8, ChangeOne
<1>11. Bumped(p)
  <2>1. projects[p].policy \in Nat BY <1>2 DEF Project
  <2>2. projects'[p].status # "deleted" BY <1>2, <1>9, <1>10 DEF Live
  <2> QED BY <2>1, <2>2, <1>9, <1>10 DEF Bumped
<1>12. ops'[o] = op /\ op # None /\ \A i \in OpId \ {o} : ops'[i] = ops[i]
  BY <1>1, <1>3, <1>4, NoneAssumption DEF Inv, TypeOK
<1>13. \A v \in Owner : quotas'[v].count = quotas[v].count BY <1>3, <1>6, <1>7 DEF Inv, TypeOK
<1>14. Pending(o)' BY <1>5, <1>12 DEF Pending
<1>15. \A v \in Owner : IF v = w THEN /\ quotas'[v].charged = quotas[v].charged + c
                                      /\ quotas'[v].charged <= ByteLimit[Kind(v)]
                         ELSE quotas'[v].charged = quotas[v].charged
  BY <1>3, <1>6, <1>7, <1>a DEF Inv, TypeOK
<1> QED BY <1>1, <1>2, <1>3, <1>5, <1>9, <1>10, <1>11, <1>12, <1>13, <1>14, <1>15
        DEF Live, ReservedNext, c, w

-----------------------------------------------------------------------------
(* Uploads and contents: the second invariant. *)

\* A pending operation is the one its project waits for; a first upload's
\* project is reserved and a later one's active; and until the project expires
\* the digest index holds the operation's claim.
UploadOK(o) ==
    Pending(o) =>
        LET p == ops[o].project IN
        /\ projects[p].pending = o
        /\ projects[p].status = IF ops[o].new THEN "reserved" ELSE "active"
        /\ ~projects[p].expired => digests[ops[o].digest] = [project |-> p, op |-> o]

\* A project waits only for a pending operation of its own; what an active one
\* serves, or is about to, was not removed; and the index names the server of a
\* live version.
ProjectOK(p) ==
    Known(p) =>
        /\ projects[p].pending # None => /\ Pending(projects[p].pending)
                                         /\ ops[projects[p].pending].project = p
        /\ projects[p].status = "active" =>
            /\ projects[p].digest # None /\ <<p, projects[p].digest>> \notin removed
            /\ projects[p].pending # None => <<p, ops[projects[p].pending].digest>> \notin removed
        /\ Live(p) => digests[projects[p].digest] # None /\ digests[projects[p].digest].project = p

Settled == (\A o \in OpId : UploadOK(o)) /\ (\A p \in Pid : ProjectOK(p))

\* A pending operation's own records exist.
LEMMA PendingTypes ==
  ASSUME Inv, NEW i \in OpId, Pending(i)
  PROVE  /\ i # None /\ ops[i].project \in Pid /\ ops[i].digest \in Digest /\ Known(ops[i].project)
         /\ projects[ops[i].project] \in Project
<1>1. ops[i] # None /\ ops[i] \in Operation BY DEF Pending, Inv, TypeOK
<1>2. ops[i].project \in Pid /\ ops[i].digest \in Digest BY <1>1 DEF Operation
<1>3. Known(ops[i].project) BY <1>1 DEF Inv, OpsKnown
<1> QED BY <1>2, <1>3, KnownType, NoneAssumption DEF Inv, Pid

\* What a known project names is well formed.
LEMMA ProjectTypes ==
  ASSUME Inv, NEW p \in Pid, Known(p)
  PROVE  /\ projects[p].pending \in OpId \cup {None} /\ projects[p].digest \in Digest \cup {None}
         /\ projects[p].status \in {"reserved", "active", "deleted"}
  BY KnownType DEF Inv, Project

\* A pending operation nothing happens to: neither to it, nor to its project,
\* nor to the index entry it holds.
LEMMA OtherUpload ==
  ASSUME Settled, NEW i \in OpId, ops'[i] = ops[i],
         Pending(i) => projects'[ops[i].project] = projects[ops[i].project],
         (/\ Pending(i) /\ ~projects[ops[i].project].expired
          /\ digests[ops[i].digest] = [project |-> ops[i].project, op |-> i])
            => digests'[ops[i].digest] = digests[ops[i].digest]
  PROVE  UploadOK(i)'
<1>1. UploadOK(i) BY DEF Settled
<1>2. Pending(i)' <=> Pending(i) BY DEF Pending
<1> QED BY <1>1, <1>2 DEF UploadOK

\* A project nothing happens to: neither to it, nor to the operation it waits
\* for, nor to the index entry of its version.
LEMMA OtherProject ==
  ASSUME Settled, NEW q \in Pid, projects'[q] = projects[q], NEW p \in Pid, NEW X \in SUBSET Digest,
         p # q, removed' \subseteq removed \cup {<<p, x>> : x \in X},
         Known(q) /\ projects[q].pending # None => ops'[projects[q].pending] = ops[projects[q].pending],
         Live(q) /\ digests[projects[q].digest] # None /\ digests[projects[q].digest].project = q
            => digests'[projects[q].digest] = digests[projects[q].digest]
  PROVE  ProjectOK(q)'
<1>1. ProjectOK(q) BY DEF Settled
<1>2. (Known(q)' <=> Known(q)) /\ (Live(q)' <=> Live(q)) BY DEF Known, Live
<1>3. \A x : <<q, x>> \notin removed => <<q, x>> \notin removed' OBVIOUS
<1>4. Known(q) /\ projects[q].pending # None =>
        (Pending(projects[q].pending)' <=> Pending(projects[q].pending))
  BY DEF Pending
<1> QED BY <1>1, <1>2, <1>3, <1>4 DEF ProjectOK

\* The first reservation of a project disturbs no other upload or version.
LEMMA ReserveNewSettled ==
  ASSUME Inv, Settled, NEW a \in Actor, NEW k \in Key, NEW name \in Name, NEW d \in Digest,
         ReserveNew(a, k, name, d)
  PROVE  Settled'
<1>0. PICK o, w : o = <<OwnerOf(a), k>> /\ w = OwnerOf(a) OBVIOUS
<1>a. ReservedNew(o, w, d) BY <1>0, ReserveNewEffect
<1>1. /\ o \in OpId /\ o \in Pid /\ ~Known(o) /\ ops[o] = None
      /\ DigestFree(d, o) /\ Known(o)' /\ \A q \in Pid \ {o} : projects'[q] = projects[q]
      /\ projects'[o].status = "reserved" /\ projects'[o].pending = o
      /\ ops'[o].project = o /\ ops'[o].digest = d /\ ops'[o].new = TRUE
      /\ Pending(o)' /\ \A i \in OpId \ {o} : ops'[i] = ops[i]
      /\ removed' = removed
  BY <1>a DEF ReservedNew
<1>2. digests'[d] = [project |-> o, op |-> o] /\ \A e \in Digest \ {d} : digests'[e] = digests[e]
  BY <1>a DEF ReservedNew
<1>3. ASSUME NEW i \in OpId PROVE UploadOK(i)'
  <2>1. CASE i = o BY <2>1, <1>1, <1>2 DEF UploadOK
  <2>2. CASE i # o
    <3> DEFINE q == ops[i].project
    <3>1. ops'[i] = ops[i] BY <2>2, <1>1
    <3>2. Pending(i) => q \in Pid /\ q # o /\ ops[i].digest \in Digest BY <1>1, PendingTypes
    <3>3. Pending(i) => projects'[q] = projects[q] BY <1>1, <3>2
    <3>4. ASSUME Pending(i), ~projects[q].expired, digests[ops[i].digest] = [project |-> q, op |-> i]
          PROVE  digests'[ops[i].digest] = digests[ops[i].digest]
      <4>1. projects[q].pending = i /\ projects[q].status # "deleted" BY <3>4 DEF Settled, UploadOK
      <4>2. ops[i].digest # d
        <5> SUFFICES ASSUME ops[i].digest = d PROVE FALSE OBVIOUS
        <5>1. digests[d].project = q /\ digests[d].op = i BY <3>4
        <5>2. digests[d] # None BY <3>2, <3>4, NoneAssumption DEF IndexEntry
        <5> QED BY <1>1, <3>2, <3>4, <4>1, <5>1, <5>2 DEF DigestFree
      <4> QED BY <1>2, <3>2, <3>4, <4>2
    <3> QED BY <3>1, <3>3, <3>4, OtherUpload
  <2> QED BY <2>1, <2>2
<1>4. ASSUME NEW q \in Pid PROVE ProjectOK(q)'
  <2>1. CASE q = o
    <3>1. projects'[q].status # "active" BY <2>1, <1>1
    <3> QED BY <2>1, <3>1, <1>1 DEF ProjectOK, Live
  <2>2. CASE q # o
    <3>1. projects'[q] = projects[q] BY <2>2, <1>1
    <3>2. Known(q) /\ projects[q].pending # None => ops'[projects[q].pending] = ops[projects[q].pending]
      <4> SUFFICES ASSUME Known(q), projects[q].pending # None PROVE projects[q].pending \in OpId \ {o}
        BY <1>1
      <4>1. Pending(projects[q].pending) BY DEF Settled, ProjectOK
      <4> QED BY <4>1, <1>1, ProjectTypes DEF Pending
    <3>3. ASSUME Live(q), digests[projects[q].digest] # None, digests[projects[q].digest].project = q
          PROVE  digests'[projects[q].digest] = digests[projects[q].digest]
      <4>1. projects[q].digest \in Digest
        BY <3>3, ProjectTypes DEF Live, Settled, ProjectOK
      <4>2. projects[q].digest # d BY <1>1, <2>2, <3>3 DEF DigestFree
      <4> QED BY <1>2, <4>1, <4>2
    <3> QED BY <1>1, <2>2, <3>1, <3>2, <3>3, OtherProject
  <2> QED BY <2>1, <2>2
<1> QED BY <1>3, <1>4 DEF Settled

\* Nor does the reservation of a new version.
LEMMA ReserveUpdateSettled ==
  ASSUME Inv, Settled, NEW a \in Actor, NEW k \in Key, NEW p \in Pid, NEW d \in Digest,
         ReserveUpdate(a, k, p, d)
  PROVE  Settled'
<1>0. PICK o : o = <<OwnerOf(a), k>> OBVIOUS
<1>a. ReservedNext(o, p, d) BY <1>0, ReserveUpdateEffect
<1>1. /\ o \in OpId /\ ops[o] = None /\ Change(p) /\ Live(p) /\ projects[p].pending = None
      /\ DigestFree(d, p) /\ <<p, d>> \notin removed
      /\ projects'[p].status = "active" /\ projects'[p].digest = projects[p].digest
      /\ projects'[p].pending = o /\ ~projects'[p].expired
      /\ ops'[o].project = p /\ ops'[o].digest = d /\ ~ops'[o].new
      /\ Pending(o)' /\ \A i \in OpId \ {o} : ops'[i] = ops[i]
      /\ digests' = [digests EXCEPT ![d] = [project |-> p, op |-> o]] /\ removed' = removed
  BY <1>a DEF ReservedNext
<1>2. digests'[d] = [project |-> p, op |-> o] /\ \A e \in Digest \ {d} : digests'[e] = digests[e]
  BY <1>1 DEF Inv, TypeOK
<1>3. \A q \in Pid \ {p} : projects'[q] = projects[q] BY <1>1 DEF Change
<1>4. ASSUME NEW i \in OpId PROVE UploadOK(i)'
  <2>1. CASE i = o BY <2>1, <1>1, <1>2 DEF UploadOK
  <2>2. CASE i # o
    <3> DEFINE q == ops[i].project
    <3>1. ops'[i] = ops[i] BY <2>2, <1>1
    <3>2. ASSUME Pending(i) PROVE q \in Pid /\ q # p /\ ops[i].digest \in Digest
      <4>1. projects[q].pending = i BY <3>2 DEF Settled, UploadOK
      <4> QED BY <3>2, <4>1, <1>1, PendingTypes
    <3>3. Pending(i) => projects'[q] = projects[q] BY <1>3, <3>2
    <3>4. ASSUME Pending(i), ~projects[q].expired, digests[ops[i].digest] = [project |-> q, op |-> i]
          PROVE  digests'[ops[i].digest] = digests[ops[i].digest]
      <4>1. projects[q].pending = i /\ projects[q].status # "deleted" BY <3>4 DEF Settled, UploadOK
      <4>2. ops[i].digest # d
        <5> SUFFICES ASSUME ops[i].digest = d PROVE FALSE OBVIOUS
        <5>1. digests[d].project = q /\ digests[d].op = i BY <3>4
        <5>2. digests[d] # None BY <3>2, <3>4, NoneAssumption DEF IndexEntry
        <5> QED BY <1>1, <3>2, <3>4, <4>1, <5>1, <5>2 DEF DigestFree
      <4> QED BY <1>2, <3>2, <3>4, <4>2
    <3> QED BY <3>1, <3>3, <3>4, OtherUpload
  <2> QED BY <2>1, <2>2
<1>5. ASSUME NEW q \in Pid PROVE ProjectOK(q)'
  <2>1. CASE q = p
    <3>1. /\ projects[p].status = "active" /\ projects[p].digest # None
          /\ <<p, projects[p].digest>> \notin removed
          /\ digests[projects[p].digest] # None /\ digests[projects[p].digest].project = p
      BY <1>1 DEF Live, Settled, ProjectOK
    <3>2. projects[p].digest \in Digest BY <3>1, <1>1, ProjectTypes DEF Live
    <3>3. digests'[projects[p].digest] # None /\ digests'[projects[p].digest].project = p
      <4>1. [project |-> p, op |-> o] \in IndexEntry BY <1>1 DEF IndexEntry
      <4> QED BY <4>1, <1>2, <3>1, <3>2, NoneAssumption
    <3> QED BY <2>1, <3>1, <3>3, <1>1 DEF ProjectOK
  <2>2. CASE q # p
    <3>1. projects'[q] = projects[q] BY <2>2, <1>3
    <3>2. Known(q) /\ projects[q].pending # None => ops'[projects[q].pending] = ops[projects[q].pending]
      <4> SUFFICES ASSUME Known(q), projects[q].pending # None PROVE projects[q].pending \in OpId \ {o}
        BY <1>1
      <4>1. Pending(projects[q].pending) BY DEF Settled, ProjectOK
      <4> QED BY <4>1, <1>1, ProjectTypes DEF Pending
    <3>3. ASSUME Live(q), digests[projects[q].digest] # None, digests[projects[q].digest].project = q
          PROVE  digests'[projects[q].digest] = digests[projects[q].digest]
      <4>1. projects[q].digest \in Digest BY <3>3, ProjectTypes DEF Live, Settled, ProjectOK
      <4>2. projects[q].digest # d BY <1>1, <2>2, <3>3 DEF DigestFree
      <4> QED BY <1>2, <4>1, <4>2
    <3> QED BY <1>1, <2>2, <3>1, <3>2, <3>3, OtherProject
  <2> QED BY <2>1, <2>2
<1> QED BY <1>4, <1>5 DEF Settled

\* When p starts to serve d, other projects keep their index entries.
LEMMA ReindexedKeeps ==
  ASSUME NEW p \in Pid, NEW d \in Digest, digests' = Reindexed(p, d)
  PROVE  /\ digests'[d] = [project |-> p, op |-> None]
         /\ \A e \in Digest : e # d /\ digests[e] # None /\ digests[e].project # p
                                => digests'[e] = digests[e]
  BY DEF Reindexed

\* p serves d from now on and waits for nothing; at most the operation it waited
\* for ended.
LEMMA ServeSettled ==
  ASSUME Inv, Settled, NEW p \in Pid, NEW d \in Digest, Change(p), digests' = Reindexed(p, d),
         digests[d] # None => digests[d].project = p, <<p, d>> \notin removed,
         projects'[p].digest = d, projects'[p].status = "active", projects'[p].pending = None,
         removed' = removed, NEW o, o = projects[p].pending, o # None => ~Pending(o)',
         \A i \in OpId : i # o => ops'[i] = ops[i]
  PROVE  Settled'
<1>1. /\ digests'[d] = [project |-> p, op |-> None]
      /\ \A e \in Digest : e # d /\ digests[e] # None /\ digests[e].project # p
                             => digests'[e] = digests[e]
  BY ReindexedKeeps
<1>2. \A q \in Pid \ {p} : projects'[q] = projects[q] BY DEF Change
<1>3. ASSUME NEW i \in OpId PROVE UploadOK(i)'
  <2>1. CASE ~Pending(i)' BY <2>1 DEF UploadOK
  <2>2. CASE Pending(i)'
    <3> DEFINE q == ops[i].project
    <3>1. i # o /\ ops'[i] = ops[i] /\ Pending(i) BY <2>2, NoneAssumption DEF Pending, Pid
    <3>2. q \in Pid /\ ops[i].digest \in Digest /\ i # None BY <3>1, PendingTypes
    <3>3. q # p
      <4>1. projects[q].pending = i BY <3>1 DEF Settled, UploadOK
      <4> QED BY <4>1, <3>1
    <3>4. projects'[q] = projects[q] BY <1>2, <3>2, <3>3
    <3>5. ASSUME digests[ops[i].digest] = [project |-> q, op |-> i]
          PROVE  digests'[ops[i].digest] = digests[ops[i].digest]
      <4>1. digests[ops[i].digest] # None /\ digests[ops[i].digest].project = q
        BY <3>2, <3>5, NoneAssumption DEF IndexEntry
      <4>2. ops[i].digest # d BY <4>1, <3>3
      <4> QED BY <1>1, <3>2, <3>3, <4>1, <4>2
    <3> QED BY <3>1, <3>4, <3>5, OtherUpload
  <2> QED BY <2>1, <2>2
<1>4. ASSUME NEW q \in Pid PROVE ProjectOK(q)'
  <2>1. CASE q = p
    <3>1. [project |-> p, op |-> None] \in IndexEntry BY DEF IndexEntry
    <3>2. digests'[d] # None /\ digests'[d].project = p BY <3>1, <1>1, NoneAssumption
    <3>3. d # None BY IdentitiesAssumption
    <3> QED BY <2>1, <3>2, <3>3 DEF ProjectOK
  <2>2. CASE q # p
    <3>1. projects'[q] = projects[q] BY <2>2, <1>2
    <3>2. Known(q) /\ projects[q].pending # None => ops'[projects[q].pending] = ops[projects[q].pending]
      <4> SUFFICES ASSUME Known(q), projects[q].pending # None
                   PROVE  ops'[projects[q].pending] = ops[projects[q].pending]
        OBVIOUS
      <4>1. projects[q].pending \in OpId /\ ops[projects[q].pending].project = q
        BY ProjectTypes DEF Settled, ProjectOK
      <4>2. projects[p].pending # projects[q].pending
        BY <2>2, <4>1 DEF Settled, ProjectOK, Change
      <4> QED BY <4>1, <4>2
    <3>3. ASSUME Live(q), digests[projects[q].digest] # None, digests[projects[q].digest].project = q
          PROVE  digests'[projects[q].digest] = digests[projects[q].digest]
      <4>1. projects[q].digest \in Digest BY <3>3, ProjectTypes DEF Live, Settled, ProjectOK
      <4> QED BY <1>1, <2>2, <3>3, <4>1
    <3> QED BY <2>2, <3>1, <3>2, <3>3, OtherProject
  <2> QED BY <2>1, <2>2
<1> QED BY <1>3, <1>4 DEF Settled

\* Activation.
LEMMA ActivateSettled ==
  ASSUME Inv, Settled, NEW a \in Actor, NEW o \in OpId, NEW pw \in Password \cup {None},
         Activate(a, o, pw)
  PROVE  Settled'
<1>0. PICK p, d : p = ops[o].project /\ d = ops[o].digest OBVIOUS
<1>a. Activated(p, d, o) BY <1>0, ActivateEffect
<1>1. /\ p \in Pid /\ d \in Digest /\ Change(p) /\ Ended(o)
      /\ projects[p].pending = o /\ <<p, d>> \notin removed
      /\ digests[d] = [project |-> p, op |-> o]
      /\ projects'[p].digest = d /\ projects'[p].status = "active"
      /\ projects'[p].pending = None
      /\ digests' = Reindexed(p, d) /\ removed' = removed
  BY <1>a DEF Activated
<1>2. digests[d].project = p BY <1>1
<1>3. ~Pending(o)' /\ \A i \in OpId \ {o} : ops'[i] = ops[i] BY <1>1 DEF Ended
<1> QED BY <1>1, <1>2, <1>3, ServeSettled

\* A rollback.
LEMMA SelectRevisionSettled ==
  ASSUME Inv, Settled, NEW a \in Actor, NEW p \in Pid, NEW o \in OpId, SelectRevision(a, p, o)
  PROVE  Settled'
<1>0. PICK d : d = ops[o].digest OBVIOUS
<1>1. /\ d \in Digest /\ Change(p) /\ projects[p].pending = None
      /\ <<p, d>> \notin removed /\ (digests[d] # None => digests[d].project = p)
      /\ projects'[p].digest = d /\ projects'[p].pending = None
      /\ projects'[p].status = "active"
      /\ digests' = Reindexed(p, d) /\ UNCHANGED <<ops, removed>>
  BY <1>0, SelectRevisionEffect
<1> QED BY <1>1, ServeSettled

\* abort: the released entry was the operation's own, or stays what it was.
LEMMA ReleaseSettled ==
  ASSUME Inv, Settled, NEW o \in OpId, ops[o] # None, Pending(o), Release(o)
  PROVE  Settled'
<1>0. PICK p, d, w : p = ops[o].project /\ d = ops[o].digest /\ w = projects[p].owner OBVIOUS
<1>1. /\ p \in Pid /\ d \in Digest /\ Change(p) /\ Ended(o)
      /\ projects[p].pending = o /\ projects'[p].pending = None
      /\ projects'[p].digest = projects[p].digest /\ projects'[p].expired = projects[p].expired
      /\ projects'[p].status = IF ops[o].new THEN "deleted" ELSE projects[p].status
      /\ digests' = [digests EXCEPT ![d] = ReleasedEntry(o)] /\ removed' = removed
  BY <1>0, ReleaseEffect
<1>2. digests'[d] = ReleasedEntry(o) /\ \A e \in Digest \ {d} : digests'[e] = digests[e]
  BY <1>1 DEF Inv, TypeOK
<1>3. \/ digests'[d] = digests[d]
      \/ /\ digests[d] = [project |-> p, op |-> o]
         /\ projects[p].digest = d => digests'[d] = [project |-> p, op |-> None]
  BY <1>0, <1>2 DEF ReleasedEntry
<1>4. \A q \in Pid \ {p} : projects'[q] = projects[q] BY <1>1 DEF Change
<1>5. ~Pending(o)' /\ \A i \in OpId \ {o} : ops'[i] = ops[i] BY <1>1 DEF Ended
<1>6. ASSUME NEW i \in OpId PROVE UploadOK(i)'
  <2>1. CASE ~Pending(i)' BY <2>1 DEF UploadOK
  <2>2. CASE Pending(i)'
    <3> DEFINE q == ops[i].project
    <3>1. i # o /\ ops'[i] = ops[i] /\ Pending(i) BY <2>2, <1>5 DEF Pending
    <3>2. q \in Pid /\ ops[i].digest \in Digest BY <3>1, PendingTypes
    <3>3. q # p
      <4>1. projects[q].pending = i BY <3>1 DEF Settled, UploadOK
      <4> QED BY <4>1, <3>1, <1>1
    <3>4. projects'[q] = projects[q] BY <1>4, <3>2, <3>3
    <3>5. ASSUME digests[ops[i].digest] = [project |-> q, op |-> i]
          PROVE  digests'[ops[i].digest] = digests[ops[i].digest]
      <4>1. [project |-> q, op |-> i] # [project |-> p, op |-> o] BY <3>1
      <4> QED BY <1>2, <1>3, <3>2, <3>5, <4>1
    <3> QED BY <3>1, <3>4, <3>5, OtherUpload
  <2> QED BY <2>1, <2>2
<1>7. ASSUME NEW q \in Pid PROVE ProjectOK(q)'
  <2>1. CASE q = p
    <3>1. ASSUME projects'[p].status = "active"
          PROVE  projects[p].status = "active" /\ Known(p)
      BY <3>1, <1>1 DEF Change
    <3>2. ASSUME projects'[p].status = "active"
          PROVE  /\ projects[p].digest # None /\ <<p, projects[p].digest>> \notin removed
                 /\ projects[p].digest \in Digest
      BY <3>1, <3>2, <1>1, ProjectTypes DEF Settled, ProjectOK
    <3>3. ASSUME Live(p)'
          PROVE  digests'[projects[p].digest] # None /\ digests'[projects[p].digest].project = p
      <4>1. projects'[p].status = "active" /\ ~projects'[p].expired BY <3>3 DEF Live
      <4>2. Live(p) BY <4>1, <3>1, <1>1 DEF Live
      <4>3. digests[projects[p].digest] # None /\ digests[projects[p].digest].project = p
        BY <4>2, <1>1 DEF Live, Settled, ProjectOK
      <4>4. [project |-> p, op |-> None] \in IndexEntry BY <1>1 DEF IndexEntry
      <4>5. CASE projects[p].digest = d BY <4>3, <4>4, <4>5, <1>3, NoneAssumption
      <4>6. CASE projects[p].digest # d BY <4>1, <4>3, <4>6, <3>2, <1>2
      <4> QED BY <4>5, <4>6
    <3> QED BY <2>1, <3>2, <3>3, <1>1 DEF ProjectOK
  <2>2. CASE q # p
    <3>1. projects'[q] = projects[q] BY <2>2, <1>4
    <3>2. Known(q) /\ projects[q].pending # None => ops'[projects[q].pending] = ops[projects[q].pending]
      <4> SUFFICES ASSUME Known(q), projects[q].pending # None
                   PROVE  ops'[projects[q].pending] = ops[projects[q].pending]
        OBVIOUS
      <4>1. projects[q].pending \in OpId /\ ops[projects[q].pending].project = q
        BY ProjectTypes DEF Settled, ProjectOK
      <4>2. projects[q].pending # o BY <1>0, <2>2, <4>1
      <4> QED BY <4>1, <4>2, <1>5
    <3>3. ASSUME Live(q), digests[projects[q].digest] # None, digests[projects[q].digest].project = q
          PROVE  digests'[projects[q].digest] = digests[projects[q].digest]
      <4>1. projects[q].digest \in Digest BY <3>3, ProjectTypes DEF Live, Settled, ProjectOK
      <4>2. projects[q].digest = d => digests[d] # [project |-> p, op |-> o] BY <2>2, <3>3
      <4> QED BY <1>2, <1>3, <4>1, <4>2
    <3> QED BY <1>1, <2>2, <3>1, <3>2, <3>3, OtherProject
  <2> QED BY <2>1, <2>2
<1> QED BY <1>6, <1>7 DEF Settled

\* Deletion of a project that waits for nothing.
LEMMA BurySettled ==
  ASSUME Inv, Settled, NEW p \in Pid, Known(p), projects[p].pending = None, Bury(p)
  PROVE  Settled'
<1>1. /\ Change(p) /\ projects'[p].pending = None /\ projects'[p].status = "deleted"
      /\ digests' = Unindexed(p) /\ UNCHANGED <<ops, removed>>
  BY BuryEffect
<1>2. \A e \in Digest : digests[e] # None /\ digests[e].project # p => digests'[e] = digests[e]
  BY <1>1 DEF Unindexed
<1>3. \A q \in Pid \ {p} : projects'[q] = projects[q] BY <1>1 DEF Change
<1>4. ASSUME NEW i \in OpId PROVE UploadOK(i)'
  <2> DEFINE q == ops[i].project
  <2>1. CASE ~Pending(i) BY <2>1, <1>1 DEF UploadOK, Pending
  <2>2. CASE Pending(i)
    <3>1. q \in Pid /\ ops[i].digest \in Digest /\ i # None BY <2>2, PendingTypes
    <3>2. q # p
      <4>1. projects[q].pending = i BY <2>2 DEF Settled, UploadOK
      <4> QED BY <4>1, <3>1
    <3>3. ASSUME digests[ops[i].digest] = [project |-> q, op |-> i]
          PROVE  digests'[ops[i].digest] = digests[ops[i].digest]
      <4>1. digests[ops[i].digest] # None /\ digests[ops[i].digest].project = q
        BY <3>1, <3>3, NoneAssumption DEF IndexEntry
      <4> QED BY <1>2, <3>1, <3>2, <4>1
    <3> QED BY <1>1, <1>3, <3>1, <3>2, <3>3, OtherUpload
  <2> QED BY <2>1, <2>2
<1>5. ASSUME NEW q \in Pid PROVE ProjectOK(q)'
  <2>1. CASE q = p BY <2>1, <1>1 DEF ProjectOK, Live
  <2>2. CASE q # p
    <3>1. ASSUME Live(q), digests[projects[q].digest] # None, digests[projects[q].digest].project = q
          PROVE  digests'[projects[q].digest] = digests[projects[q].digest]
      <4>1. projects[q].digest \in Digest BY <3>1, ProjectTypes DEF Live, Settled, ProjectOK
      <4> QED BY <1>2, <2>2, <3>1, <4>1
    <3> QED BY <1>1, <1>3, <2>2, <3>1, OtherProject
  <2> QED BY <2>1, <2>2
<1> QED BY <1>4, <1>5 DEF Settled

\* Changes of one project that keep its versions and its upload; an old version
\* that is not served may be removed while nothing is uploaded.
LEMMA QuietSettled ==
  ASSUME Inv, Settled, NEW p \in Pid, Quiet(p), UNCHANGED <<ops, digests>>,
         \/ removed' = removed
         \/ \E d \in Digest : /\ d # projects[p].digest /\ projects[p].pending = None
                              /\ removed' = removed \cup {<<p, d>>}
  PROVE  Settled'
<1>1. /\ Change(p) /\ projects'[p].digest = projects[p].digest
      /\ projects'[p].pending = projects[p].pending /\ projects'[p].status = projects[p].status
      /\ projects[p].expired => projects'[p].expired
  BY DEF Quiet
<1>2. Known(p) /\ Known(p)' /\ \A q \in Pid \ {p} : projects'[q] = projects[q] BY <1>1 DEF Change
<1>3. ASSUME NEW i \in OpId PROVE UploadOK(i)'
  <2>1. UploadOK(i) /\ (Pending(i)' <=> Pending(i)) BY DEF Settled, Pending
  <2>2. CASE ~Pending(i) BY <2>1, <2>2 DEF UploadOK
  <2>3. CASE Pending(i)
    <3>1. ops[i].project \in Pid BY <2>3, PendingTypes
    <3> QED BY <1>1, <1>2, <2>1, <2>3, <3>1 DEF UploadOK
  <2> QED BY <2>2, <2>3
<1>4. ASSUME NEW q \in Pid PROVE ProjectOK(q)'
  <2>1. CASE q = p
    <3>1. ProjectOK(p) BY DEF Settled
    <3>2. Live(p)' => Live(p) BY <1>1, <1>2 DEF Live
    <3>3. /\ <<p, projects[p].digest>> \notin removed => <<p, projects[p].digest>> \notin removed'
          /\ projects[p].pending # None => removed' = removed
      OBVIOUS
    <3>4. \A i : Pending(i)' <=> Pending(i) BY DEF Pending
    <3> QED BY <2>1, <1>1, <1>2, <3>1, <3>2, <3>3, <3>4 DEF ProjectOK
  <2>2. CASE q # p
    <3>1. removed' \subseteq removed \cup {<<p, x>> : x \in Digest} OBVIOUS
    <3> QED BY <1>2, <2>2, <3>1, OtherProject
  <2> QED BY <2>1, <2>2
<1> QED BY <1>3, <1>4 DEF Settled

\* Steps that leave projects, versions and the state of every upload alone.
LEMMA StillSettled ==
  ASSUME Settled, UNCHANGED <<projects, digests, removed>>,
         \A i \in OpId : \/ ops'[i] = ops[i]
                         \/ /\ Pending(i) /\ Pending(i)' /\ ops'[i].project = ops[i].project
                            /\ ops'[i].digest = ops[i].digest /\ ops'[i].new = ops[i].new,
         \A p \in Pid : Known(p) => projects[p].pending \in OpId \cup {None}
  PROVE  Settled'
<1>1. \A i \in OpId : Pending(i)' <=> Pending(i) BY DEF Pending
<1>2. \A i \in OpId : Pending(i) => /\ ops'[i].project = ops[i].project /\ ops'[i].digest = ops[i].digest
                                    /\ ops'[i].new = ops[i].new
  BY DEF Pending
<1>3. ASSUME NEW i \in OpId PROVE UploadOK(i)'
  BY <1>1, <1>2 DEF Settled, UploadOK
<1>4. ASSUME NEW q \in Pid PROVE ProjectOK(q)'
  <2>1. ProjectOK(q) /\ (Known(q)' <=> Known(q)) /\ (Live(q)' <=> Live(q)) BY DEF Settled, Known, Live
  <2>2. PICK i : i = projects[q].pending OBVIOUS
  <2>3. CASE Known(q) /\ i # None
    <3>1. i \in OpId /\ Pending(i) /\ Pending(i)' /\ ops'[i].project = q /\ ops'[i].digest = ops[i].digest
      BY <1>1, <1>2, <2>1, <2>2, <2>3 DEF ProjectOK
    <3>2. Pending(projects[q].pending)' BY <2>2, <3>1
    <3> QED BY <2>1, <2>2, <2>3, <3>1, <3>2 DEF ProjectOK
  <2>4. CASE ~(Known(q) /\ i # None) BY <2>1, <2>2, <2>4 DEF ProjectOK
  <2> QED BY <2>3, <2>4
<1> QED BY <1>3, <1>4 DEF Settled

\* An upload that passes its deadline is still pending.
LEMMA OperationDeadlineSettled ==
  ASSUME Inv, Settled, NEW o \in OpId, OperationDeadline(o) PROVE Settled'
<1> DEFINE r == [ops[o] EXCEPT !.state = "overdue"]
<1>1. ops[o] # None /\ ops[o] \in Operation /\ ops[o].state = "pending"
  BY DEF OperationDeadline, Inv, TypeOK
<1>2. /\ r \in Operation /\ r.state = "overdue" /\ r.project = ops[o].project
      /\ r.digest = ops[o].digest /\ r.new = ops[o].new
  BY <1>1 DEF Operation
<1>3. ops' = [ops EXCEPT ![o] = r] /\ UNCHANGED <<projects, digests, removed>> BY DEF OperationDeadline
<1> HIDE DEF r
<1>4. ops'[o] = r /\ r # None /\ \A i \in OpId \ {o} : ops'[i] = ops[i]
  BY <1>2, <1>3, NoneAssumption DEF Inv, TypeOK
<1>5. Pending(o) /\ Pending(o)' BY <1>1, <1>2, <1>4 DEF Pending
<1>6. \A p \in Pid : Known(p) => projects[p].pending \in OpId \cup {None} BY ProjectTypes
<1> QED BY <1>2, <1>3, <1>4, <1>5, <1>6, StillSettled

\* Every step.
LEMMA NextSettled == ASSUME Inv, Settled, [Next]_vars PROVE Settled'
<1>p. \A p \in Pid : Known(p) => projects[p].pending \in OpId \cup {None} BY ProjectTypes
<1>1. CASE \E o \in OpId : AbortExpired(o)
  <2>1. PICK o \in OpId : AbortExpired(o) BY <1>1
  <2>2. ops[o] # None /\ Pending(o) /\ Release(o) BY <2>1 DEF AbortExpired, Pending
  <2> QED BY <2>2, ReleaseSettled
<1>2. CASE \E p \in Pid : ExpireProject(p) BY <1>2, BurySettled DEF ExpireProject
<1>3. CASE \E o \in OpId : OperationDeadline(o) BY <1>3, OperationDeadlineSettled
<1>4. CASE \E p \in Pid : ProjectDeadline(p) BY <1>4, ProjectDeadlineEffect, QuietSettled DEF Aside
<1>5. CASE \E p \in Pid : TransferDeadline(p)
  <2>1. UNCHANGED <<projects, ops, digests, removed>> BY <1>5 DEF TransferDeadline
  <2> QED BY <1>p, <2>1, StillSettled
<1>6. CASE \E a \in Actor : Publish(a)
  <2>0. PICK a \in Actor : Publish(a) BY <1>6
  <2>1. CASE \E k \in Key, d \in Digest, name \in Name : ReserveNew(a, k, name, d)
    BY <2>1, ReserveNewSettled
  <2>2. CASE \E k \in Key, d \in Digest, p \in Pid : ReserveUpdate(a, k, p, d)
    BY <2>2, ReserveUpdateSettled
  <2>3. CASE \E o \in OpId : Activate(a, o, None) BY <2>3, ActivateSettled
  <2>4. CASE \E o \in OpId : Abort(a, o)
    <3>1. PICK o \in OpId : Abort(a, o) BY <2>4
    <3>2. ops[o] # None /\ Pending(o) /\ Release(o) BY <3>1 DEF Abort, Pending
    <3> QED BY <3>2, ReleaseSettled
  <2>5. CASE \E o \in OpId : /\ ops[o] # None
                             /\ \E pw \in NextPasswords(ops[o].project) : Activate(a, o, pw)
    <3>1. PICK o \in OpId : /\ ops[o] # None
                            /\ \E pw \in NextPasswords(ops[o].project) : Activate(a, o, pw)
      BY <2>5
    <3>2. PICK pw \in NextPasswords(ops[o].project) : Activate(a, o, pw) BY <3>1
    <3>3. ops[o].project \in Pid /\ Known(ops[o].project)
      BY <3>1 DEF Inv, OpsKnown, TypeOK, Operation
    <3>4. pw \in Password BY <3>3, NextPasswordsType DEF Inv
    <3> QED BY <3>2, <3>4, ActivateSettled
  <2> QED BY <2>0, <2>1, <2>2, <2>3, <2>4, <2>5 DEF Publish
<1>7. CASE \E a \in Actor : Manage(a)
  <2>0. PICK a \in Actor : Manage(a) BY <1>7
  <2>1. PICK p \in Pid :
          \/ Claim(a, p) \/ CreateTransfer(a, p) \/ RevokeTransfer(a, p) \/ RedeemTransfer(a, p)
          \/ Tombstone(a, p)
          \/ \E name \in Name : Rename(a, p, name)
          \/ \E enabled \in BOOLEAN : SetWatermark(a, p, enabled)
          \/ \E o \in OpId : SelectRevision(a, p, o) \/ RemoveRevision(a, p, o)
          \/ SetPrivacy(a, p, None)
          \/ Known(p) /\ \E pw \in NextPasswords(p) : SetPrivacy(a, p, pw)
    BY <2>0 DEF Manage
  <2>a. a.uid # None => a.uid \in Account BY IdentitiesAssumption
  <2>2. CASE Claim(a, p) \/ RedeemTransfer(a, p)
    <3>1. /\ a.uid # None /\ Live(p) /\ projects[p].owner \in Anonymous /\ MoveToAccount(p, a.uid)
      BY <2>2 DEF Claim, RedeemTransfer, Editable
    <3>2. Quiet(p) /\ UNCHANGED <<ops, digests, removed>> BY <2>a, <3>1, MoveEffect
    <3> QED BY <3>2, QuietSettled
  <2>3. CASE CreateTransfer(a, p) \/ RevokeTransfer(a, p)
    <3>1. UNCHANGED <<projects, ops, digests, removed>> BY <2>3 DEF CreateTransfer, RevokeTransfer
    <3> QED BY <1>p, <3>1, StillSettled
  <2>4. CASE Tombstone(a, p) BY <2>4, BurySettled DEF Tombstone
  <2>5. CASE \E name \in Name : Rename(a, p, name) BY <2>5, RenameEffect, QuietSettled DEF Aside
  <2>6. CASE \E enabled \in BOOLEAN : SetWatermark(a, p, enabled)
    BY <2>6, SetWatermarkEffect, QuietSettled DEF Aside
  <2>7. CASE \E o \in OpId : SelectRevision(a, p, o) BY <2>7, SelectRevisionSettled
  <2>8. CASE \E o \in OpId : RemoveRevision(a, p, o)
    <3>1. PICK o \in OpId : RemoveRevision(a, p, o) BY <2>8
    <3>2. ops[o].digest \in Digest BY <3>1 DEF RemoveRevision, AvailableRevision, Inv, TypeOK, Operation
    <3>3. /\ Quiet(p) /\ UNCHANGED <<ops, digests>>
          /\ projects[p].pending = None /\ ops[o].digest # projects[p].digest
          /\ removed' = removed \cup {<<p, ops[o].digest>>}
      BY <3>1, RemoveRevisionEffect DEF Aside
    <3> QED BY <3>2, <3>3, QuietSettled
  <2>9. CASE SetPrivacy(a, p, None) BY <2>9, SetPrivacyEffect, QuietSettled DEF Aside
  <2>10. CASE Known(p) /\ \E pw \in NextPasswords(p) : SetPrivacy(a, p, pw)
    <3>1. PICK pw \in NextPasswords(p) : SetPrivacy(a, p, pw) BY <2>10
    <3>2. pw \in Password BY <2>10, NextPasswordsType DEF Inv
    <3> QED BY <3>1, <3>2, SetPrivacyEffect, QuietSettled DEF Aside
  <2> QED BY <2>1, <2>2, <2>3, <2>4, <2>5, <2>6, <2>7, <2>8, <2>9, <2>10
<1>8. CASE UNCHANGED vars
  <2>1. UNCHANGED <<projects, ops, digests, removed>> BY <1>8 DEF vars
  <2> QED BY <1>p, <2>1, StillSettled
<1> QED BY <1>1, <1>2, <1>3, <1>4, <1>5, <1>6, <1>7, <1>8 DEF Next, Maintain, Clock

\* Uploads and contents are settled in every reachable state.
LEMMA SettledInvariance == Spec => [](Inv /\ Settled)
<1>1. Init => Settled BY DEF Init, Settled, UploadOK, ProjectOK, Pending, Known
<1>2. Inv /\ Settled /\ [Next]_vars => Settled' BY NextSettled
<1> QED BY <1>1, <1>2, InitInv, NextInv, PTL DEF Spec

\* No two live projects serve the same content, the digest index names the one
\* that does, and an unexpired upload keeps its claim until it ends: duplicate
\* detection is exact whatever reserves, activates, rolls back and deletes.
THEOREM ContentsUnique == Spec => []ContentUnique
<1>1. Inv /\ Settled => ContentUnique
  <2> SUFFICES ASSUME Inv, Settled PROVE ContentUnique OBVIOUS
  <2>1. \A p \in Pid : Live(p) => /\ digests[projects[p].digest] # None
                                  /\ digests[projects[p].digest].project = p
    BY DEF Settled, ProjectOK, Live
  <2>2. \A p, q \in Pid : Live(p) /\ Live(q) /\ p # q => projects[p].digest # projects[q].digest
    BY <2>1
  <2>3. \A o \in OpId : Pending(o) /\ ~projects[ops[o].project].expired
                          => digests[ops[o].digest] = [project |-> ops[o].project, op |-> o]
    BY DEF Settled, UploadOK
  <2> QED BY <2>1, <2>2, <2>3 DEF ContentUnique
<1> QED BY <1>1, SettledInvariance, PTL

\* A version that was removed is never served again and never about to be: not
\* by an upload already reserved, not by a rollback.
THEOREM RemovedStayUnserved == Spec => []RemovedNeverServed
<1>1. Inv /\ Settled => RemovedNeverServed BY DEF Settled, ProjectOK, RemovedNeverServed
<1> QED BY <1>1, SettledInvariance, PTL

-----------------------------------------------------------------------------
(* Policy revisions *)

\* A step that changes one project's record bumps whatever it must.
LEMMA BumpedOne ==
  ASSUME Inv, NEW p \in Pid, Bumped(p), \A q \in Pid \ {p} : projects'[q] = projects[q]
  PROVE  \A q \in Pid : Bumped(q)
<1> SUFFICES ASSUME NEW q \in Pid, Known(q), q # p PROVE Bumped(q) BY DEF Bumped
<1>1. projects'[q] = projects[q] OBVIOUS
<1>2. projects[q].policy \in Nat BY KnownType DEF Inv, Project
<1> QED BY <1>1, <1>2 DEF Bumped

\* The same for a step that changes an existing project.
LEMMA BumpedChange ==
  ASSUME Inv, NEW p \in Pid, Change(p), Bumped(p) PROVE \A q \in Pid : Bumped(q)
<1>1. \A q \in Pid \ {p} : projects'[q] = projects[q] BY DEF Change
<1> QED BY <1>1, BumpedOne

\* A step that changes no project.
LEMMA BumpedNone == ASSUME Inv, projects' = projects PROVE \A q \in Pid : Bumped(q)
<1> SUFFICES ASSUME NEW q \in Pid, Known(q) PROVE Bumped(q) BY DEF Bumped
<1>1. projects[q].policy \in Nat BY KnownType DEF Inv, Project
<1> QED BY <1>1 DEF Bumped

\* abort deletes only projects that were never active, so no grant exists.
LEMMA ReleaseBumped ==
  ASSUME Inv, Settled, NEW o \in OpId, Pending(o), Release(o) PROVE \A q \in Pid : Bumped(q)
<1>0. PICK p, d, w : p = ops[o].project /\ d = ops[o].digest /\ w = projects[p].owner OBVIOUS
<1>1. ops[o] # None BY DEF Pending
<1>2. /\ p \in Pid /\ Change(p) /\ projects'[p].digest = projects[p].digest
      /\ projects'[p].status = IF ops[o].new THEN "deleted" ELSE projects[p].status
      /\ projects'[p].slug = projects[p].slug
      /\ projects'[p].password = projects[p].password /\ projects'[p].policy = projects[p].policy
  BY <1>0, <1>1, ReleaseEffect
<1>3. projects[p].status = IF ops[o].new THEN "reserved" ELSE "active" BY <1>0 DEF Settled, UploadOK
<1>4. ~(projects[p].status = "active" /\ projects'[p].status = "deleted") BY <1>2, <1>3
<1>5. projects[p].policy \in Nat BY <1>2 DEF Change, Project
<1>6. Bumped(p) BY <1>2, <1>4, <1>5 DEF Bumped
<1> QED BY <1>2, <1>6, BumpedChange

\* activate publishes a new version without a new policy, unless it sets a
\* password.
LEMMA ActivateBumped ==
  ASSUME Inv, NEW a \in Actor, NEW o \in OpId, NEW pw \in Password \cup {None}, Activate(a, o, pw)
  PROVE  \A q \in Pid : Bumped(q)
<1>0. PICK p, d : p = ops[o].project /\ d = ops[o].digest OBVIOUS
<1>a. Activated(p, d, o) BY <1>0, ActivateEffect
<1>1. p \in Pid /\ Change(p) /\ Bumped(p) BY <1>a DEF Activated
<1> QED BY <1>1, BumpedChange

\* Every step bumps the policy of every project whose access it changes.
LEMMA NextBumped == ASSUME Inv, Settled, [Next]_vars PROVE \A q \in Pid : Bumped(q)
<1>1. CASE \E o \in OpId : AbortExpired(o) BY <1>1, ReleaseBumped DEF AbortExpired, Pending
<1>2. CASE \E p \in Pid : ExpireProject(p) BY <1>2, BuryEffect, BumpedChange DEF ExpireProject
<1>4. CASE \E p \in Pid : ProjectDeadline(p) BY <1>4, ProjectDeadlineEffect, BumpedChange DEF Quiet
<1>5. CASE \E p \in Pid : TransferDeadline(p) BY <1>5, BumpedNone DEF TransferDeadline
<1>6. CASE \E a \in Actor : Publish(a)
  <2>0. PICK a \in Actor : Publish(a) BY <1>6
  <2>1. CASE \E k \in Key, d \in Digest, name \in Name : ReserveNew(a, k, name, d)
    <3>1. PICK k \in Key, d \in Digest, name \in Name : ReserveNew(a, k, name, d) BY <2>1
    <3>2. PICK o, w : o = <<OwnerOf(a), k>> /\ w = OwnerOf(a) OBVIOUS
    <3>3. ReservedNew(o, w, d) BY <3>1, <3>2, ReserveNewEffect
    <3>4. o \in Pid /\ ~Known(o) /\ \A q \in Pid \ {o} : projects'[q] = projects[q]
      BY <3>3 DEF ReservedNew
    <3>5. Bumped(o) BY <3>4 DEF Bumped
    <3> QED BY <3>4, <3>5, BumpedOne
  <2>2. CASE \E k \in Key, d \in Digest, p \in Pid : ReserveUpdate(a, k, p, d)
    <3>1. PICK k \in Key, d \in Digest, p \in Pid : ReserveUpdate(a, k, p, d) BY <2>2
    <3>0. PICK o : o = <<OwnerOf(a), k>> OBVIOUS
    <3>a. ReservedNext(o, p, d) BY <3>0, <3>1, ReserveUpdateEffect
    <3>2. Change(p) /\ Bumped(p) BY <3>a DEF ReservedNext
    <3> QED BY <3>2, BumpedChange
  <2>3. CASE \E o \in OpId : Activate(a, o, None) BY <2>3, ActivateBumped
  <2>4. CASE \E o \in OpId : Abort(a, o) BY <2>4, ReleaseBumped DEF Abort
  <2>5. CASE \E o \in OpId : /\ ops[o] # None
                             /\ \E pw \in NextPasswords(ops[o].project) : Activate(a, o, pw)
    <3>1. PICK o \in OpId : /\ ops[o] # None
                            /\ \E pw \in NextPasswords(ops[o].project) : Activate(a, o, pw)
      BY <2>5
    <3>2. PICK pw \in NextPasswords(ops[o].project) : Activate(a, o, pw) BY <3>1
    <3>3. ops[o].project \in Pid /\ Known(ops[o].project)
      BY <3>1 DEF Inv, OpsKnown, TypeOK, Operation
    <3>4. pw \in Password BY <3>3, NextPasswordsType DEF Inv
    <3> QED BY <3>2, <3>4, ActivateBumped
  <2> QED BY <2>0, <2>1, <2>2, <2>3, <2>4, <2>5 DEF Publish
<1>7. CASE \E a \in Actor : Manage(a)
  <2>0. PICK a \in Actor : Manage(a) BY <1>7
  <2>1. PICK p \in Pid :
          \/ Claim(a, p) \/ CreateTransfer(a, p) \/ RevokeTransfer(a, p) \/ RedeemTransfer(a, p)
          \/ Tombstone(a, p)
          \/ \E name \in Name : Rename(a, p, name)
          \/ \E enabled \in BOOLEAN : SetWatermark(a, p, enabled)
          \/ \E o \in OpId : SelectRevision(a, p, o) \/ RemoveRevision(a, p, o)
          \/ SetPrivacy(a, p, None)
          \/ Known(p) /\ \E pw \in NextPasswords(p) : SetPrivacy(a, p, pw)
    BY <2>0 DEF Manage
  <2>a. a.uid # None => a.uid \in Account BY IdentitiesAssumption
  <2>2. CASE Claim(a, p) \/ RedeemTransfer(a, p)
    <3>1. /\ a.uid # None /\ Live(p) /\ projects[p].owner \in Anonymous /\ MoveToAccount(p, a.uid)
      BY <2>2 DEF Claim, RedeemTransfer, Editable
    <3>2. Quiet(p) /\ Bumped(p) BY <2>a, <3>1, MoveEffect
    <3> QED BY <3>2, BumpedChange DEF Quiet
  <2>3. CASE CreateTransfer(a, p) \/ RevokeTransfer(a, p)
    BY <2>3, BumpedNone DEF CreateTransfer, RevokeTransfer
  <2>4. CASE Tombstone(a, p) BY <2>4, BuryEffect, BumpedChange DEF Tombstone
  <2>5. CASE \E name \in Name : Rename(a, p, name) BY <2>5, RenameEffect, BumpedChange DEF Quiet
  <2>6. CASE \E enabled \in BOOLEAN : SetWatermark(a, p, enabled)
    BY <2>6, SetWatermarkEffect, BumpedChange DEF Quiet
  <2>7. CASE \E o \in OpId : SelectRevision(a, p, o)
    <3>1. PICK o \in OpId : SelectRevision(a, p, o) BY <2>7
    <3>2. PICK d : d = ops[o].digest OBVIOUS
    <3> QED BY <3>1, <3>2, SelectRevisionEffect, BumpedChange
  <2>8. CASE \E o \in OpId : RemoveRevision(a, p, o) BY <2>8, RemoveRevisionEffect, BumpedChange DEF Quiet
  <2>9. CASE SetPrivacy(a, p, None) BY <2>9, SetPrivacyEffect, BumpedChange DEF Quiet
  <2>10. CASE Known(p) /\ \E pw \in NextPasswords(p) : SetPrivacy(a, p, pw)
    <3>1. PICK pw \in NextPasswords(p) : SetPrivacy(a, p, pw) BY <2>10
    <3>2. pw \in Password BY <2>10, NextPasswordsType DEF Inv
    <3> QED BY <3>1, <3>2, SetPrivacyEffect, BumpedChange DEF Quiet
  <2> QED BY <2>1, <2>2, <2>3, <2>4, <2>5, <2>6, <2>7, <2>8, <2>9, <2>10
<1>8. CASE \E o \in OpId : OperationDeadline(o) BY <1>8, BumpedNone DEF OperationDeadline
<1>9. CASE UNCHANGED vars BY <1>9, BumpedNone DEF vars
<1> QED BY <1>1, <1>2, <1>4, <1>5, <1>6, <1>7, <1>8, <1>9 DEF Next, Maintain, Clock

\* Whatever changes what an access grant gives access to (password, privacy,
\* name, rollback, deletion) raises the project's policy revision, and nothing
\* lowers it.
THEOREM AccessBumpsPolicy == Spec => AccessChangesBumpPolicy
<1>1. Inv /\ Settled /\ [Next]_vars =>
        [\A p \in Pid : Known(p) =>
            LET old == projects[p]
                new == projects'[p]
            IN  /\ new.policy >= old.policy
                /\ \/ new.password # old.password \/ new.slug # old.slug
                   \/ old.status = "active" /\ new.status = "deleted"
                   \/ old.digest # None /\ new.digest # old.digest /\ new.pending = old.pending
                   => new.policy > old.policy]_vars
  <2> SUFFICES ASSUME Inv, Settled, [Next]_vars PROVE \A p \in Pid : Bumped(p) BY DEF Bumped
  <2> QED BY NextBumped
<1> QED BY <1>1, SettledInvariance, PTL DEF Spec, AccessChangesBumpPolicy

-----------------------------------------------------------------------------
(* Counts: the third invariant. *)

\* The owner's index lists its reserved and active projects, and its count is
\* their number, within the limit.
CountOK(o) ==
    /\ index[o] = Current(o) /\ IsFiniteSet(index[o])
    /\ quotas[o].count = Cardinality(index[o]) /\ quotas[o].count <= Limit[Kind(o)]

Counted == \A o \in Owner : CountOK(o)

\* Limits are numbers.
LEMMA LimitType == ASSUME NEW o PROVE Limit[Kind(o)] \in Nat
  BY SizesAssumption DEF Kind

\* An owner none of whose projects starts or ends.
LEMMA CountSame ==
  ASSUME NEW o \in Owner, CountOK(o), Current(o)' = Current(o), index'[o] = index[o],
         quotas'[o].count = quotas[o].count
  PROVE  CountOK(o)'
  BY DEF CountOK

\* An owner that gains a project.
LEMMA CountAdd ==
  ASSUME NEW o \in Owner, CountOK(o), NEW p, p \notin Current(o), Current(o)' = Current(o) \cup {p},
         index'[o] = index[o] \cup {p}, quotas'[o].count = quotas[o].count + 1,
         quotas[o].count < Limit[Kind(o)]
  PROVE  CountOK(o)'
<1>1. IsFiniteSet(index[o]) /\ p \notin index[o] /\ quotas[o].count = Cardinality(index[o])
  BY DEF CountOK
<1>2. /\ IsFiniteSet(index[o] \cup {p}) /\ Cardinality(index[o] \cup {p}) = Cardinality(index[o]) + 1
      /\ Cardinality(index[o]) \in Nat
  BY <1>1, FS_AddElement, FS_CardinalityType
<1>3. quotas[o].count + 1 <= Limit[Kind(o)] BY <1>1, <1>2, LimitType
<1> QED BY <1>1, <1>2, <1>3 DEF CountOK

\* An owner that loses a project.
LEMMA CountDrop ==
  ASSUME NEW o \in Owner, CountOK(o), NEW p, p \in Current(o), Current(o)' = Current(o) \ {p},
         index'[o] = index[o] \ {p}, quotas'[o].count = quotas[o].count - 1
  PROVE  CountOK(o)'
<1>1. /\ IsFiniteSet(index[o]) /\ p \in index[o] /\ quotas[o].count = Cardinality(index[o])
      /\ quotas[o].count <= Limit[Kind(o)]
  BY DEF CountOK
<1>2. /\ IsFiniteSet(index[o] \ {p}) /\ Cardinality(index[o] \ {p}) = Cardinality(index[o]) - 1
      /\ Cardinality(index[o]) \in Nat
  BY <1>1, FS_RemoveElement, FS_CardinalityType
<1>3. quotas[o].count - 1 <= Limit[Kind(o)] BY <1>1, <1>2, LimitType
<1> QED BY <1>1, <1>2, <1>3 DEF CountOK

\* The current projects of o after only p changed.
LEMMA CurrentAfter ==
  ASSUME NEW p \in Pid, NEW o \in Owner, \A q \in Pid \ {p} : projects'[q] = projects[q], Known(p)'
  PROVE  Current(o)' = IF projects'[p].owner = o /\ projects'[p].status # "deleted"
                       THEN Current(o) \cup {p} ELSE Current(o) \ {p}
<1>1. \A q \in Pid : q # p => (q \in Current(o)' <=> q \in Current(o)) BY DEF Current, OwnedBy, Known
<1>2. p \in Current(o)' <=> projects'[p].owner = o /\ projects'[p].status # "deleted"
  BY DEF Current, OwnedBy
<1>3. Current(o) \subseteq Pid /\ Current(o)' \subseteq Pid BY DEF Current, OwnedBy
<1> QED BY <1>1, <1>2, <1>3

\* A project that changes without starting, ending or changing hands.
LEMMA SteadyCounted ==
  ASSUME Counted, NEW p \in Pid, Change(p), projects'[p].owner = projects[p].owner,
         projects'[p].status = "deleted" <=> projects[p].status = "deleted",
         \A o \in Owner : quotas'[o].count = quotas[o].count, index' = index
  PROVE  Counted'
<1> SUFFICES ASSUME NEW o \in Owner PROVE CountOK(o)' BY DEF Counted
<1>1. p \in Current(o) <=> projects[p].owner = o /\ projects[p].status # "deleted"
  BY DEF Current, OwnedBy, Change
<1>2. Current(o)' = IF projects'[p].owner = o /\ projects'[p].status # "deleted"
                    THEN Current(o) \cup {p} ELSE Current(o) \ {p}
  BY CurrentAfter DEF Change
<1>3. Current(o)' = Current(o) BY <1>1, <1>2
<1> QED BY <1>3, CountSame DEF Counted

\* A step that changes no project.
LEMMA StillCounted ==
  ASSUME Counted, UNCHANGED <<projects, quotas, index>> PROVE Counted'
<1> SUFFICES ASSUME NEW o \in Owner PROVE CountOK(o)' BY DEF Counted
<1>1. Current(o)' = Current(o) BY DEF Current, OwnedBy, Known
<1> QED BY <1>1, CountSame DEF Counted

\* Giving back a count.
LEMMA UncountIs ==
  ASSUME Inv, NEW w \in Owner, quotas' = Uncount(w)
  PROVE  /\ quotas'[w].count = quotas[w].count - 1 /\ quotas'[w].charged = quotas[w].charged
         /\ \A o \in Owner \ {w} : quotas'[o] = quotas[o]
<1>1. quotas \in [Owner -> [count : Nat, charged : Nat]] BY DEF Inv, TypeOK
<1> DEFINE r == [quotas[w] EXCEPT !.count = @ - 1]
<1>2. r.count = quotas[w].count - 1 /\ r.charged = quotas[w].charged BY <1>1
<1>3. quotas' = [quotas EXCEPT ![w] = r] BY DEF Uncount
<1> HIDE DEF r
<1> QED BY <1>1, <1>2, <1>3

\* A project that ends.
LEMMA EndCounted ==
  ASSUME Inv, Counted, NEW p \in Pid, Change(p), NEW w, w = projects[p].owner, w \in Owner,
         projects[p].status # "deleted", projects'[p].status = "deleted",
         quotas' = Uncount(w), index' = [index EXCEPT ![w] = @ \ {p}]
  PROVE  Counted'
<1> SUFFICES ASSUME NEW o \in Owner PROVE CountOK(o)' BY DEF Counted
<1>1. /\ quotas'[w].count = quotas[w].count - 1
      /\ \A v \in Owner \ {w} : quotas'[v] = quotas[v]
  BY UncountIs
<1>2. index'[w] = index[w] \ {p} /\ \A v \in Owner \ {w} : index'[v] = index[v] BY DEF Inv, TypeOK
<1>3. p \in Current(o) <=> o = w BY DEF Current, OwnedBy, Change
<1>4. Current(o)' = Current(o) \ {p} BY CurrentAfter DEF Change
<1>5. CASE o = w BY <1>1, <1>2, <1>3, <1>4, <1>5, CountDrop DEF Counted
<1>6. CASE o # w BY <1>1, <1>2, <1>3, <1>4, <1>6, CountSame DEF Counted
<1> QED BY <1>5, <1>6

\* moveToAccount takes the project from one owner's count to the other's.
LEMMA MoveCounted ==
  ASSUME Inv, Counted, NEW p \in Pid, Live(p), projects[p].owner \in Anonymous,
         NEW uid \in Account, MoveToAccount(p, uid)
  PROVE  Counted'
<1>0. PICK w : w = projects[p].owner OBVIOUS
<1>1. /\ Quiet(p) /\ projects'[p].owner = uid /\ w \in Owner /\ uid \in Owner /\ w # uid
      /\ quotas[uid].count < Limit["firebase"]
      /\ quotas'[w].count = quotas[w].count - 1 /\ quotas'[uid].count = quotas[uid].count + 1
      /\ \A o \in Owner \ {w, uid} : quotas'[o] = quotas[o] /\ index'[o] = index[o]
      /\ index'[w] = index[w] \ {p} /\ index'[uid] = index[uid] \cup {p}
  BY <1>0, MoveEffect
<1>2. Kind(uid) = "firebase" BY IdentitiesAssumption DEF Kind
<1> SUFFICES ASSUME NEW o \in Owner PROVE CountOK(o)' BY DEF Counted
<1>3. Change(p) /\ projects[p].status = "active" /\ projects'[p].status = "active"
  BY <1>1 DEF Quiet, Live
<1>4. p \in Current(o) <=> o = w BY <1>0, <1>3 DEF Current, OwnedBy, Change
<1>5. Current(o)' = IF o = uid THEN Current(o) \cup {p} ELSE Current(o) \ {p}
  BY <1>1, <1>3, CurrentAfter DEF Change
<1>6. CASE o = w BY <1>1, <1>4, <1>5, <1>6, CountDrop DEF Counted
<1>7. CASE o = uid BY <1>1, <1>2, <1>4, <1>5, <1>7, CountAdd DEF Counted
<1>8. CASE o \notin {w, uid}
  <2>1. Current(o)' = Current(o) BY <1>4, <1>5, <1>8
  <2> QED BY <1>1, <1>8, <2>1, CountSame DEF Counted
<1> QED BY <1>6, <1>7, <1>8

\* The first reservation of a project adds it to its owner's.
LEMMA ReserveNewCounted ==
  ASSUME Inv, Counted, NEW o, NEW w, NEW d, ReservedNew(o, w, d) PROVE Counted'
<1>1. /\ o \in Pid /\ w \in Owner /\ ~Known(o) /\ Known(o)'
      /\ \A q \in Pid \ {o} : projects'[q] = projects[q]
      /\ projects'[o].owner = w /\ projects'[o].status = "reserved"
      /\ quotas[w].count < Limit[Kind(w)] /\ quotas'[w].count = quotas[w].count + 1
      /\ \A v \in Owner \ {w} : quotas'[v] = quotas[v] /\ index'[v] = index[v]
      /\ index'[w] = index[w] \cup {o}
  BY DEF ReservedNew
<1> SUFFICES ASSUME NEW v \in Owner PROVE CountOK(v)' BY DEF Counted
<1>2. o \notin Current(v) BY <1>1 DEF Current, OwnedBy
<1>3. Current(v)' = IF v = w THEN Current(v) \cup {o} ELSE Current(v) \ {o} BY <1>1, CurrentAfter
<1>4. CASE v = w BY <1>1, <1>2, <1>3, <1>4, CountAdd DEF Counted
<1>5. CASE v # w
  <2>1. Current(v)' = Current(v) BY <1>2, <1>3, <1>5
  <2> QED BY <1>1, <1>5, <2>1, CountSame DEF Counted
<1> QED BY <1>4, <1>5

\* abort takes a project that was never active from its owner's.
LEMMA ReleaseCounted ==
  ASSUME Inv, Counted, NEW o \in OpId, ops[o] # None, Release(o) PROVE Counted'
<1>0. PICK p, d, w : p = ops[o].project /\ d = ops[o].digest /\ w = projects[p].owner OBVIOUS
<1>1. /\ p \in Pid /\ Change(p) /\ w \in Owner /\ projects[p].pending = o
      /\ projects'[p].status = IF ops[o].new THEN "deleted" ELSE projects[p].status
      /\ projects'[p].owner = w
      /\ ops[o].new => quotas' = Uncount(w) /\ index' = [index EXCEPT ![w] = @ \ {p}]
      /\ ~ops[o].new => quotas' = quotas /\ index' = index
  BY <1>0, ReleaseEffect
<1>2. projects[p].status # "deleted"
  <2>1. o # None BY NoneAssumption DEF Pid
  <2> QED BY <1>1, <2>1 DEF Inv, PendingNotDeleted, Change
<1>3. CASE ops[o].new BY <1>0, <1>1, <1>2, <1>3, EndCounted
<1>4. CASE ~ops[o].new BY <1>0, <1>1, <1>4, SteadyCounted
<1> QED BY <1>3, <1>4

\* Deletion takes the project from its owner's.
LEMMA BuryCounted ==
  ASSUME Inv, Counted, NEW p \in Pid, Known(p), projects[p].pending = None,
         projects[p].status # "deleted", Bury(p)
  PROVE  Counted'
<1>0. PICK w : w = projects[p].owner OBVIOUS
<1>1. /\ Change(p) /\ w \in Owner /\ projects'[p].status = "deleted"
      /\ quotas' = Uncount(w) /\ index' = [index EXCEPT ![w] = @ \ {p}]
  BY <1>0, BuryEffect
<1> QED BY <1>0, <1>1, EndCounted

\* Activation neither starts nor ends a project.
LEMMA ActivateCounted ==
  ASSUME Inv, Counted, NEW a \in Actor, NEW o \in OpId, NEW pw \in Password \cup {None},
         Activate(a, o, pw)
  PROVE  Counted'
<1>0. PICK p, d : p = ops[o].project /\ d = ops[o].digest OBVIOUS
<1>1. Activated(p, d, o) BY <1>0, ActivateEffect
<1>2. /\ p \in Pid /\ Change(p) /\ projects'[p].owner = projects[p].owner
      /\ projects'[p].status = "active" /\ quotas' = quotas /\ index' = index
  BY <1>1 DEF Activated
<1>3. projects[p].status # "deleted" BY <1>0 DEF Activate
<1> QED BY <1>2, <1>3, SteadyCounted

\* Management operations that keep the owner.
LEMMA QuietCounted ==
  ASSUME Counted, NEW p \in Pid, Quiet(p), projects'[p].owner = projects[p].owner, Aside
  PROVE  Counted'
<1>1. Change(p) /\ projects'[p].status = projects[p].status /\ quotas' = quotas /\ index' = index
  BY DEF Quiet, Aside
<1> QED BY <1>1, SteadyCounted

\* Every step.
LEMMA NextCounted == ASSUME Inv, Counted, [Next]_vars PROVE Counted'
<1>1. CASE \E o \in OpId : AbortExpired(o) BY <1>1, ReleaseCounted DEF AbortExpired
<1>2. CASE \E p \in Pid : ExpireProject(p) BY <1>2, BuryCounted DEF ExpireProject
<1>3. CASE \E o \in OpId : OperationDeadline(o) BY <1>3, StillCounted DEF OperationDeadline
<1>4. CASE \E p \in Pid : ProjectDeadline(p) BY <1>4, ProjectDeadlineEffect, QuietCounted
<1>5. CASE \E p \in Pid : TransferDeadline(p) BY <1>5, StillCounted DEF TransferDeadline
<1>6. CASE \E a \in Actor : Publish(a)
  <2>0. PICK a \in Actor : Publish(a) BY <1>6
  <2>1. CASE \E k \in Key, d \in Digest, name \in Name : ReserveNew(a, k, name, d)
    <3>1. PICK k \in Key, d \in Digest, name \in Name : ReserveNew(a, k, name, d) BY <2>1
    <3>2. PICK o, w : o = <<OwnerOf(a), k>> /\ w = OwnerOf(a) OBVIOUS
    <3>3. ReservedNew(o, w, d) BY <3>1, <3>2, ReserveNewEffect
    <3> QED BY <3>3, ReserveNewCounted
  <2>2. CASE \E k \in Key, d \in Digest, p \in Pid : ReserveUpdate(a, k, p, d)
    <3>1. PICK k \in Key, d \in Digest, p \in Pid : ReserveUpdate(a, k, p, d) BY <2>2
    <3>0. PICK o : o = <<OwnerOf(a), k>> OBVIOUS
    <3>a. ReservedNext(o, p, d) BY <3>0, <3>1, ReserveUpdateEffect
    <3>2. /\ Change(p) /\ Live(p) /\ projects'[p].owner = projects[p].owner
          /\ projects'[p].status = "active"
          /\ \A v \in Owner : quotas'[v].count = quotas[v].count
          /\ index' = index
      BY <3>a DEF ReservedNext
    <3>3. projects[p].status = "active" BY <3>2 DEF Live
    <3> QED BY <3>2, <3>3, SteadyCounted
  <2>3. CASE \E o \in OpId : Activate(a, o, None) BY <2>3, ActivateCounted
  <2>4. CASE \E o \in OpId : Abort(a, o) BY <2>4, ReleaseCounted DEF Abort, Pending
  <2>5. CASE \E o \in OpId : /\ ops[o] # None
                             /\ \E pw \in NextPasswords(ops[o].project) : Activate(a, o, pw)
    <3>1. PICK o \in OpId : /\ ops[o] # None
                            /\ \E pw \in NextPasswords(ops[o].project) : Activate(a, o, pw)
      BY <2>5
    <3>2. PICK pw \in NextPasswords(ops[o].project) : Activate(a, o, pw) BY <3>1
    <3>3. ops[o].project \in Pid /\ Known(ops[o].project)
      BY <3>1 DEF Inv, OpsKnown, TypeOK, Operation
    <3>4. pw \in Password BY <3>3, NextPasswordsType DEF Inv
    <3> QED BY <3>2, <3>4, ActivateCounted
  <2> QED BY <2>0, <2>1, <2>2, <2>3, <2>4, <2>5 DEF Publish
<1>7. CASE \E a \in Actor : Manage(a)
  <2>0. PICK a \in Actor : Manage(a) BY <1>7
  <2>1. PICK p \in Pid :
          \/ Claim(a, p) \/ CreateTransfer(a, p) \/ RevokeTransfer(a, p) \/ RedeemTransfer(a, p)
          \/ Tombstone(a, p)
          \/ \E name \in Name : Rename(a, p, name)
          \/ \E enabled \in BOOLEAN : SetWatermark(a, p, enabled)
          \/ \E o \in OpId : SelectRevision(a, p, o) \/ RemoveRevision(a, p, o)
          \/ SetPrivacy(a, p, None)
          \/ Known(p) /\ \E pw \in NextPasswords(p) : SetPrivacy(a, p, pw)
    BY <2>0 DEF Manage
  <2>a. a.uid # None => a.uid \in Account BY IdentitiesAssumption
  <2>2. CASE Claim(a, p) \/ RedeemTransfer(a, p)
    <3>1. /\ a.uid # None /\ Live(p) /\ projects[p].owner \in Anonymous /\ MoveToAccount(p, a.uid)
      BY <2>2 DEF Claim, RedeemTransfer, Editable
    <3> QED BY <2>a, <3>1, MoveCounted
  <2>3. CASE CreateTransfer(a, p) \/ RevokeTransfer(a, p)
    BY <2>3, StillCounted DEF CreateTransfer, RevokeTransfer
  <2>4. CASE Tombstone(a, p) BY <2>4, BuryCounted DEF Tombstone
  <2>5. CASE \E name \in Name : Rename(a, p, name) BY <2>5, RenameEffect, QuietCounted
  <2>6. CASE \E enabled \in BOOLEAN : SetWatermark(a, p, enabled)
    BY <2>6, SetWatermarkEffect, QuietCounted
  <2>7. CASE \E o \in OpId : SelectRevision(a, p, o)
    <3>1. PICK o \in OpId : SelectRevision(a, p, o) BY <2>7
    <3>2. PICK d : d = ops[o].digest OBVIOUS
    <3>3. /\ Change(p) /\ projects'[p].owner = projects[p].owner /\ projects[p].status = "active"
          /\ projects'[p].status = "active" /\ quotas' = quotas /\ index' = index
      BY <3>1, <3>2, SelectRevisionEffect
    <3> QED BY <3>3, SteadyCounted
  <2>8. CASE \E o \in OpId : RemoveRevision(a, p, o) BY <2>8, RemoveRevisionEffect, QuietCounted
  <2>9. CASE SetPrivacy(a, p, None) BY <2>9, SetPrivacyEffect, QuietCounted
  <2>10. CASE Known(p) /\ \E pw \in NextPasswords(p) : SetPrivacy(a, p, pw)
    <3>1. PICK pw \in NextPasswords(p) : SetPrivacy(a, p, pw) BY <2>10
    <3>2. pw \in Password BY <2>10, NextPasswordsType DEF Inv
    <3> QED BY <3>1, <3>2, SetPrivacyEffect, QuietCounted
  <2> QED BY <2>1, <2>2, <2>3, <2>4, <2>5, <2>6, <2>7, <2>8, <2>9, <2>10
<1>8. CASE UNCHANGED vars BY <1>8, StillCounted DEF vars
<1> QED BY <1>1, <1>2, <1>3, <1>4, <1>5, <1>6, <1>7, <1>8 DEF Next, Maintain, Clock

\* Every count is exact in every reachable state.
LEMMA CountedInvariance == Spec => [](Inv /\ Counted)
<1>1. Init => Counted
  <2> SUFFICES ASSUME Init, NEW o \in Owner PROVE CountOK(o) BY DEF Counted
  <2>1. index[o] = {} /\ quotas[o].count = 0 /\ Current(o) = {} BY DEF Init, Current, OwnedBy, Known
  <2> QED BY <2>1, FS_EmptySet, LimitType DEF CountOK
<1>2. Inv /\ Counted /\ [Next]_vars => Counted' BY NextCounted
<1> QED BY <1>1, <1>2, InitInv, NextInv, PTL DEF Spec

\* The project quota is exact: an owner's count is the number of its reserved
\* and active projects, its index lists exactly them, and neither exceeds the
\* limit, through aborts, claims, redeemed links, deletions and expiry.
THEOREM CountsStayExact == Spec => []CountsExact
<1>1. Inv /\ Counted => CountsExact BY DEF Counted, CountOK, CountsExact
<1> QED BY <1>1, CountedInvariance, PTL

\* A pending operation is the one its project waits for, and the count it would
\* give back is there: an abort inside Maintain never fails, which would stop
\* every later maintenance pass at the same record.
THEOREM PendingStaysExact == Spec => []PendingExact
<1>1. Inv /\ Settled /\ Counted => PendingExact
  <2> SUFFICES ASSUME Inv, Settled, Counted PROVE PendingExact OBVIOUS
  <2>1. ASSUME NEW o \in OpId, Pending(o)
        PROVE  /\ projects[ops[o].project].pending = o
               /\ ops[o].new => quotas[projects[ops[o].project].owner].count > 0
    <3>0. PICK p, w : p = ops[o].project /\ w = projects[p].owner OBVIOUS
    <3>1. /\ p \in Pid /\ Known(p) /\ projects[p].pending = o /\ w \in Owner
          /\ projects[p].status # "deleted"
      BY <2>1, <3>0, PendingTypes DEF Settled, UploadOK, Project
    <3>2. CountOK(w) /\ p \in Current(w) BY <3>0, <3>1 DEF Counted, Current, OwnedBy
    <3>3. IsFiniteSet(index[w]) /\ index[w] # {} /\ quotas[w].count = Cardinality(index[w])
      BY <3>2 DEF CountOK
    <3>4. Cardinality(index[w]) \in Nat /\ Cardinality(index[w]) # 0
      BY <3>3, FS_EmptySet, FS_CardinalityType
    <3>5. quotas[w].count > 0 BY <3>3, <3>4
    <3> QED BY <3>0, <3>1, <3>5
  <2>2. \A p \in Pid : Known(p) /\ projects[p].pending # None => Pending(projects[p].pending)
    BY DEF Settled, ProjectOK
  <2> QED BY <2>1, <2>2 DEF PendingExact
<1> QED BY <1>1, SettledInvariance, CountedInvariance, PTL

-----------------------------------------------------------------------------
(* Charges: the fourth invariant. *)

\* The bytes an operation charged.
Bill(o, d) == {o} \X (1..VersionCharge(d))

\* A project's charge is what its operations charged.
BillOK(p) == IsFiniteSet(Charges({p})) /\ projects[p].charged = Cardinality(Charges({p}))

\* An owner's charge is what the operations of its projects charged.
ChargeOK(o) ==
    /\ IsFiniteSet(Charges(OwnedBy(o))) /\ quotas[o].charged = Cardinality(Charges(OwnedBy(o)))
    /\ quotas[o].charged <= ByteLimit[Kind(o)]

Charged ==
    /\ \A p \in Pid : Known(p) => BillOK(p)
    /\ \A o \in Owner : ChargeOK(o)

\* A bill has as many members as it has bytes.
LEMMA BillSize ==
  ASSUME NEW o, NEW d \in Digest
  PROVE  IsFiniteSet(Bill(o, d)) /\ Cardinality(Bill(o, d)) = VersionCharge(d)
<1>1. VersionCharge(d) \in Nat /\ VersionCharge(d) > 0 BY ChargeType
<1>2. /\ IsFiniteSet(1..VersionCharge(d))
      /\ Cardinality(1..VersionCharge(d)) = VersionCharge(d)
  BY <1>1, FS_Interval
<1>3. IsFiniteSet({o}) /\ Cardinality({o}) = 1 BY FS_Singleton
<1>4. /\ IsFiniteSet(Bill(o, d))
      /\ Cardinality(Bill(o, d)) = Cardinality({o}) * Cardinality(1..VersionCharge(d))
  BY <1>2, <1>3, FS_Product DEF Bill
<1> QED BY <1>1, <1>2, <1>3, <1>4

\* What is charged to projects, member by member.
LEMMA ChargesAre ==
  ASSUME NEW S, NEW u
  PROVE  u \in Charges(S) <=>
            \E i \in OpId : ops[i] # None /\ ops[i].project \in S /\ u \in Bill(i, ops[i].digest)
  BY DEF Charges, Bill

\* The same after the step.
LEMMA ChargesAfter ==
  ASSUME NEW S, NEW u
  PROVE  u \in Charges(S)' <=>
            \E i \in OpId : ops'[i] # None /\ ops'[i].project \in S /\ u \in Bill(i, ops'[i].digest)
  BY DEF Charges, Bill

\* Two operations charge different bytes.
LEMMA BillsApart ==
  ASSUME NEW i, NEW j, NEW d, NEW e, NEW u, u \in Bill(i, d), u \in Bill(j, e)
  PROVE  i = j
<1>1. u[1] = i /\ u[1] = j BY DEF Bill
<1> QED BY <1>1

\* The charges of two sets of projects.
LEMMA ChargesSplit ==
  ASSUME NEW S, NEW T
  PROVE  /\ Charges(S \cup T) = Charges(S) \cup Charges(T)
         /\ S \cap T = {} => Charges(S) \cap Charges(T) = {}
         /\ T \subseteq S => Charges(S \ T) = Charges(S) \ Charges(T) /\ Charges(T) \subseteq Charges(S)
<1>1. Charges(S \cup T) = Charges(S) \cup Charges(T) BY ChargesAre
<1>2. ASSUME NEW u, u \in Charges(S), u \in Charges(T)
      PROVE  \E i \in OpId : ops[i].project \in S /\ ops[i].project \in T
  <2>1. PICK i \in OpId : ops[i].project \in S /\ u \in Bill(i, ops[i].digest) BY <1>2, ChargesAre
  <2>2. PICK j \in OpId : ops[j].project \in T /\ u \in Bill(j, ops[j].digest) BY <1>2, ChargesAre
  <2>3. i = j BY <2>1, <2>2, BillsApart
  <2> QED BY <2>1, <2>2, <2>3
<1>3. S \cap T = {} => Charges(S) \cap Charges(T) = {} BY <1>2
<1>4. ASSUME T \subseteq S
      PROVE  Charges(S \ T) = Charges(S) \ Charges(T) /\ Charges(T) \subseteq Charges(S)
  <2>1. Charges(T) \subseteq Charges(S) /\ Charges(S \ T) \subseteq Charges(S) BY <1>4, ChargesAre
  <2>2. Charges(S) \subseteq Charges(S \ T) \cup Charges(T) BY <1>4, ChargesAre
  <2>3. ASSUME NEW u, u \in Charges(S \ T), u \in Charges(T) PROVE FALSE
    <3>1. PICK i \in OpId : ops[i].project \in S \ T /\ u \in Bill(i, ops[i].digest)
      BY <2>3, ChargesAre
    <3>2. PICK j \in OpId : ops[j].project \in T /\ u \in Bill(j, ops[j].digest) BY <2>3, ChargesAre
    <3>3. i = j BY <3>1, <3>2, BillsApart
    <3> QED BY <3>1, <3>2, <3>3
  <2> QED BY <2>1, <2>2, <2>3
<1> QED BY <1>1, <1>3, <1>4

\* A step that keeps the operations' projects and contents keeps all charges.
LEMMA ChargesSame ==
  ASSUME NEW S, \A i \in OpId : /\ ops'[i] # None <=> ops[i] # None
                                /\ ops[i] # None => /\ ops'[i].project = ops[i].project
                                                    /\ ops'[i].digest = ops[i].digest
  PROVE  Charges(S)' = Charges(S)
<1> SUFFICES ASSUME NEW u PROVE u \in Charges(S)' <=> u \in Charges(S) OBVIOUS
<1> QED BY ChargesAre, ChargesAfter

\* A reservation adds its bill to its project's charges.
LEMMA ChargesNew ==
  ASSUME NEW S, NEW o \in OpId, ops[o] = None, NEW d, NEW p,
         ops'[o] # None, ops'[o].project = p, ops'[o].digest = d,
         \A i \in OpId \ {o} : ops'[i] = ops[i]
  PROVE  /\ Charges(S)' = IF p \in S THEN Charges(S) \cup Bill(o, d) ELSE Charges(S)
         /\ Charges(S) \cap Bill(o, d) = {}
<1>1. ASSUME NEW u, u \in Charges(S), u \in Bill(o, d) PROVE FALSE
  <2>1. PICK i \in OpId : ops[i] # None /\ u \in Bill(i, ops[i].digest) BY <1>1, ChargesAre
  <2>2. i = o BY <1>1, <2>1, BillsApart
  <2> QED BY <2>1, <2>2
<1>2. ASSUME NEW u, u \in Charges(S) PROVE u \in Charges(S)'
  <2>1. PICK i \in OpId : ops[i] # None /\ ops[i].project \in S /\ u \in Bill(i, ops[i].digest)
    BY <1>2, ChargesAre
  <2>2. ops'[i] = ops[i] BY <2>1
  <2> QED BY <2>1, <2>2, ChargesAfter
<1>3. ASSUME NEW u, u \in Charges(S)' PROVE u \in Charges(S) \/ (p \in S /\ u \in Bill(o, d))
  <2>1. PICK i \in OpId : ops'[i] # None /\ ops'[i].project \in S /\ u \in Bill(i, ops'[i].digest)
    BY <1>3, ChargesAfter
  <2>2. CASE i = o BY <2>1, <2>2
  <2>3. CASE i # o BY <2>1, <2>3, ChargesAre
  <2> QED BY <2>2, <2>3
<1>4. ASSUME NEW u, u \in Bill(o, d), p \in S PROVE u \in Charges(S)' BY <1>4, ChargesAfter
<1> QED BY <1>1, <1>2, <1>3, <1>4

\* A sum of two charges.
LEMMA SumOf ==
  ASSUME NEW S, NEW T, IsFiniteSet(S), IsFiniteSet(T), S \cap T = {}
  PROVE  IsFiniteSet(S \cup T) /\ Cardinality(S \cup T) = Cardinality(S) + Cardinality(T)
<1>1. Cardinality(S \cap T) = 0 BY FS_EmptySet
<1>2. Cardinality(S) \in Nat /\ Cardinality(T) \in Nat BY FS_CardinalityType
<1>3. /\ IsFiniteSet(S \cup T)
      /\ Cardinality(S \cup T) = Cardinality(S) + Cardinality(T) - Cardinality(S \cap T)
  BY FS_Union
<1> QED BY <1>1, <1>2, <1>3

\* No operation gets or changes its project and content.
OpsKept ==
    \A i \in OpId : /\ ops'[i] # None <=> ops[i] # None
                    /\ ops[i] # None => /\ ops'[i].project = ops[i].project
                                        /\ ops'[i].digest = ops[i].digest

\* A step that reserves nothing and leaves every charge where it is.
LEMMA SteadyCharged ==
  ASSUME Charged, OpsKept,
         \A q \in Pid : /\ Known(q)' <=> Known(q)
                        /\ Known(q) => /\ projects'[q].owner = projects[q].owner
                                       /\ projects'[q].charged = projects[q].charged,
         \A o \in Owner : quotas'[o].charged = quotas[o].charged
  PROVE  Charged'
<1>1. ASSUME NEW p \in Pid, Known(p)' PROVE BillOK(p)'
  <2>1. PICK S : S = {p} OBVIOUS
  <2>2. Charges(S)' = Charges(S) BY ChargesSame DEF OpsKept
  <2> QED BY <1>1, <2>1, <2>2 DEF Charged, BillOK
<1>2. ASSUME NEW o \in Owner PROVE ChargeOK(o)'
  <2>1. PICK S : S = OwnedBy(o) OBVIOUS
  <2>2. Charges(S)' = Charges(S) BY ChargesSame DEF OpsKept
  <2>3. OwnedBy(o)' = S BY <2>1 DEF OwnedBy
  <2>4. Charges(OwnedBy(o))' = Charges(OwnedBy(o)) BY <2>1, <2>2, <2>3
  <2> QED BY <2>4 DEF Charged, ChargeOK
<1> QED BY <1>1, <1>2 DEF Charged

\* A project that changes, and with it at most the state of an operation.
LEMMA ChangeCharged ==
  ASSUME Charged, NEW p \in Pid, Change(p), projects'[p].owner = projects[p].owner,
         projects'[p].charged = projects[p].charged, ops' = ops \/ \E o \in OpId : Ended(o),
         \A o \in Owner : quotas'[o].charged = quotas[o].charged
  PROVE  Charged'
<1>1. OpsKept BY DEF OpsKept, Ended
<1>2. \A q \in Pid : /\ Known(q)' <=> Known(q)
                     /\ Known(q) => /\ projects'[q].owner = projects[q].owner
                                    /\ projects'[q].charged = projects[q].charged
  BY DEF Change, Known
<1> QED BY <1>1, <1>2, SteadyCharged

\* A step that changes no project and no quota, and of operations only the state.
LEMMA StillCharged ==
  ASSUME Charged, OpsKept, UNCHANGED <<projects, quotas>> PROVE Charged'
<1>1. \A q \in Pid : Known(q)' <=> Known(q) BY DEF Known
<1> QED BY <1>1, SteadyCharged

\* moveToAccount takes the project's charge from one owner to the other.
LEMMA MoveCharged ==
  ASSUME Inv, Charged, NEW p \in Pid, Live(p), projects[p].owner \in Anonymous,
         NEW uid \in Account, MoveToAccount(p, uid)
  PROVE  Charged'
<1>0. PICK w : w = projects[p].owner OBVIOUS
<1>1. /\ Quiet(p) /\ projects'[p].owner = uid /\ w \in Owner /\ uid \in Owner /\ w # uid
      /\ quotas'[w].charged = quotas[w].charged - projects[p].charged
      /\ quotas'[uid].charged = quotas[uid].charged + projects[p].charged
      /\ quotas'[uid].charged <= ByteLimit["firebase"]
      /\ \A o \in Owner \ {w, uid} : quotas'[o] = quotas[o]
      /\ ops' = ops
  BY <1>0, MoveEffect
<1>2. Kind(uid) = "firebase" BY IdentitiesAssumption DEF Kind
<1>3. Change(p) /\ projects'[p].charged = projects[p].charged /\ Known(p) BY <1>1 DEF Quiet, Change
<1>4. OpsKept BY <1>1 DEF OpsKept
<1>5. ASSUME NEW q \in Pid, Known(q)' PROVE BillOK(q)'
  <2>1. PICK S : S = {q} OBVIOUS
  <2>2. Charges(S)' = Charges(S) BY <1>4, ChargesSame DEF OpsKept
  <2>3. Known(q) /\ projects'[q].charged = projects[q].charged BY <1>3, <1>5 DEF Change, Known
  <2> QED BY <2>1, <2>2, <2>3 DEF Charged, BillOK
<1>6. PICK T : T = {p} OBVIOUS
<1>7. IsFiniteSet(Charges(T)) /\ projects[p].charged = Cardinality(Charges(T))
  BY <1>3, <1>6 DEF Charged, BillOK
<1>8. ASSUME NEW o \in Owner PROVE ChargeOK(o)'
  <2>1. PICK S, U : S = OwnedBy(o) /\ U = OwnedBy(o)' OBVIOUS
  <2>2. Charges(U)' = Charges(U) BY <1>4, ChargesSame DEF OpsKept
  <2>3. /\ IsFiniteSet(Charges(S)) /\ quotas[o].charged = Cardinality(Charges(S))
        /\ quotas[o].charged <= ByteLimit[Kind(o)]
    BY <2>1 DEF Charged, ChargeOK
  <2>4. p \in S <=> o = w BY <1>0, <1>3, <2>1 DEF OwnedBy
  <2>5. U = IF o = uid THEN S \cup T ELSE S \ T BY <1>1, <1>3, <1>6, <2>1 DEF OwnedBy, Change, Known
  <2>6. Cardinality(Charges(S)) \in Nat /\ Cardinality(Charges(T)) \in Nat
    BY <1>7, <2>3, FS_CardinalityType
  <2>7. CASE o = w
    <3>0. T \subseteq S /\ U = S \ T BY <1>1, <1>6, <2>4, <2>5, <2>7
    <3>1. Charges(U) = Charges(S) \ Charges(T) /\ Charges(T) \subseteq Charges(S)
      BY <3>0, ChargesSplit
    <3>2. Charges(S) \cap Charges(T) = Charges(T) BY <3>1
    <3>3. /\ IsFiniteSet(Charges(U))
          /\ Cardinality(Charges(U)) = Cardinality(Charges(S)) - Cardinality(Charges(T))
      BY <2>3, <3>1, <3>2, FS_Difference
    <3>4. ByteLimit[Kind(o)] \in Nat BY SizesAssumption DEF Kind
    <3>5. /\ quotas'[o].charged = Cardinality(Charges(U))
          /\ quotas'[o].charged <= ByteLimit[Kind(o)]
      BY <1>1, <1>7, <2>3, <2>6, <2>7, <3>3, <3>4
    <3> QED BY <2>1, <2>2, <3>3, <3>5 DEF ChargeOK
  <2>8. CASE o = uid
    <3>0. S \cap T = {} /\ U = S \cup T BY <1>1, <1>6, <2>4, <2>5, <2>8
    <3>1. Charges(U) = Charges(S) \cup Charges(T) /\ Charges(S) \cap Charges(T) = {}
      BY <3>0, ChargesSplit
    <3>2. /\ IsFiniteSet(Charges(U))
          /\ Cardinality(Charges(U)) = Cardinality(Charges(S)) + Cardinality(Charges(T))
      BY <1>7, <2>3, <3>1, SumOf
    <3>3. quotas'[o].charged = Cardinality(Charges(U)) BY <1>1, <1>7, <2>3, <2>8, <3>2
    <3> QED BY <1>1, <1>2, <2>1, <2>2, <2>8, <3>2, <3>3 DEF ChargeOK
  <2>9. CASE o \notin {w, uid}
    <3>1. U = S BY <1>6, <2>4, <2>5, <2>9
    <3>2. quotas'[o] = quotas[o] BY <1>1, <2>9
    <3> QED BY <2>1, <2>2, <2>3, <3>1, <3>2 DEF ChargeOK
  <2> QED BY <2>7, <2>8, <2>9
<1> QED BY <1>5, <1>8 DEF Charged

\* A reservation o of content d charges project p, which is w's, and with it w.
LEMMA ReserveCharged ==
  ASSUME Inv, Charged, NEW o \in OpId, NEW p \in Pid, NEW d \in Digest, NEW w \in Owner,
         ops[o] = None, ops'[o] # None, ops'[o].project = p, ops'[o].digest = d,
         \A i \in OpId \ {o} : ops'[i] = ops[i],
         \A q \in Pid \ {p} : projects'[q] = projects[q],
         Known(p)', projects'[p].owner = w,
         Known(p) => projects[p].owner = w,
         projects'[p].charged = VersionCharge(d) + (IF Known(p) THEN projects[p].charged ELSE 0),
         quotas'[w].charged = quotas[w].charged + VersionCharge(d),
         quotas'[w].charged <= ByteLimit[Kind(w)],
         \A v \in Owner \ {w} : quotas'[v].charged = quotas[v].charged
  PROVE  Charged'
<1>1. /\ IsFiniteSet(Bill(o, d)) /\ Cardinality(Bill(o, d)) = VersionCharge(d)
      /\ VersionCharge(d) \in Nat
  BY BillSize, ChargeType
<1>2. ASSUME NEW q \in Pid, Known(q)' PROVE BillOK(q)'
  <2>1. PICK S : S = {q} OBVIOUS
  <2>2. /\ Charges(S)' = IF p \in S THEN Charges(S) \cup Bill(o, d) ELSE Charges(S)
        /\ Charges(S) \cap Bill(o, d) = {}
    BY ChargesNew
  <2>3. CASE q # p
    <3>1. Known(q) /\ projects'[q] = projects[q] BY <1>2, <2>3 DEF Known
    <3> QED BY <2>1, <2>2, <2>3, <3>1 DEF Charged, BillOK
  <2>4. CASE q = p /\ Known(p)
    <3>1. IsFiniteSet(Charges(S)) /\ projects[p].charged = Cardinality(Charges(S))
      BY <2>1, <2>4 DEF Charged, BillOK
    <3>a. Charges(S)' = Charges(S) \cup Bill(o, d) BY <2>1, <2>2, <2>4
    <3>c. Charges(S) \cap Bill(o, d) = {} BY <2>2
    <3>b. /\ IsFiniteSet(Charges(S) \cup Bill(o, d))
          /\ Cardinality(Charges(S) \cup Bill(o, d)) =
               Cardinality(Charges(S)) + Cardinality(Bill(o, d))
      BY <1>1, <3>1, <3>c, SumOf
    <3>2. /\ IsFiniteSet(Charges(S)')
          /\ Cardinality(Charges(S)') = Cardinality(Charges(S)) + VersionCharge(d)
      BY <1>1, <3>a, <3>b
    <3>3. Cardinality(Charges(S)) \in Nat BY <3>1, FS_CardinalityType
    <3>4. projects'[p].charged = Cardinality(Charges(S)') BY <1>1, <2>4, <3>1, <3>2, <3>3
    <3> QED BY <2>1, <2>4, <3>2, <3>4 DEF BillOK
  <2>5. CASE q = p /\ ~Known(p)
    <3>1. ASSUME NEW u PROVE u \notin Charges(S)
      BY <2>1, <2>5, ChargesAre DEF Inv, OpsKnown
    <3>2. Charges(S)' = Bill(o, d) BY <2>1, <2>2, <2>5, <3>1
    <3>3. projects'[p].charged = VersionCharge(d) BY <1>1, <2>5
    <3> QED BY <1>1, <2>1, <2>5, <3>2, <3>3 DEF BillOK
  <2> QED BY <2>3, <2>4, <2>5
<1>3. ASSUME NEW v \in Owner PROVE ChargeOK(v)'
  <2>1. PICK S, U : S = OwnedBy(v) /\ U = OwnedBy(v)' OBVIOUS
  <2>2. /\ Charges(U)' = IF p \in U THEN Charges(U) \cup Bill(o, d) ELSE Charges(U)
        /\ Charges(U) \cap Bill(o, d) = {}
    BY ChargesNew
  <2>3. /\ IsFiniteSet(Charges(S)) /\ quotas[v].charged = Cardinality(Charges(S))
        /\ quotas[v].charged <= ByteLimit[Kind(v)]
    BY <2>1 DEF Charged, ChargeOK
  <2>4. /\ p \in U <=> v = w
        /\ \A q \in Pid : q # p => (q \in U <=> q \in S)
        /\ p \in S <=> Known(p) /\ v = w
        /\ U \subseteq Pid /\ S \subseteq Pid
    BY <2>1 DEF OwnedBy, Known
  <2>5. Charges(U) = Charges(S)
    <3>1. ASSUME NEW i \in OpId, ops[i] # None PROVE ops[i].project \in U <=> ops[i].project \in S
      <4>1. ops[i].project \in Pid /\ Known(ops[i].project)
        BY <3>1 DEF Inv, TypeOK, OpsKnown, Operation
      <4> QED BY <2>4, <4>1
    <3>2. ASSUME NEW u PROVE u \in Charges(U) <=> u \in Charges(S) BY <3>1, ChargesAre
    <3> QED BY <3>2
  <2>6. CASE v = w
    <3>1. /\ IsFiniteSet(Charges(U)')
          /\ Cardinality(Charges(U)') = Cardinality(Charges(S)) + VersionCharge(d)
      BY <1>1, <2>2, <2>3, <2>4, <2>5, <2>6, SumOf
    <3>2. quotas'[v].charged = Cardinality(Charges(U)') BY <2>3, <2>6, <3>1
    <3> QED BY <2>1, <2>6, <3>1, <3>2 DEF ChargeOK
  <2>7. CASE v # w BY <2>1, <2>2, <2>3, <2>4, <2>5, <2>7 DEF ChargeOK
  <2> QED BY <2>6, <2>7
<1> QED BY <1>2, <1>3 DEF Charged

\* Management operations that keep the owner.
LEMMA QuietCharged ==
  ASSUME Charged, NEW p \in Pid, Quiet(p), projects'[p].owner = projects[p].owner, Aside
  PROVE  Charged'
<1>1. Change(p) /\ projects'[p].charged = projects[p].charged /\ quotas' = quotas /\ ops' = ops
  BY DEF Quiet, Aside
<1> QED BY <1>1, ChangeCharged

\* abort gives back the count, never the bytes.
LEMMA ReleaseCharged ==
  ASSUME Inv, Charged, NEW o \in OpId, ops[o] # None, Release(o) PROVE Charged'
<1>0. PICK p, d, w : p = ops[o].project /\ d = ops[o].digest /\ w = projects[p].owner OBVIOUS
<1>1. /\ p \in Pid /\ Change(p) /\ Ended(o) /\ w \in Owner
      /\ projects'[p].owner = w /\ projects'[p].charged = projects[p].charged
      /\ ops[o].new => quotas' = Uncount(w)
      /\ ~ops[o].new => quotas' = quotas
  BY <1>0, ReleaseEffect
<1>2. \A v \in Owner : quotas'[v].charged = quotas[v].charged
  <2>1. CASE ops[o].new BY <1>1, <2>1, UncountIs
  <2>2. CASE ~ops[o].new BY <1>1, <2>2
  <2> QED BY <2>1, <2>2
<1> QED BY <1>0, <1>1, <1>2, ChangeCharged

\* Neither does deletion.
LEMMA BuryCharged ==
  ASSUME Inv, Charged, NEW p \in Pid, Known(p), projects[p].pending = None, Bury(p)
  PROVE  Charged'
<1>0. PICK w : w = projects[p].owner OBVIOUS
<1>1. /\ Change(p) /\ w \in Owner /\ projects'[p].owner = w /\ ops' = ops
      /\ projects'[p].charged = projects[p].charged /\ quotas' = Uncount(w)
  BY <1>0, BuryEffect
<1>2. \A v \in Owner : quotas'[v].charged = quotas[v].charged BY <1>1, UncountIs
<1> QED BY <1>0, <1>1, <1>2, ChangeCharged

\* Activation charges nothing: the bytes were charged with the reservation.
LEMMA ActivateCharged ==
  ASSUME Inv, Charged, NEW a \in Actor, NEW o \in OpId, NEW pw \in Password \cup {None},
         Activate(a, o, pw)
  PROVE  Charged'
<1>0. PICK p, d : p = ops[o].project /\ d = ops[o].digest OBVIOUS
<1>1. Activated(p, d, o) BY <1>0, ActivateEffect
<1>2. /\ p \in Pid /\ Change(p) /\ Ended(o) /\ projects'[p].owner = projects[p].owner
      /\ projects'[p].charged = projects[p].charged /\ quotas' = quotas
  BY <1>1 DEF Activated
<1> QED BY <1>2, ChangeCharged

\* A first reservation charges the new project.
LEMMA ReserveNewCharged ==
  ASSUME Inv, Charged, NEW o, NEW w, NEW d, ReservedNew(o, w, d) PROVE Charged'
<1>1. /\ o \in OpId /\ o \in Pid /\ d \in Digest /\ w \in Owner /\ ops[o] = None /\ ~Known(o)
      /\ ops'[o] # None /\ ops'[o].project = o /\ ops'[o].digest = d
      /\ \A i \in OpId \ {o} : ops'[i] = ops[i]
      /\ \A q \in Pid \ {o} : projects'[q] = projects[q]
      /\ Known(o)' /\ projects'[o].owner = w
      /\ projects'[o].charged = VersionCharge(d)
      /\ quotas'[w].charged = quotas[w].charged + VersionCharge(d)
      /\ quotas'[w].charged <= ByteLimit[Kind(w)]
      /\ \A v \in Owner \ {w} : quotas'[v].charged = quotas[v].charged
  BY DEF ReservedNew
<1>2. projects'[o].charged = VersionCharge(d) + (IF Known(o) THEN projects[o].charged ELSE 0)
  BY <1>1, ChargeType
<1> QED BY <1>1, <1>2, ReserveCharged

\* A later one charges the project it is for, and so that project's owner.
LEMMA ReserveNextCharged ==
  ASSUME Inv, Charged, NEW o, NEW p \in Pid, NEW d, ReservedNext(o, p, d) PROVE Charged'
<1>0. PICK w : w = projects[p].owner OBVIOUS
<1>1. /\ o \in OpId /\ d \in Digest /\ ops[o] = None /\ Change(p)
      /\ ops'[o] # None /\ ops'[o].project = p /\ ops'[o].digest = d
      /\ \A i \in OpId \ {o} : ops'[i] = ops[i]
      /\ projects'[p].owner = w
      /\ projects'[p].charged = projects[p].charged + VersionCharge(d)
      /\ \A v \in Owner : IF v = w
                          THEN /\ quotas'[v].charged = quotas[v].charged + VersionCharge(d)
                               /\ quotas'[v].charged <= ByteLimit[Kind(v)]
                          ELSE quotas'[v].charged = quotas[v].charged
  BY <1>0 DEF ReservedNext
<1>2. /\ Known(p) /\ Known(p)' /\ w \in Owner /\ projects[p].charged \in Nat
      /\ \A q \in Pid \ {p} : projects'[q] = projects[q]
  BY <1>0, <1>1 DEF Change, Project
<1>3. projects'[p].charged = VersionCharge(d) + (IF Known(p) THEN projects[p].charged ELSE 0)
  BY <1>1, <1>2, ChargeType
<1>4. /\ quotas'[w].charged = quotas[w].charged + VersionCharge(d)
      /\ quotas'[w].charged <= ByteLimit[Kind(w)]
      /\ \A v \in Owner \ {w} : quotas'[v].charged = quotas[v].charged
  BY <1>1, <1>2
<1> QED BY <1>0, <1>1, <1>2, <1>3, <1>4, ReserveCharged

\* The deadline of an operation.
LEMMA OperationDeadlineCharged ==
  ASSUME Inv, Charged, NEW o \in OpId, OperationDeadline(o) PROVE Charged'
<1>1. ops[o] \in Operation BY DEF OperationDeadline, Inv, TypeOK
<1> DEFINE r == [ops[o] EXCEPT !.state = "overdue"]
<1>2. r \in Operation /\ r.project = ops[o].project /\ r.digest = ops[o].digest
  BY <1>1 DEF Operation
<1>3. ops' = [ops EXCEPT ![o] = r] /\ ops[o] # None /\ UNCHANGED <<projects, quotas>>
  BY DEF OperationDeadline
<1> HIDE DEF r
<1>4. OpsKept BY <1>2, <1>3, NoneAssumption DEF OpsKept, Inv, TypeOK
<1> QED BY <1>3, <1>4, StillCharged

\* Every step.
LEMMA NextCharged == ASSUME Inv, Charged, [Next]_vars PROVE Charged'
<1>1. CASE \E o \in OpId : AbortExpired(o) BY <1>1, ReleaseCharged DEF AbortExpired
<1>2. CASE \E p \in Pid : ExpireProject(p) BY <1>2, BuryCharged DEF ExpireProject
<1>3. CASE \E o \in OpId : OperationDeadline(o) BY <1>3, OperationDeadlineCharged
<1>4. CASE \E p \in Pid : ProjectDeadline(p) BY <1>4, ProjectDeadlineEffect, QuietCharged
<1>5. CASE \E p \in Pid : TransferDeadline(p) BY <1>5, StillCharged DEF TransferDeadline, OpsKept
<1>6. CASE \E a \in Actor : Publish(a)
  <2>0. PICK a \in Actor : Publish(a) BY <1>6
  <2>1. CASE \E k \in Key, d \in Digest, name \in Name : ReserveNew(a, k, name, d)
    <3>1. PICK k \in Key, d \in Digest, name \in Name : ReserveNew(a, k, name, d) BY <2>1
    <3>2. PICK o, w : o = <<OwnerOf(a), k>> /\ w = OwnerOf(a) OBVIOUS
    <3>3. ReservedNew(o, w, d) BY <3>1, <3>2, ReserveNewEffect
    <3> QED BY <3>3, ReserveNewCharged
  <2>2. CASE \E k \in Key, d \in Digest, p \in Pid : ReserveUpdate(a, k, p, d)
    <3>1. PICK k \in Key, d \in Digest, p \in Pid : ReserveUpdate(a, k, p, d) BY <2>2
    <3>0. PICK o : o = <<OwnerOf(a), k>> OBVIOUS
    <3>2. ReservedNext(o, p, d) BY <3>0, <3>1, ReserveUpdateEffect
    <3> QED BY <3>2, ReserveNextCharged
  <2>3. CASE \E o \in OpId : Activate(a, o, None) BY <2>3, ActivateCharged
  <2>4. CASE \E o \in OpId : Abort(a, o) BY <2>4, ReleaseCharged DEF Abort, Pending
  <2>5. CASE \E o \in OpId : /\ ops[o] # None
                             /\ \E pw \in NextPasswords(ops[o].project) : Activate(a, o, pw)
    <3>1. PICK o \in OpId : /\ ops[o] # None
                            /\ \E pw \in NextPasswords(ops[o].project) : Activate(a, o, pw)
      BY <2>5
    <3>2. PICK pw \in NextPasswords(ops[o].project) : Activate(a, o, pw) BY <3>1
    <3>3. ops[o].project \in Pid /\ Known(ops[o].project)
      BY <3>1 DEF Inv, OpsKnown, TypeOK, Operation
    <3>4. pw \in Password BY <3>3, NextPasswordsType DEF Inv
    <3> QED BY <3>2, <3>4, ActivateCharged
  <2> QED BY <2>0, <2>1, <2>2, <2>3, <2>4, <2>5 DEF Publish
<1>7. CASE \E a \in Actor : Manage(a)
  <2>0. PICK a \in Actor : Manage(a) BY <1>7
  <2>1. PICK p \in Pid :
          \/ Claim(a, p) \/ CreateTransfer(a, p) \/ RevokeTransfer(a, p) \/ RedeemTransfer(a, p)
          \/ Tombstone(a, p)
          \/ \E name \in Name : Rename(a, p, name)
          \/ \E enabled \in BOOLEAN : SetWatermark(a, p, enabled)
          \/ \E o \in OpId : SelectRevision(a, p, o) \/ RemoveRevision(a, p, o)
          \/ SetPrivacy(a, p, None)
          \/ Known(p) /\ \E pw \in NextPasswords(p) : SetPrivacy(a, p, pw)
    BY <2>0 DEF Manage
  <2>a. a.uid # None => a.uid \in Account BY IdentitiesAssumption
  <2>2. CASE Claim(a, p) \/ RedeemTransfer(a, p)
    <3>1. /\ a.uid # None /\ Live(p) /\ projects[p].owner \in Anonymous /\ MoveToAccount(p, a.uid)
      BY <2>2 DEF Claim, RedeemTransfer, Editable
    <3> QED BY <2>a, <3>1, MoveCharged
  <2>3. CASE CreateTransfer(a, p) \/ RevokeTransfer(a, p)
    BY <2>3, StillCharged DEF CreateTransfer, RevokeTransfer, OpsKept
  <2>4. CASE Tombstone(a, p) BY <2>4, BuryCharged DEF Tombstone
  <2>5. CASE \E name \in Name : Rename(a, p, name) BY <2>5, RenameEffect, QuietCharged
  <2>6. CASE \E enabled \in BOOLEAN : SetWatermark(a, p, enabled)
    BY <2>6, SetWatermarkEffect, QuietCharged
  <2>7. CASE \E o \in OpId : SelectRevision(a, p, o)
    <3>1. PICK o \in OpId : SelectRevision(a, p, o) BY <2>7
    <3>2. PICK d : d = ops[o].digest OBVIOUS
    <3>3. /\ Change(p) /\ projects'[p].owner = projects[p].owner /\ quotas' = quotas
          /\ projects'[p].charged = projects[p].charged /\ ops' = ops
      BY <3>1, <3>2, SelectRevisionEffect
    <3> QED BY <3>3, ChangeCharged
  <2>8. CASE \E o \in OpId : RemoveRevision(a, p, o) BY <2>8, RemoveRevisionEffect, QuietCharged
  <2>9. CASE SetPrivacy(a, p, None) BY <2>9, SetPrivacyEffect, QuietCharged
  <2>10. CASE Known(p) /\ \E pw \in NextPasswords(p) : SetPrivacy(a, p, pw)
    <3>1. PICK pw \in NextPasswords(p) : SetPrivacy(a, p, pw) BY <2>10
    <3>2. pw \in Password BY <2>10, NextPasswordsType DEF Inv
    <3> QED BY <3>1, <3>2, SetPrivacyEffect, QuietCharged
  <2> QED BY <2>1, <2>2, <2>3, <2>4, <2>5, <2>6, <2>7, <2>8, <2>9, <2>10
<1>8. CASE UNCHANGED vars BY <1>8, StillCharged DEF vars, OpsKept
<1> QED BY <1>1, <1>2, <1>3, <1>4, <1>5, <1>6, <1>7, <1>8 DEF Next, Maintain, Clock

\* Every charge is exact in every reachable state.
LEMMA ChargedInvariance == Spec => [](Inv /\ Charged)
<1>1. Init => Charged
  <2> SUFFICES ASSUME Init PROVE Charged OBVIOUS
  <2>1. \A p \in Pid : ~Known(p) BY DEF Init, Known
  <2>2. ASSUME NEW o \in Owner PROVE ChargeOK(o)
    <3>1. Charges(OwnedBy(o)) = {} BY DEF Charges, Init
    <3>2. quotas[o].charged = 0 /\ ByteLimit[Kind(o)] \in Nat BY SizesAssumption DEF Init, Kind
    <3> QED BY <3>1, <3>2, FS_EmptySet DEF ChargeOK
  <2> QED BY <2>1, <2>2 DEF Charged
<1>2. Inv /\ Charged /\ [Next]_vars => Charged' BY NextCharged
<1> QED BY <1>1, <1>2, InitInv, NextInv, PTL DEF Spec

\* The quotas are exact: the count as in CountsStayExact, and the bytes an owner
\* is charged are those of the operations of its projects, each charged once when
\* it is reserved, never refunded by an abort or a deletion, taken along by a
\* claim or a redeemed link, and within the owner's limit.
THEOREM QuotasStayExact == Spec => []QuotasExact
<1>1. Inv /\ Charged => ChargesExact BY DEF Charged, ChargeOK, ChargesExact
<1> QED BY <1>1, ChargedInvariance, CountsStayExact, PTL DEF QuotasExact

-----------------------------------------------------------------------------
(* Upload links *)

Link     == [site : Links!Site, rev : Nat, secret : BOOLEAN, life : {"open", "expired", "gone"},
             lease : Server \cup {None}, held : BOOLEAN, result : Links!Receipts \cup {None}]
Put      == [pc : {"leased", "staged", "reserved", "installed", "release"}, ticket : Links!Ticket,
             body : Body, private : BOOLEAN]

Made == 1..Len(tickets)

Shape ==
    /\ tickets \in Seq(Link) /\ Len(tickets) <= MaxTicket
    /\ sites \in [Links!Site -> Links!SiteRec \cup {None}] /\ uploads \in [Links!Ticket -> Links!Upload \cup {None}]
    /\ puts \in [Server -> Put \cup {Links!Idle}]
    /\ DOMAIN published = Links!Ticket

\* A ticket's receipt is its one publication, as the ticket promised it.
LinkKept(t) ==
    LET k == tickets[t] IN
    /\ k.site # 0 => k.rev = 0
    /\ published[t] = IF k.result = None THEN <<>> ELSE <<k.result>>
    /\ k.result # None =>
        k.result.rev = k.rev + 1 /\ k.result.private = k.secret /\ k.result.site = k.site

\* Nothing is known of tickets that are not made yet.
Unmade == \A t \in Links!Ticket \ Made : published[t] = <<>> /\ uploads[t] = None

\* An operation is of a project there is, based on the revision of its ticket.
UploadsBased ==
    \A t \in Made : uploads[t] # None =>
        uploads[t].base = tickets[t].rev /\ sites[tickets[t].site] \in Links!SiteRec

\* A request has a ticket's terms; past Reserve, the operation's body; past Install, on the volume.
PutKept(r) ==
    LET t == puts[r].ticket IN
    /\ t \in Made /\ puts[r].private = tickets[t].secret
    /\ puts[r].pc \in {"reserved", "installed"} => uploads[t] # None /\ uploads[t].body = puts[r].body
    /\ puts[r].pc = "installed" => <<tickets[t].site, puts[r].body>> \in installed

SitesHeld == \A s \in Links!Site : Links!Live(s) => <<s, sites[s].body>> \in installed

TicketInv ==
    /\ Shape /\ (\A t \in Made : LinkKept(t)) /\ Unmade /\ UploadsBased
    /\ \A r \in Server : puts[r] # Links!Idle => PutKept(r)
    /\ SitesHeld

-----------------------------------------------------------------------------
(* The shape of the state *)

\* Tickets are numbered, sites too, and a request in progress is no Idle one.
LEMMA Numbers ==
  ASSUME Links!LinksAssumption, Shape
  PROVE  /\ Len(tickets) \in Nat /\ Made \subseteq Links!Ticket /\ DOMAIN tickets = Made
         /\ \A t \in Made : tickets[t] \in Link /\ tickets[t].site \in Links!Site
         /\ 0 \in Links!Site /\ Links!Ticket \subseteq Links!Site
<1>1. /\ Len(tickets) \in Nat /\ DOMAIN tickets = 1..Len(tickets)
      /\ \A t \in 1..Len(tickets) : tickets[t] \in Link
  BY DEF Shape
<1>2. \A t \in 1..Len(tickets) : tickets[t].site \in Links!Site BY <1>1 DEF Link
<1>3. 0 \in Links!Site /\ Links!Ticket \subseteq Links!Site
  BY DEF Links!Ticket, Links!Site, Links!LinksAssumption
<1>4. Made \subseteq Links!Ticket BY <1>1 DEF Made, Links!Ticket, Links!LinksAssumption, Shape
<1> QED BY <1>1, <1>2, <1>3, <1>4 DEF Made

\* A request at a step other than "idle" is a request in progress.
LEMMA InProgress ==
  ASSUME Shape, NEW r \in Server, puts[r].pc # "idle"
  PROVE  puts[r] \in Put /\ puts[r] # Links!Idle
<1>1. Links!Idle.pc = "idle" BY DEF Links!Idle
<1> QED BY <1>1 DEF Shape

\* Requests in progress are no Idle ones.
LEMMA PutNotIdle == \A p \in Put : p # Links!Idle
<1>1. Links!Idle.pc = "idle" BY DEF Links!Idle
<1> QED BY <1>1 DEF Put

-----------------------------------------------------------------------------
(* What most steps leave alone *)

\* No ticket is made or used up: its terms, the operations' bodies and bases and the
\* versions on the volume stay, and requests go on as PutKept allows.
LEMMA QuietInv ==
  ASSUME Links!LinksAssumption, TicketInv, Shape', Len(tickets') = Len(tickets),
         \A t \in Made : /\ tickets'[t].site = tickets[t].site /\ tickets'[t].rev = tickets[t].rev
                         /\ tickets'[t].secret = tickets[t].secret
                         /\ tickets'[t].result = tickets[t].result,
         published' = published,
         \A t \in Links!Ticket : uploads[t] # None =>
            /\ uploads'[t] # None /\ uploads'[t].body = uploads[t].body
            /\ uploads'[t].base = uploads[t].base,
         \A t \in Links!Ticket : uploads[t] = None /\ uploads'[t] # None =>
            t \in Made /\ uploads'[t].base = tickets[t].rev /\ sites'[tickets[t].site] \in Links!SiteRec,
         \A s \in Links!Site : sites[s] \in Links!SiteRec => sites'[s] \in Links!SiteRec,
         installed \subseteq installed',
         SitesHeld',
         \A r \in Server : puts'[r] # Links!Idle => puts'[r] = puts[r] \/ PutKept(r)'
  PROVE  TicketInv'
<1>1. Made' = Made /\ Made \subseteq Links!Ticket BY Numbers DEF Made, TicketInv
<1>2. \A t \in Made : LinkKept(t)' BY <1>1 DEF TicketInv, LinkKept
<1>3. Unmade' BY <1>1 DEF TicketInv, Unmade
<1>4. UploadsBased' BY <1>1, Numbers DEF TicketInv, UploadsBased
<1>5. \A r \in Server : puts'[r] # Links!Idle => PutKept(r)'
  <2> SUFFICES ASSUME NEW r \in Server, puts'[r] # Links!Idle, puts'[r] = puts[r] PROVE PutKept(r)'
    OBVIOUS
  <2>1. PutKept(r) BY DEF TicketInv
  <2> QED BY <1>1, <2>1 DEF PutKept
<1> QED BY <1>1, <1>2, <1>3, <1>4, <1>5 DEF TicketInv

\* The same where sites and volume stay as they are.
LEMMA SameSites == ASSUME TicketInv, UNCHANGED <<sites, installed>> PROVE SitesHeld'
BY DEF TicketInv, SitesHeld, Links!Live

\* A ticket whose terms and receipt stay.
LEMMA SameTerms ==
  ASSUME Links!LinksAssumption, Shape, NEW t \in Made, NEW k \in Link,
         k.site = tickets[t].site, k.rev = tickets[t].rev, k.secret = tickets[t].secret,
         k.result = tickets[t].result, tickets' = [tickets EXCEPT ![t] = k]
  PROVE  /\ tickets' \in Seq(Link) /\ Len(tickets') = Len(tickets)
         /\ \A x \in Made : /\ tickets'[x].site = tickets[x].site /\ tickets'[x].rev = tickets[x].rev
                            /\ tickets'[x].secret = tickets[x].secret
                            /\ tickets'[x].result = tickets[x].result
<1> DEFINE T == Link
<1>1. tickets \in Seq(T) /\ t \in 1..Len(tickets) /\ k \in T BY DEF Shape, Made
<1> HIDE DEF T
<1>2. /\ tickets' \in Seq(T) /\ Len(tickets') = Len(tickets)
      /\ \A x \in 1..Len(tickets) : tickets'[x] = IF x = t THEN k ELSE tickets[x]
  BY <1>1, ExceptSeq
<1> QED BY <1>2 DEF T, Made

\* A request goes on: the others are as they were.
LEMMA PutStep ==
  ASSUME Shape, NEW r \in Server, NEW p \in Put \cup {Links!Idle}, puts' = [puts EXCEPT ![r] = p]
  PROVE  /\ puts' \in [Server -> Put \cup {Links!Idle}] /\ puts'[r] = p
         /\ \A x \in Server : x # r => puts'[x] = puts[x]
BY DEF Shape

\* Goes changes the step alone.
LEMMA GoesStep ==
  ASSUME Shape, NEW r \in Server, NEW pc \in {"staged", "reserved", "installed", "release"},
         puts[r] \in Put, Links!Goes(r, pc)
  PROVE  /\ puts' \in [Server -> Put \cup {Links!Idle}]
         /\ \A x \in Server : x # r => puts'[x] = puts[x]
         /\ puts'[r] \in Put /\ puts'[r].pc = pc /\ puts'[r].ticket = puts[r].ticket
         /\ puts'[r].body = puts[r].body /\ puts'[r].private = puts[r].private
<1> DEFINE p == [puts[r] EXCEPT !.pc = pc]
<1>1. /\ p \in Put /\ p.pc = pc /\ p.ticket = puts[r].ticket
      /\ p.body = puts[r].body /\ p.private = puts[r].private
  BY DEF Put
<1>2. puts' = [puts EXCEPT ![r] = p] BY DEF Links!Goes, Shape
<1> HIDE DEF p
<1> QED BY <1>1, <1>2, PutStep

-----------------------------------------------------------------------------
(* The steps of a request *)

\* The lease is the ticket's; the request has the ticket's terms.
LEMMA TakeLeaseInv ==
  ASSUME Links!LinksAssumption, TicketInv, NEW r \in Server, NEW t \in Links!Ticket, NEW b \in Body,
         Links!TakeLease(r, t, b)
  PROVE  TicketInv'
<1>1. t \in Made /\ tickets[t] \in Link BY Numbers DEF Links!TakeLease, TicketInv
<1> DEFINE k == [tickets[t] EXCEPT !.lease = r, !.held = TRUE]
<1>2. /\ k \in Link /\ k.site = tickets[t].site /\ k.rev = tickets[t].rev
      /\ k.secret = tickets[t].secret /\ k.result = tickets[t].result
  BY <1>1 DEF Link
<1>3. tickets' = [tickets EXCEPT ![t] = k] BY <1>1 DEF Links!TakeLease, TicketInv, Shape
<1> HIDE DEF k
<1>4. /\ tickets' \in Seq(Link) /\ Len(tickets') = Len(tickets)
      /\ \A x \in Made : /\ tickets'[x].site = tickets[x].site /\ tickets'[x].rev = tickets[x].rev
                         /\ tickets'[x].secret = tickets[x].secret
                         /\ tickets'[x].result = tickets[x].result
  BY <1>1, <1>2, <1>3, SameTerms DEF TicketInv
<1>5. UNCHANGED <<sites, uploads, installed, published>> BY DEF Links!TakeLease
<1> DEFINE p == [pc |-> "leased", ticket |-> t, body |-> b, private |-> tickets[t].secret]
<1>6. p \in Put /\ p.pc = "leased" /\ p.ticket = t /\ p.private = tickets[t].secret
  BY <1>1 DEF Put, Link
<1>7. puts' = [puts EXCEPT ![r] = p] \/ puts' = puts BY DEF Links!TakeLease
<1> HIDE DEF p
<1>8. /\ puts' \in [Server -> Put \cup {Links!Idle}]
      /\ \A x \in Server : puts'[x] = puts[x] \/ (x = r /\ puts'[x] = p)
  BY <1>6, <1>7 DEF TicketInv, Shape
<1>9. Shape' BY <1>4, <1>5, <1>8 DEF TicketInv, Shape
<1>10. \A x \in Server : puts'[x] # Links!Idle => puts'[x] = puts[x] \/ PutKept(x)'
  <2> SUFFICES ASSUME NEW x \in Server, puts'[x] = p PROVE PutKept(x)' BY <1>8
  <2>1. t \in Made' /\ tickets'[t].secret = tickets[t].secret BY <1>1, <1>4 DEF Made
  <2> QED BY <1>6, <2>1 DEF PutKept
<1>11. SitesHeld' BY <1>5, SameSites
<1> QED BY <1>4, <1>5, <1>9, <1>10, <1>11, QuietInv

\* A request goes on, or ends, and changes nothing else.
LEMMA GoesInv ==
  ASSUME Links!LinksAssumption, TicketInv, NEW r \in Server, puts' \in [Server -> Put \cup {Links!Idle}],
         \A x \in Server : x # r => puts'[x] = puts[x],
         puts'[r] # Links!Idle => PutKept(r)',
         UNCHANGED <<tickets, sites, uploads, installed, published>>
  PROVE  TicketInv'
<1>1. Shape' BY DEF TicketInv, Shape
<1>2. SitesHeld' BY SameSites
<1> QED BY <1>1, <1>2, QuietInv

\* A request whose next step asks nothing of the operation.
LEMMA EarlyPut ==
  ASSUME TicketInv, NEW r \in Server, puts[r] # Links!Idle, Made' = Made,
         puts'[r].pc \notin {"reserved", "installed"},
         puts'[r].ticket = puts[r].ticket, puts'[r].private = puts[r].private,
         \A t \in Made : tickets'[t].secret = tickets[t].secret
  PROVE  PutKept(r)'
BY DEF TicketInv, PutKept

\* The target is looked at.
LEMMA InspectInv == ASSUME Links!LinksAssumption, TicketInv, NEW r \in Server, Links!Inspect(r) PROVE TicketInv'
<1>1. puts[r] \in Put /\ puts[r] # Links!Idle BY InProgress DEF TicketInv, Links!Inspect
<1>2. UNCHANGED <<tickets, sites, uploads, installed, published>> BY DEF Links!Inspect
<1>3. Made' = Made BY <1>2 DEF Made
<1>4. /\ puts' \in [Server -> Put \cup {Links!Idle}] /\ \A x \in Server : x # r => puts'[x] = puts[x]
      /\ puts'[r].pc = "staged" /\ puts'[r].ticket = puts[r].ticket /\ puts'[r].private = puts[r].private
  BY <1>1, GoesStep DEF Links!Inspect, TicketInv
<1>5. PutKept(r)' BY <1>1, <1>2, <1>3, <1>4, EarlyPut
<1> QED BY <1>2, <1>4, <1>5, GoesInv

\* The request fails.
LEMMA FailsInv == ASSUME Links!LinksAssumption, TicketInv, NEW r \in Server, Links!Fails(r) PROVE TicketInv'
<1>1. puts[r] \in Put /\ puts[r] # Links!Idle BY InProgress DEF TicketInv, Links!Fails
<1>2. UNCHANGED <<tickets, sites, uploads, installed, published>> BY DEF Links!Fails
<1>3. Made' = Made BY <1>2 DEF Made
<1>4. /\ puts' \in [Server -> Put \cup {Links!Idle}] /\ \A x \in Server : x # r => puts'[x] = puts[x]
      /\ puts'[r].pc = "release" /\ puts'[r].ticket = puts[r].ticket /\ puts'[r].private = puts[r].private
  BY <1>1, GoesStep DEF Links!Fails, TicketInv
<1>5. PutKept(r)' BY <1>1, <1>2, <1>3, <1>4, EarlyPut
<1> QED BY <1>2, <1>4, <1>5, GoesInv

\* The process stops; what it stored stays.
LEMMA CrashInv == ASSUME Links!LinksAssumption, TicketInv, NEW r \in Server, Links!Crash(r) PROVE TicketInv'
<1>1. UNCHANGED <<tickets, sites, uploads, installed, published>> BY DEF Links!Crash
<1>2. /\ puts' \in [Server -> Put \cup {Links!Idle}] /\ puts'[r] = Links!Idle
      /\ \A x \in Server : x # r => puts'[x] = puts[x]
  BY PutStep DEF Links!Crash, TicketInv
<1> QED BY <1>1, <1>2, GoesInv

\* The version is on the volume before the request goes on to Activate.
LEMMA InstallInv == ASSUME Links!LinksAssumption, TicketInv, NEW r \in Server, Links!Install(r) PROVE TicketInv'
<1>1. puts[r] \in Put /\ puts[r] # Links!Idle /\ PutKept(r) /\ puts[r].pc = "reserved"
  BY InProgress DEF TicketInv, Links!Install
<1>2. /\ UNCHANGED <<tickets, sites, uploads, published>>
      /\ installed' = installed \cup {<<tickets[puts[r].ticket].site, puts[r].body>>}
  BY DEF Links!Install
<1>3. Made' = Made BY <1>2 DEF Made
<1>4. /\ puts' \in [Server -> Put \cup {Links!Idle}] /\ \A x \in Server : x # r => puts'[x] = puts[x]
      /\ puts'[r].pc = "installed" /\ puts'[r].ticket = puts[r].ticket
      /\ puts'[r].private = puts[r].private /\ puts'[r].body = puts[r].body
  BY <1>1, GoesStep DEF Links!Install, TicketInv
<1>5. PutKept(r)' BY <1>1, <1>2, <1>3, <1>4 DEF PutKept
<1>6. Shape' BY <1>2, <1>4 DEF TicketInv, Shape
<1>7. SitesHeld' BY <1>2 DEF TicketInv, SitesHeld, Links!Live
<1> QED BY <1>2, <1>4, <1>5, <1>6, <1>7, QuietInv

\* The operation of an earlier request is found, or a new one is based on what the
\* ticket saw; either way the request goes on with the operation's body.
LEMMA ReserveInv == ASSUME Links!LinksAssumption, TicketInv, NEW r \in Server, Links!Reserve(r) PROVE TicketInv'
<1>1. puts[r] \in Put /\ puts[r] # Links!Idle /\ PutKept(r) /\ puts[r].body \in Body
  BY InProgress DEF TicketInv, Links!Reserve, Put
<1>2. PICK t \in Made : t = puts[r].ticket /\ tickets[t] \in Link /\ t \in Links!Ticket /\ tickets[t].site \in Links!Site
  BY <1>1, Numbers DEF PutKept, TicketInv
<1>3. PICK b \in Body : b = puts[r].body BY <1>1
<1>4. UNCHANGED <<tickets, installed, published>> BY DEF Links!Reserve
<1>5. Made' = Made BY <1>4 DEF Made
<1>6. /\ puts' \in [Server -> Put \cup {Links!Idle}] /\ \A x \in Server : x # r => puts'[x] = puts[x]
      /\ puts'[r].ticket = t /\ puts'[r].private = puts[r].private /\ puts'[r].body = b
      /\ puts'[r].pc \in {"reserved", "release"}
  <2>1. PICK pc \in {"staged", "reserved", "installed", "release"} :
          Links!Goes(r, pc) /\ pc \in {"reserved", "release"}
    BY DEF Links!Reserve
  <2> QED BY <1>1, <1>2, <1>3, <2>1, GoesStep DEF TicketInv
<1>7. CASE Links!Resumes(t, b)
  <2>1. UNCHANGED <<sites, uploads>> /\ uploads[t] # None /\ uploads[t].body = b
    BY <1>7 DEF Links!Resumes, Links!SameRequest
  <2>2. PutKept(r)' BY <1>1, <1>2, <1>4, <1>5, <1>6, <2>1 DEF PutKept
  <2> QED BY <1>4, <1>6, <2>1, <2>2, GoesInv
<1>8. CASE Links!Reserves(t, b)
  <2>1. /\ uploads[t] = None
        /\ uploads' = [uploads EXCEPT ![t] = [state |-> "pending", body |-> b,
                                              base |-> sites'[tickets[t].site].rev, overdue |-> FALSE]]
    BY <1>8 DEF Links!Reserves
  <2>2. /\ sites' \in [Links!Site -> Links!SiteRec \cup {None}]
        /\ sites'[tickets[t].site].rev = tickets[t].rev /\ tickets[t].rev \in Nat
        /\ \A s \in Links!Site : Links!Live(s)' => Links!Live(s) /\ sites'[s].body = sites[s].body
        /\ sites'[tickets[t].site] \in Links!SiteRec
        /\ \A s \in Links!Site : sites[s] \in Links!SiteRec => sites'[s] \in Links!SiteRec
    <3>1. tickets[t].rev \in Nat BY <1>2 DEF Link
    <3>2. CASE tickets[t].site = 0
      <4>1. Links!AsSeen(t) /\ sites' = [sites EXCEPT ![0].pending = t] BY <1>8, <3>2 DEF Links!Reserves
      <4>2. sites[0] \in Links!SiteRec /\ sites[0].rev = tickets[t].rev /\ 0 \in Links!Site
        BY <4>1, Numbers DEF Links!AsSeen, Links!Live, TicketInv, Shape
      <4> DEFINE v == [sites[0] EXCEPT !.pending = t]
      <4>3. v \in Links!SiteRec /\ v.rev = sites[0].rev /\ v.body = sites[0].body /\ v.status = sites[0].status
        BY <1>2, <4>2 DEF Links!SiteRec
      <4>4. sites' = [sites EXCEPT ![0] = v] BY <4>1, <4>2 DEF TicketInv, Shape
      <4> HIDE DEF v
      <4>5. sites'[0] = v /\ \A s \in Links!Site : s # 0 => sites'[s] = sites[s] BY <4>2, <4>4 DEF TicketInv, Shape
      <4>6. \A s \in Links!Site : Links!Live(s)' => Links!Live(s) /\ sites'[s].body = sites[s].body
        BY <4>1, <4>3, <4>5 DEF Links!Live, Links!AsSeen
      <4> QED BY <3>1, <3>2, <4>2, <4>3, <4>4, <4>5, <4>6 DEF TicketInv, Shape
    <3>3. CASE tickets[t].site # 0
      <4> DEFINE v == [status |-> "reserved", rev |-> 0, pending |-> t, body |-> None]
      <4>1. sites' = [sites EXCEPT ![tickets[t].site] = v] BY <1>8, <3>3 DEF Links!Reserves
      <4>2. v \in Links!SiteRec /\ v.rev = 0 /\ v.status = "reserved" BY <1>2 DEF Links!SiteRec
      <4> HIDE DEF v
      <4>3. /\ sites' \in [Links!Site -> Links!SiteRec \cup {None}] /\ sites'[tickets[t].site] = v
            /\ \A s \in Links!Site : s # tickets[t].site => sites'[s] = sites[s]
        BY <1>2, <4>1, <4>2 DEF TicketInv, Shape
      <4>4. tickets[t].rev = 0 BY <1>2, <3>3 DEF TicketInv, LinkKept
      <4> QED BY <3>1, <4>2, <4>3, <4>4 DEF Links!Live
    <3> QED BY <3>2, <3>3
  <2> DEFINE u == [state |-> "pending", body |-> b, base |-> tickets[t].rev, overdue |-> FALSE]
  <2>3. uploads' = [uploads EXCEPT ![t] = u] BY <2>1, <2>2
  <2>4. u \in Links!Upload /\ u # None /\ u.body = b /\ u.base = tickets[t].rev
    <3>1. u \in Links!Upload BY <2>2 DEF Links!Upload
    <3>2. u # None BY <3>1 DEF Links!LinksAssumption
    <3> QED BY <3>1, <3>2
  <2> HIDE DEF u
  <2>5. /\ uploads' \in [Links!Ticket -> Links!Upload \cup {None}] /\ uploads'[t] = u
        /\ \A x \in Links!Ticket : x # t => uploads'[x] = uploads[x]
    BY <1>2, <2>3, <2>4 DEF TicketInv, Shape
  <2>6. Shape' BY <1>4, <1>6, <2>2, <2>5 DEF TicketInv, Shape
  <2>7. PutKept(r)' BY <1>1, <1>2, <1>4, <1>5, <1>6, <2>4, <2>5 DEF PutKept
  <2>8. SitesHeld' BY <1>4, <2>2 DEF TicketInv, SitesHeld
  <2> QED BY <1>2, <1>4, <1>6, <2>1, <2>2, <2>4, <2>5, <2>6, <2>7, <2>8, QuietInv
<1>9. Links!Resumes(t, b) \/ Links!Reserves(t, b) BY <1>2, <1>3 DEF Links!Reserve
<1> QED BY <1>7, <1>8, <1>9

\* The ticket's one publication: what it was made for, and installed.
LEMMA LinkActivateInv == ASSUME Links!LinksAssumption, TicketInv, NEW r \in Server, Links!Activate(r) PROVE TicketInv'
<1>1. puts[r] \in Put /\ puts[r] # Links!Idle /\ PutKept(r) /\ puts[r].pc = "installed"
  BY InProgress DEF TicketInv, Links!Activate
<1>2. PICK t \in Made : /\ t = puts[r].ticket /\ tickets[t] \in Link /\ t \in Links!Ticket
                        /\ tickets[t].site \in Links!Site
  BY <1>1, Numbers DEF PutKept, TicketInv
<1>3. PICK s \in Links!Site : s = tickets[t].site BY <1>2
<1>4. /\ tickets[t].result = None /\ tickets[t].life = "open" /\ Links!Current(t)
  BY <1>2 DEF Links!Activate, Links!Authorized
<1>5. /\ uploads[t] \in Links!Upload /\ uploads[t].body = puts[r].body /\ uploads[t].base = tickets[t].rev
      /\ <<s, uploads[t].body>> \in installed
  BY <1>1, <1>2, <1>3 DEF PutKept, TicketInv, Shape, UploadsBased
<1>6. sites[s].rev = tickets[t].rev /\ tickets[t].rev \in Nat
  BY <1>2, <1>3, <1>4, <1>5 DEF Links!Current, Link
<1> DEFINE p == [site |-> s, rev |-> sites[s].rev + 1, body |-> uploads[t].body,
                 private |-> puts[r].private]
<1>7. /\ p \in Links!Receipts /\ p # None /\ p.site = s /\ p.rev = tickets[t].rev + 1
      /\ p.private = tickets[t].secret /\ p.body = uploads[t].body
  BY <1>1, <1>2, <1>5, <1>6 DEF Links!Receipts, Links!LinksAssumption, PutKept, Put, Links!Upload
<1>8. /\ sites' = [sites EXCEPT ![s] = [status |-> "active", rev |-> p.rev, pending |-> None, body |-> p.body]]
      /\ uploads' = [uploads EXCEPT ![t].state = "complete"]
      /\ tickets' = [tickets EXCEPT ![t].result = p, ![t].lease = None, ![t].held = FALSE]
      /\ published' = [published EXCEPT ![t] = Append(published[t], p)]
      /\ installed' = installed /\ Links!Goes(r, "release")
  BY <1>2, <1>3 DEF Links!Activate, Links!Receipt
<1> HIDE DEF p
<1>9. /\ tickets' \in Seq(Link) /\ Len(tickets') = Len(tickets)
      /\ \A x \in Made : x # t => tickets'[x] = tickets[x]
      /\ tickets'[t].site = s /\ tickets'[t].rev = tickets[t].rev
      /\ tickets'[t].secret = tickets[t].secret /\ tickets'[t].result = p
  <2> DEFINE k == [tickets[t] EXCEPT !.result = p, !.lease = None, !.held = FALSE]
             T == Link
  <2>1. /\ k \in T /\ k.site = s /\ k.rev = tickets[t].rev /\ k.secret = tickets[t].secret /\ k.result = p
    BY <1>2, <1>3, <1>7 DEF Link
  <2>2. tickets' = [tickets EXCEPT ![t] = k] BY <1>2, <1>8, Numbers DEF TicketInv
  <2>3. tickets \in Seq(T) /\ t \in 1..Len(tickets) BY <1>2 DEF TicketInv, Shape, Made
  <2> HIDE DEF T, k
  <2>4. /\ tickets' \in Seq(T) /\ Len(tickets') = Len(tickets)
        /\ \A x \in 1..Len(tickets) : tickets'[x] = IF x = t THEN k ELSE tickets[x]
    BY <2>1, <2>2, <2>3, ExceptSeq
  <2> QED BY <2>1, <2>3, <2>4 DEF T, Made
<1>10. Made' = Made BY <1>9 DEF Made
<1>11. /\ DOMAIN published' = Links!Ticket /\ published'[t] = <<p>>
       /\ \A x \in Links!Ticket : x # t => published'[x] = published[x]
  <2>1. published[t] = <<>> BY <1>2, <1>4 DEF TicketInv, LinkKept
  <2>2. Append(published[t], p) = <<p>> BY <2>1
  <2> QED BY <1>2, <1>8, <2>2 DEF TicketInv, Shape
<1>12. /\ uploads' \in [Links!Ticket -> Links!Upload \cup {None}]
       /\ uploads'[t] \in Links!Upload /\ uploads'[t].body = uploads[t].body /\ uploads'[t].base = uploads[t].base
       /\ \A x \in Links!Ticket : x # t => uploads'[x] = uploads[x]
  <2> DEFINE u == [uploads[t] EXCEPT !.state = "complete"]
  <2>1. u \in Links!Upload /\ u.body = uploads[t].body /\ u.base = uploads[t].base BY <1>5 DEF Links!Upload
  <2>2. uploads' = [uploads EXCEPT ![t] = u] BY <1>2, <1>8 DEF TicketInv, Shape
  <2> HIDE DEF u
  <2> QED BY <1>2, <2>1, <2>2 DEF TicketInv, Shape
<1>13. uploads'[t] # None BY <1>12 DEF Links!LinksAssumption
<1>14. /\ sites' \in [Links!Site -> Links!SiteRec \cup {None}]
       /\ sites'[s].body = p.body /\ sites'[s] \in Links!SiteRec /\ \A x \in Links!Site : x # s => sites'[x] = sites[x]
  <2> DEFINE v == [status |-> "active", rev |-> p.rev, pending |-> None, body |-> p.body]
  <2>1. v \in Links!SiteRec /\ v.body = p.body BY <1>5, <1>6, <1>7 DEF Links!SiteRec, Links!Upload
  <2> HIDE DEF v
  <2>2. sites' = [sites EXCEPT ![s] = v] BY <1>8 DEF v
  <2> QED BY <2>1, <2>2 DEF TicketInv, Shape
<1>15. /\ puts' \in [Server -> Put \cup {Links!Idle}] /\ \A x \in Server : x # r => puts'[x] = puts[x]
       /\ puts'[r].pc = "release" /\ puts'[r].ticket = puts[r].ticket /\ puts'[r].private = puts[r].private
  BY <1>1, <1>8, GoesStep DEF TicketInv
<1>16. Shape' BY <1>9, <1>11, <1>12, <1>14, <1>15 DEF TicketInv, Shape
<1>17. \A x \in Made' : LinkKept(x)'
  <2>1. LinkKept(t)'
    <3>1. s # 0 => tickets[t].rev = 0 BY <1>2, <1>3 DEF TicketInv, LinkKept
    <3> QED BY <1>7, <1>9, <1>11, <3>1 DEF LinkKept
  <2>2. ASSUME NEW x \in Made, x # t PROVE LinkKept(x)'
    <3>1. LinkKept(x) /\ x \in Links!Ticket BY Numbers DEF TicketInv
    <3> QED BY <1>9, <1>11, <2>2, <3>1 DEF LinkKept
  <2> QED BY <1>10, <2>1, <2>2
<1>18. Unmade' BY <1>2, <1>10, <1>11, <1>12 DEF TicketInv, Unmade
<1>19. UploadsBased'
  <2> SUFFICES ASSUME NEW x \in Made, uploads'[x] # None
               PROVE  uploads'[x].base = tickets'[x].rev /\ sites'[tickets'[x].site] \in Links!SiteRec
    BY <1>10 DEF UploadsBased
  <2>1. x \in Links!Ticket /\ tickets[x].site \in Links!Site BY Numbers DEF TicketInv
  <2> QED BY <1>5, <1>9, <1>12, <1>14, <2>1 DEF TicketInv, UploadsBased
<1>20. \A x \in Server : puts'[x] # Links!Idle => PutKept(x)'
  <2>1. \A x \in Made : tickets'[x].secret = tickets[x].secret /\ tickets'[x].site = tickets[x].site
    BY <1>3, <1>9
  <2>2. PutKept(r)' BY <1>1, <1>10, <1>15, <2>1, EarlyPut
  <2>3. ASSUME NEW x \in Server, x # r, puts'[x] # Links!Idle PROVE PutKept(x)'
    <3>1. PutKept(x) /\ puts'[x] = puts[x] BY <1>15, <2>3 DEF TicketInv
    <3>2. puts[x].ticket \in Made /\ puts[x].ticket \in Links!Ticket BY <3>1, Numbers DEF PutKept, TicketInv
    <3>3. uploads[puts[x].ticket] # None =>
            uploads'[puts[x].ticket] # None /\ uploads'[puts[x].ticket].body = uploads[puts[x].ticket].body
      BY <1>12, <1>13, <3>2
    <3>4. installed' = installed BY <1>8
    <3> QED BY <1>10, <2>1, <3>1, <3>2, <3>3, <3>4 DEF PutKept
  <2> QED BY <2>2, <2>3
<1>21. SitesHeld' BY <1>5, <1>7, <1>8, <1>14 DEF TicketInv, SitesHeld, Links!Live
<1> QED BY <1>16, <1>17, <1>18, <1>19, <1>20, <1>21 DEF TicketInv

\* The lease goes back, if it is still the request's.
LEMMA LinkReleaseInv == ASSUME Links!LinksAssumption, TicketInv, NEW r \in Server, Links!Release(r) PROVE TicketInv'
<1>1. puts[r] \in Put /\ puts[r] # Links!Idle /\ PutKept(r) BY InProgress DEF TicketInv, Links!Release
<1>2. PICK t \in Made : t = puts[r].ticket /\ tickets[t] \in Link BY <1>1, Numbers DEF PutKept, TicketInv
<1>3. UNCHANGED <<sites, uploads, installed, published>> BY DEF Links!Release
<1>4. /\ puts' \in [Server -> Put \cup {Links!Idle}] /\ puts'[r] = Links!Idle
      /\ \A x \in Server : x # r => puts'[x] = puts[x]
  BY PutStep DEF Links!Release, TicketInv
<1>5. CASE tickets' = tickets BY <1>3, <1>4, <1>5, GoesInv
<1>6. CASE tickets' = [tickets EXCEPT ![t].lease = None, ![t].held = FALSE]
  <2> DEFINE k == [tickets[t] EXCEPT !.lease = None, !.held = FALSE]
  <2>1. /\ k \in Link /\ k.site = tickets[t].site /\ k.rev = tickets[t].rev
        /\ k.secret = tickets[t].secret /\ k.result = tickets[t].result
    BY <1>2 DEF Link
  <2>2. tickets' = [tickets EXCEPT ![t] = k] BY <1>2, <1>6, Numbers DEF TicketInv
  <2> HIDE DEF k
  <2>3. /\ tickets' \in Seq(Link) /\ Len(tickets') = Len(tickets)
        /\ \A x \in Made : /\ tickets'[x].site = tickets[x].site /\ tickets'[x].rev = tickets[x].rev
                           /\ tickets'[x].secret = tickets[x].secret
                           /\ tickets'[x].result = tickets[x].result
    BY <1>2, <2>1, <2>2, SameTerms DEF TicketInv
  <2>4. Shape' BY <1>3, <1>4, <2>3 DEF TicketInv, Shape
  <2>5. SitesHeld' BY <1>3, SameSites
  <2> QED BY <1>3, <1>4, <2>3, <2>4, <2>5, QuietInv
<1> QED BY <1>2, <1>5, <1>6 DEF Links!Release

-----------------------------------------------------------------------------
(* Tickets, time and the owner *)

\* A ticket is made with no receipt, for the present revision or for a new project.
LEMMA UploadLinkInv ==
  ASSUME Links!LinksAssumption, TicketInv, NEW update \in BOOLEAN, NEW secret \in BOOLEAN,
         Links!UploadLink(update, secret)
  PROVE  TicketInv'
<1>0. PICK t \in Links!Ticket : t = Len(tickets) + 1 BY DEF Links!UploadLink
<1> DEFINE k == [site |-> IF update THEN 0 ELSE t, rev |-> IF update THEN sites[0].rev ELSE 0,
                 secret |-> secret, life |-> "open", lease |-> None, held |-> FALSE, result |-> None]
<1>1. /\ tickets' = Append(tickets, k) /\ (update => Links!Live(0))
      /\ UNCHANGED <<sites, uploads, installed, puts, published>>
  BY <1>0 DEF Links!UploadLink
<1>2. k \in Link /\ (k.site # 0 => k.rev = 0) /\ k.result = None
  <2>1. (IF update THEN sites[0].rev ELSE 0) \in Nat
    BY <1>1, Numbers DEF Links!Live, TicketInv, Shape, Links!SiteRec
  <2>2. (IF update THEN 0 ELSE t) \in Links!Site BY <1>1, Numbers DEF TicketInv
  <2> QED BY <2>1, <2>2 DEF Link
<1> HIDE DEF k
<1>3. /\ tickets' \in Seq(Link) /\ Len(tickets') = Len(tickets) + 1 /\ tickets'[t] = k
      /\ \A x \in Made : tickets'[x] = tickets[x]
  <2> DEFINE T == Link
  <2>1. tickets \in Seq(T) /\ k \in T BY <1>2 DEF TicketInv, Shape
  <2> HIDE DEF T
  <2>2. /\ tickets' \in Seq(T) /\ Len(tickets') = Len(tickets) + 1 /\ tickets'[t] = k
        /\ \A x \in 1..Len(tickets) : tickets'[x] = tickets[x]
    BY <1>0, <1>1, <2>1
  <2> QED BY <2>2 DEF T, Made
<1>4. Len(tickets) \in Nat /\ MaxTicket \in Nat BY Numbers DEF TicketInv, Links!LinksAssumption
<1>5. Made' = Made \cup {t} /\ t \notin Made BY <1>0, <1>3, <1>4 DEF Made
<1>6. Shape' BY <1>0, <1>1, <1>3, <1>4 DEF TicketInv, Shape, Links!Ticket
<1>7. \A x \in Made' : LinkKept(x)'
  <2>1. LinkKept(t)'
    <3>1. published[t] = <<>> BY <1>1, <1>5 DEF TicketInv, Unmade
    <3> QED BY <1>1, <1>2, <1>3, <3>1 DEF LinkKept
  <2>2. \A x \in Made : LinkKept(x)' BY <1>1, <1>3 DEF TicketInv, LinkKept
  <2> QED BY <1>5, <2>1, <2>2
<1>8. Unmade' BY <1>1, <1>5 DEF TicketInv, Unmade
<1>9. UploadsBased' BY <1>1, <1>3, <1>5 DEF TicketInv, UploadsBased, Unmade
<1>10. \A r \in Server : puts'[r] # Links!Idle => PutKept(r)' BY <1>1, <1>3, <1>5 DEF TicketInv, PutKept
<1>11. SitesHeld' BY <1>1, SameSites
<1> QED BY <1>6, <1>7, <1>8, <1>9, <1>10, <1>11 DEF TicketInv

\* A ticket's lease and life change alone.
LEMMA LapseInv ==
  ASSUME Links!LinksAssumption, TicketInv, NEW t \in Made,
         Links!LeaseLapses(t) \/ Links!TicketExpires(t) \/ Links!Reap(t)
  PROVE  TicketInv'
<1>1. tickets[t] \in Link BY Numbers DEF TicketInv
<1>2. UNCHANGED <<sites, uploads, installed, published, puts>> BY DEF Links!LeaseLapses, Links!TicketExpires, Links!Reap
<1>3. PICK k \in Link : /\ k.site = tickets[t].site /\ k.rev = tickets[t].rev
                        /\ k.secret = tickets[t].secret /\ k.result = tickets[t].result
                        /\ tickets' = [tickets EXCEPT ![t] = k]
  <2>1. CASE Links!LeaseLapses(t)
    <3> DEFINE k == [tickets[t] EXCEPT !.held = FALSE]
    <3>1. /\ k \in Link /\ k.site = tickets[t].site /\ k.rev = tickets[t].rev
          /\ k.secret = tickets[t].secret /\ k.result = tickets[t].result
      BY <1>1 DEF Link
    <3>2. tickets' = [tickets EXCEPT ![t] = k] BY <2>1, Numbers DEF Links!LeaseLapses, TicketInv
    <3> QED BY <3>1, <3>2
  <2>2. ASSUME NEW life \in {"expired", "gone"}, tickets' = [tickets EXCEPT ![t].life = life]
        PROVE  \E k \in Link : /\ k.site = tickets[t].site /\ k.rev = tickets[t].rev
                               /\ k.secret = tickets[t].secret /\ k.result = tickets[t].result
                               /\ tickets' = [tickets EXCEPT ![t] = k]
    <3> DEFINE k == [tickets[t] EXCEPT !.life = life]
    <3>1. /\ k \in Link /\ k.site = tickets[t].site /\ k.rev = tickets[t].rev
          /\ k.secret = tickets[t].secret /\ k.result = tickets[t].result
      BY <1>1 DEF Link
    <3>2. tickets' = [tickets EXCEPT ![t] = k] BY <2>2, Numbers DEF TicketInv
    <3> QED BY <3>1, <3>2
  <2>3. CASE Links!TicketExpires(t) BY <2>2, <2>3 DEF Links!TicketExpires
  <2>4. CASE Links!Reap(t) BY <2>2, <2>4 DEF Links!Reap
  <2> QED BY <2>1, <2>3, <2>4
<1>4. /\ tickets' \in Seq(Link) /\ Len(tickets') = Len(tickets)
      /\ \A x \in Made : /\ tickets'[x].site = tickets[x].site /\ tickets'[x].rev = tickets[x].rev
                         /\ tickets'[x].secret = tickets[x].secret
                         /\ tickets'[x].result = tickets[x].result
  BY <1>3, SameTerms DEF TicketInv
<1>5. Shape' BY <1>2, <1>4 DEF TicketInv, Shape
<1>6. SitesHeld' BY <1>2, SameSites
<1> QED BY <1>2, <1>4, <1>5, <1>6, QuietInv

\* An operation gets late, or is aborted.
LEMMA UploadEndsInv ==
  ASSUME Links!LinksAssumption, TicketInv, NEW t \in Made, Links!UploadLapses(t) \/ Links!AbortExpired(t)
  PROVE  TicketInv'
<1>1. t \in Links!Ticket /\ tickets[t].site \in Links!Site /\ uploads[t] \in Links!Upload
  BY Numbers DEF TicketInv, Shape, Links!UploadLapses, Links!AbortExpired
<1>0. sites[tickets[t].site] \in Links!SiteRec BY DEF TicketInv, UploadsBased, Links!UploadLapses, Links!AbortExpired
<1>2. UNCHANGED <<tickets, installed, puts, published>> BY DEF Links!UploadLapses, Links!AbortExpired
<1>3. PICK u \in Links!Upload : /\ u.body = uploads[t].body /\ u.base = uploads[t].base
                          /\ uploads' = [uploads EXCEPT ![t] = u]
  <2>1. CASE Links!UploadLapses(t)
    <3> DEFINE u == [uploads[t] EXCEPT !.overdue = TRUE]
    <3>1. u \in Links!Upload /\ u.body = uploads[t].body /\ u.base = uploads[t].base BY <1>1 DEF Links!Upload
    <3>2. uploads' = [uploads EXCEPT ![t] = u] BY <1>1, <2>1 DEF Links!UploadLapses, TicketInv, Shape
    <3> QED BY <3>1, <3>2
  <2>2. CASE Links!AbortExpired(t)
    <3> DEFINE u == [uploads[t] EXCEPT !.state = "aborted"]
    <3>1. u \in Links!Upload /\ u.body = uploads[t].body /\ u.base = uploads[t].base BY <1>1 DEF Links!Upload
    <3>2. uploads' = [uploads EXCEPT ![t] = u] BY <1>1, <2>2 DEF Links!AbortExpired, TicketInv, Shape
    <3> QED BY <3>1, <3>2
  <2> QED BY <2>1, <2>2
<1>4. /\ uploads' \in [Links!Ticket -> Links!Upload \cup {None}] /\ uploads'[t] = u /\ u # None
      /\ \A x \in Links!Ticket : x # t => uploads'[x] = uploads[x]
  BY <1>1, <1>3 DEF TicketInv, Shape, Links!LinksAssumption
<1>5. /\ sites' \in [Links!Site -> Links!SiteRec \cup {None}]
      /\ \A s \in Links!Site : Links!Live(s)' => Links!Live(s) /\ sites'[s].body = sites[s].body
      /\ \A s \in Links!Site : sites[s] \in Links!SiteRec => sites'[s] \in Links!SiteRec
  <2>1. CASE Links!UploadLapses(t) BY <2>1 DEF Links!UploadLapses, TicketInv, Shape, Links!Live
  <2>2. CASE Links!AbortExpired(t)
    <3>1. PICK s \in Links!Site : s = tickets[t].site /\ sites[s] \in Links!SiteRec BY <1>0, <1>1
    <3>2. sites' = [sites EXCEPT ![s].pending = None,
                                 ![s].status = IF s = t THEN "deleted" ELSE sites[s].status]
      BY <2>2, <3>1 DEF Links!AbortExpired, TicketInv, Shape
    <3> DEFINE status == IF s = t THEN "deleted" ELSE sites[s].status
               v == [sites[s] EXCEPT !.pending = None, !.status = status]
    <3>3. status \in {"deleted", sites[s].status} /\ status \in {"reserved", "active", "deleted"}
      BY <3>1 DEF Links!SiteRec
    <3>4. sites' = [sites EXCEPT ![s] = v] BY <3>2 DEF TicketInv, Shape
    <3> HIDE DEF status
    <3>5. v \in Links!SiteRec /\ v.body = sites[s].body /\ v.status = status BY <3>1, <3>3 DEF Links!SiteRec
    <3> HIDE DEF v
    <3>6. /\ sites' \in [Links!Site -> Links!SiteRec \cup {None}] /\ sites'[s] = v
          /\ \A x \in Links!Site : x # s => sites'[x] = sites[x]
      BY <3>4, <3>5 DEF TicketInv, Shape
    <3>7. ASSUME NEW x \in Links!Site, Links!Live(x)' PROVE Links!Live(x) /\ sites'[x].body = sites[x].body
      BY <3>1, <3>3, <3>5, <3>6, <3>7 DEF Links!Live, Links!LinksAssumption
    <3> QED BY <3>5, <3>6, <3>7
  <2> QED BY <2>1, <2>2
<1>6. Shape' BY <1>2, <1>4, <1>5 DEF TicketInv, Shape
<1>7. SitesHeld' BY <1>2, <1>5 DEF TicketInv, SitesHeld
<1>8. /\ \A x \in Links!Ticket : uploads[x] # None =>
            /\ uploads'[x] # None /\ uploads'[x].body = uploads[x].body
            /\ uploads'[x].base = uploads[x].base
      /\ \A x \in Links!Ticket : ~(uploads[x] = None /\ uploads'[x] # None)
  BY <1>1, <1>3, <1>4 DEF Links!LinksAssumption
<1> QED BY <1>2, <1>5, <1>6, <1>7, <1>8, QuietInv

\* The owner's changes keep what is served.
LEMMA LinkEditInv == ASSUME Links!LinksAssumption, TicketInv, NEW s \in Links!Site, Links!Edit(s) PROVE TicketInv'
<1>1. sites[s] \in Links!SiteRec /\ sites[s].status = "active" BY DEF Links!Edit, Links!Live, TicketInv, Shape
<1>2. UNCHANGED <<tickets, uploads, installed, puts, published>> BY DEF Links!Edit
<1>3. PICK v \in Links!SiteRec : v.body = sites[s].body /\ sites' = [sites EXCEPT ![s] = v]
  <2>1. ASSUME NEW status \in {"active", "deleted"},
               sites' = [sites EXCEPT ![s].rev = sites[s].rev + 1, ![s].status = status]
        PROVE  \E v \in Links!SiteRec : v.body = sites[s].body /\ sites' = [sites EXCEPT ![s] = v]
    <3> DEFINE v == [sites[s] EXCEPT !.rev = sites[s].rev + 1, !.status = status]
    <3>0. PICK n \in Nat : n = sites[s].rev + 1 BY <1>1 DEF Links!SiteRec
    <3>1. v \in Links!SiteRec /\ v.body = sites[s].body
      <4>1. v = [sites[s] EXCEPT !.rev = n, !.status = status] BY <3>0
      <4> HIDE DEF v
      <4>2. status \in {"reserved", "active", "deleted"} OBVIOUS
      <4> QED BY <1>1, <4>1, <4>2 DEF Links!SiteRec
    <3>2. sites' = [sites EXCEPT ![s] = v] BY <2>1 DEF TicketInv, Shape
    <3> QED BY <3>1, <3>2
  <2>2. CASE sites' = [sites EXCEPT ![s].rev = sites[s].rev + 1]
    <3> DEFINE v == [sites[s] EXCEPT !.rev = sites[s].rev + 1]
    <3>1. v \in Links!SiteRec /\ v.body = sites[s].body BY <1>1 DEF Links!SiteRec
    <3>2. sites' = [sites EXCEPT ![s] = v] BY <2>2 DEF TicketInv, Shape
    <3> QED BY <3>1, <3>2
  <2>3. CASE sites' = [sites EXCEPT ![s].rev = sites[s].rev + 1, ![s].status = "deleted"] BY <2>1, <2>3
  <2> QED BY <2>2, <2>3 DEF Links!Edit
<1>4. /\ sites' \in [Links!Site -> Links!SiteRec \cup {None}] /\ sites'[s] = v
      /\ \A x \in Links!Site : x # s => sites'[x] = sites[x]
  BY <1>3 DEF TicketInv, Shape
<1>5. Shape' BY <1>2, <1>4 DEF TicketInv, Shape
<1>6. SitesHeld'
  <2>1. Links!Live(s) BY DEF Links!Edit
  <2> QED BY <1>2, <1>3, <1>4, <2>1 DEF TicketInv, SitesHeld, Links!Live
<1>7. \A x \in Links!Site : sites[x] \in Links!SiteRec => sites'[x] \in Links!SiteRec BY <1>4
<1> QED BY <1>2, <1>5, <1>6, <1>7, QuietInv

-----------------------------------------------------------------------------
(* The invariant *)

\* One project is there, with its version on the volume, and no ticket.
LEMMA LinkInitInv == ASSUME Links!LinksAssumption, Links!Init PROVE TicketInv
<1>1. 0 \in Links!Site /\ tickets = <<>> /\ tickets \in Seq(Link) /\ Len(tickets) = 0 /\ 0 <= MaxTicket
  BY DEF Links!Init, Links!Site, Links!LinksAssumption
<1>2. Made = {} BY <1>1 DEF Made
<1> DEFINE v == [status |-> "active", rev |-> 1, pending |-> None, body |-> None]
<1>3. v \in Links!SiteRec /\ v.body = None BY DEF Links!SiteRec
<1>4. sites = [s \in Links!Site |-> IF s = 0 THEN v ELSE None] BY DEF Links!Init
<1> HIDE DEF v
<1>5. /\ sites \in [Links!Site -> Links!SiteRec \cup {None}] /\ sites[0].body = None
      /\ \A s \in Links!Site : s # 0 => sites[s] = None
  BY <1>1, <1>3, <1>4
<1>6. Shape BY <1>1, <1>5 DEF Links!Init, Shape
<1>7. SitesHeld BY <1>5 DEF Links!Init, SitesHeld, Links!Live
<1>8. Unmade BY DEF Links!Init, Unmade
<1>9. \A r \in Server : puts[r] = Links!Idle BY DEF Links!Init
<1> QED BY <1>2, <1>6, <1>7, <1>8, <1>9 DEF TicketInv, UploadsBased

\* Every step keeps the invariant.
LEMMA LinkNextInv == ASSUME Links!LinksAssumption, TicketInv, [Links!Next]_Links!vars PROVE TicketInv'
<1>1. CASE UNCHANGED Links!vars
  <2>1. Shape' BY <1>1 DEF Links!vars, TicketInv, Shape
  <2>2. SitesHeld' BY <1>1, SameSites DEF Links!vars
  <2> QED BY <1>1, <2>1, <2>2, QuietInv DEF Links!vars
<1>2. CASE \E update, secret \in BOOLEAN : Links!UploadLink(update, secret) BY <1>2, UploadLinkInv
<1>3. ASSUME NEW r \in Server,
             \/ \E t \in Links!Ticket, b \in Body : Links!TakeLease(r, t, b)
             \/ Links!Inspect(r) \/ Links!Reserve(r) \/ Links!Install(r) \/ Links!Activate(r)
             \/ Links!Fails(r) \/ Links!Release(r) \/ Links!Crash(r)
      PROVE  TicketInv'
  BY <1>3, TakeLeaseInv, InspectInv, ReserveInv, InstallInv, LinkActivateInv, FailsInv, LinkReleaseInv, CrashInv
<1>4. ASSUME NEW t \in DOMAIN tickets,
             \/ Links!LeaseLapses(t) \/ Links!UploadLapses(t) \/ Links!TicketExpires(t)
             \/ Links!Reap(t) \/ Links!AbortExpired(t)
      PROVE  TicketInv'
  <2>1. t \in Made BY Numbers DEF TicketInv
  <2> QED BY <1>4, <2>1, LapseInv, UploadEndsInv
<1>5. CASE \E s \in Links!Site : Links!Edit(s) BY <1>5, LinkEditInv
<1> QED BY <1>1, <1>2, <1>3, <1>4, <1>5 DEF Links!Next

\* A link publishes at most once, on top of the revision and with the password it was
\* made with, and its receipt is that publication; every live project's version is on
\* the volume.  For any number of overlapping, repeated and failing requests.
THEOREM LinksHonoured == Links!Spec => []LinkHonoured
<1>1. Links!Init => TicketInv BY LinkInitInv, LinksAssumed
<1>2. TicketInv /\ [Links!Next]_Links!vars => TicketInv' BY LinkNextInv, LinksAssumed
<1>3. TicketInv => LinkHonoured
  BY Numbers, LinksAssumed DEF TicketInv, LinkKept, SitesHeld, LinkHonoured, Links!LinkHonoured
<1> QED BY <1>1, <1>2, <1>3, PTL DEF Links!Spec
=============================================================================
