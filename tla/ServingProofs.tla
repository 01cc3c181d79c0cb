---------------------------- MODULE ServingProofs ----------------------------
(***************************************************************************)
(* Proofs about Serving and, after it, Analytics and FileCache: for every  *)
(* number of requests, keys, slots and callers, every size of the memory   *)
(* of absences and every lag; for every number of calls, primaries, days   *)
(* and boots; for every number of requests and files and every budget.     *)
(*                                                                         *)
(* The invariant of Serving has four parts.  Times: the ghost absentAt     *)
(* follows the leader's records.  FlightsHeld: a confirmation is within    *)
(* its deadline and, once it has read an absence, the record was absent    *)
(* since the confirmation began.  ListHeld: what is remembered of an       *)
(* absence ends in time.  RequestsHeld: what each caller has been told.    *)
(***************************************************************************)
EXTENDS Pages, FiniteSetTheorems, SequenceTheorems, TLAPS

Times ==
    /\ clock \in Nat
    /\ leader \in [Key -> BOOLEAN]
    /\ absentAt \in [Key -> Nat \cup {None}]
    /\ \A k \in Key :
        /\ absentAt[k] # None => absentAt[k] <= clock
        /\ ~leader[k] => absentAt[k] = clock

\* A confirmation in progress has a leading caller of its own; it began no more
\* than Deadline ago, and an absence it has read was one at the leader since then.
FlightHeld(k) ==
    flights[k] # None =>
        /\ flights[k] \in Flight
        /\ flights[k].since <= clock /\ clock <= flights[k].since + Deadline
        /\ flights[k].read = "absent" =>
            absentAt[k] # None /\ flights[k].since <= absentAt[k]
        /\ requests[flights[k].leader].step = "lead"
        /\ requests[flights[k].leader].key = k

FlightsHeld ==
    /\ flights \in [Key -> Flight \cup {None}]
    /\ \A k \in Key : FlightHeld(k)

\* An entry of the memory ends within its time limit after an absence.
EntryHeld(e) ==
    /\ absentAt[e.key] # None
    /\ e.until <= absentAt[e.key] + Deadline + TTL

\* No two entries of a list are about the same key.
Single(list) == \A i, j \in 1..Len(list) : list[i].key = list[j].key => i = j

ListHeld ==
    /\ negative \in Seq(Entry)
    /\ Len(negative) <= MaxNegative
    /\ Single(negative)
    /\ \A i \in 1..Len(negative) : EntryHeld(negative[i])

Result == {None, "ok", "denied", "busy", "notfound", "records", "error"}

Call ==
    [step : {"idle", "absent", "lead", "wait", "replay", "done"},
     key : Key \cup {None}, found : BOOLEAN, result : Result]

RequestHeld(r) ==
    /\ requests[r].step \in {"absent", "lead", "wait"} =>
        requests[r].key \in Key /\ ~requests[r].found
    /\ requests[r].step = "replay" =>
        /\ requests[r].key \in Key
        /\ requests[r].result \in {"records", "notfound", "error"}
        /\ requests[r].result = "notfound" =>
            /\ ~requests[r].found
            /\ absentAt[requests[r].key] # None
            /\ clock <= absentAt[requests[r].key] + Deadline
    /\ requests[r].step = "done" /\ requests[r].found /\ requests[r].result # "error" =>
        requests[r].result = Decide(r)

RequestsHeld ==
    /\ requests \in [Request -> Call]
    /\ \A r \in Request : RequestHeld(r)

\* The node's own records, and how far they are behind.
LocalHeld ==
    /\ clock <= MaxClock
    /\ local \in [Key -> BOOLEAN]
    /\ behind \in Seq(Key) /\ Len(behind) <= MaxLag

ServingInv == Times /\ FlightsHeld /\ ListHeld /\ RequestsHeld /\ LocalHeld

-----------------------------------------------------------------------------
(* Lists of remembered absences *)

\* RemoveAt takes out one element and closes the gap.
LEMMA Removal ==
    ASSUME NEW S, NEW s \in Seq(S), NEW p \in 1..Len(s)
    PROVE  /\ RemoveAt(s, p) \in Seq(S)
           /\ Len(RemoveAt(s, p)) = Len(s) - 1
           /\ \A i \in 1..(Len(s) - 1) : RemoveAt(s, p)[i] = IF i < p THEN s[i] ELSE s[i + 1]
<1> DEFINE before == SubSeq(s, 1, p - 1)
<1> DEFINE after  == SubSeq(s, p + 1, Len(s))
<1>0. /\ Len(s) \in Nat /\ p \in Int /\ p <= Len(s) /\ 1 <= p
      /\ \A i \in 1..Len(s) : s[i] \in S
    BY LenProperties, ElementOfSeq
<1>1. /\ before \in Seq(S) /\ Len(before) = p - 1
      /\ \A i \in 1..(p - 1) : before[i] = s[i]
  <2>1. \A i \in 1..(p - 1) : s[i] \in S
      BY <1>0
  <2>2. /\ SubSeq(s, 1, p - 1) \in Seq(S)
        /\ Len(SubSeq(s, 1, p - 1)) = IF 1 <= p - 1 THEN (p - 1) - 1 + 1 ELSE 0
        /\ \A i \in 1..((p - 1) - 1 + 1) : SubSeq(s, 1, p - 1)[i] = s[1 + i - 1]
      BY <1>0, <2>1, SubSeqProperties
  <2> QED
      BY <1>0, <2>2
<1>2. /\ after \in Seq(S) /\ Len(after) = Len(s) - p
      /\ \A i \in 1..(Len(s) - p) : after[i] = s[p + i]
  <2>1. \A i \in (p + 1)..Len(s) : s[i] \in S
      BY <1>0
  <2>2. /\ SubSeq(s, p + 1, Len(s)) \in Seq(S)
        /\ Len(SubSeq(s, p + 1, Len(s))) = IF p + 1 <= Len(s) THEN Len(s) - (p + 1) + 1 ELSE 0
        /\ \A i \in 1..(Len(s) - (p + 1) + 1) : SubSeq(s, p + 1, Len(s))[i] = s[(p + 1) + i - 1]
      BY <1>0, <2>1, SubSeqProperties
  <2> QED
      BY <1>0, <2>2
<1>3. /\ before \o after \in Seq(S)
      /\ Len(before \o after) = Len(before) + Len(after)
      /\ \A i \in 1..(Len(before) + Len(after)) :
            (before \o after)[i] = IF i <= Len(before) THEN before[i] ELSE after[i - Len(before)]
  <2> HIDE DEF before, after
  <2> QED
      BY <1>1, <1>2, ConcatProperties
<1>4. RemoveAt(s, p) = before \o after
    BY DEF RemoveAt
<1>5. ASSUME NEW i \in 1..(Len(s) - 1)
      PROVE  (before \o after)[i] = IF i < p THEN s[i] ELSE s[i + 1]
  <2> HIDE DEF before, after
  <2>1. CASE i < p
      BY <1>0, <1>1, <1>2, <1>3, <2>1
  <2>2. CASE ~(i < p)
    <3>1. i - (p - 1) \in 1..(Len(s) - p)
        BY <1>0, <2>2
    <3>2. after[i - (p - 1)] = s[i + 1]
        BY <1>0, <1>2, <3>1
    <3>3. i \in 1..(Len(before) + Len(after)) /\ ~(i <= Len(before)) /\ i - Len(before) = i - (p - 1)
        BY <1>0, <1>1, <1>2, <2>2
    <3>4. (before \o after)[i] = after[i - (p - 1)]
        BY <1>3, <3>3
    <3> QED
        BY <1>0, <2>2, <3>2, <3>4
  <2> QED
      BY <2>1, <2>2
<1>6. RemoveAt(s, p) \in Seq(S) /\ Len(RemoveAt(s, p)) = Len(s) - 1
  <2> HIDE DEF before, after
  <2>1. Len(before) + Len(after) = Len(s) - 1
      BY <1>0, <1>1, <1>2
  <2> QED
      BY <1>3, <1>4, <2>1, Zenon
<1>7. \A i \in 1..(Len(s) - 1) : RemoveAt(s, p)[i] = IF i < p THEN s[i] ELSE s[i + 1]
  <2> HIDE DEF before, after
  <2> QED
      BY <1>4, <1>5
<1> QED
    BY <1>6, <1>7

\* What is asked of a list, but for its length.
Sound(list) ==
    /\ list \in Seq(Entry)
    /\ Single(list)
    /\ \A i \in 1..Len(list) : EntryHeld(list[i])

\* The list without the entry of a key is sound and has none of that key.
LEMMA WithoutSound ==
    ASSUME Sound(negative), NEW k
    PROVE  /\ Sound(Without(k))
           /\ \A i \in 1..Len(Without(k)) : Without(k)[i].key # k
           /\ Len(Without(k)) = IF Listed(k) THEN Len(negative) - 1 ELSE Len(negative)
<1>0. Len(negative) \in Nat /\ negative \in Seq(Entry)
    BY LenProperties DEF Sound
<1>1. CASE ~Listed(k)
    BY <1>0, <1>1 DEF Without, Listed
<1>2. CASE Listed(k)
  <2>1. Position(k) \in 1..Len(negative) /\ negative[Position(k)].key = k
      BY <1>2 DEF Listed, Position
  <2>2. PICK p \in 1..Len(negative) : p = Position(k) /\ negative[p].key = k
      BY <2>1
  <2>3. Without(k) = RemoveAt(negative, p)
      BY <1>2, <2>2 DEF Without
  <2> DEFINE list == RemoveAt(negative, p)
  <2>4. /\ list \in Seq(Entry) /\ Len(list) = Len(negative) - 1
        /\ \A i \in 1..(Len(negative) - 1) : list[i] = IF i < p THEN negative[i] ELSE negative[i + 1]
      BY <1>0, Removal
  <2> HIDE DEF list
  <2>5. \A i \in 1..Len(list) : \E j \in 1..Len(negative) :
            j # p /\ list[i] = negative[j] /\ j = IF i < p THEN i ELSE i + 1
      BY <1>0, <2>4
  <2>6. Single(list)
    <3> SUFFICES ASSUME NEW i \in 1..Len(list), NEW j \in 1..Len(list), list[i].key = list[j].key
                 PROVE  i = j
        BY DEF Single
    <3>1. PICK a \in 1..Len(negative) : list[i] = negative[a] /\ a = IF i < p THEN i ELSE i + 1
        BY <2>5
    <3>2. PICK b \in 1..Len(negative) : list[j] = negative[b] /\ b = IF j < p THEN j ELSE j + 1
        BY <2>5
    <3>3. a = b
        BY <3>1, <3>2 DEF Sound, Single
    <3> QED
        BY <1>0, <2>4, <3>1, <3>2, <3>3
  <2>7. \A i \in 1..Len(list) : EntryHeld(list[i])
      BY <2>5 DEF Sound
  <2>8. \A i \in 1..Len(list) : list[i].key # k
      BY <2>2, <2>5 DEF Sound, Single
  <2>9. Without(k) = list
      BY <2>3 DEF list
  <2> QED
      BY <1>2, <2>4, <2>6, <2>7, <2>8, <2>9 DEF Sound
<1> QED
    BY <1>1, <1>2

\* An entry of a new key goes to the front.
LEMMA FrontSound ==
    ASSUME NEW list, Sound(list), NEW e \in Entry, EntryHeld(e),
           \A i \in 1..Len(list) : list[i].key # e.key
    PROVE  Sound(<<e>> \o list) /\ Len(<<e>> \o list) = Len(list) + 1
<1> DEFINE longer == <<e>> \o list
<1>0. Len(list) \in Nat /\ list \in Seq(Entry)
    BY LenProperties DEF Sound
<1>1. <<e>> \in Seq(Entry) /\ Len(<<e>>) = 1 /\ <<e>>[1] = e
    OBVIOUS
<1>2. /\ longer \in Seq(Entry) /\ Len(longer) = 1 + Len(list)
      /\ \A i \in 1..(1 + Len(list)) : longer[i] = IF i <= 1 THEN <<e>>[i] ELSE list[i - 1]
    BY <1>0, <1>1, ConcatProperties
<1> HIDE DEF longer
<1>3. /\ longer[1] = e
      /\ \A i \in 2..Len(longer) : i - 1 \in 1..Len(list) /\ longer[i] = list[i - 1]
    BY <1>0, <1>1, <1>2
<1>4. ASSUME NEW i \in 1..Len(longer), NEW j \in 1..Len(longer), longer[i].key = longer[j].key
      PROVE  i = j
  <2>1. CASE i = 1 /\ j = 1
      BY <2>1
  <2>2. CASE i = 1 /\ j # 1
      BY <1>0, <1>2, <1>3, <1>4, <2>2
  <2>3. CASE i # 1 /\ j = 1
      BY <1>0, <1>2, <1>3, <1>4, <2>3
  <2>4. CASE i # 1 /\ j # 1
    <3>1. /\ i - 1 \in 1..Len(list) /\ longer[i] = list[i - 1]
          /\ j - 1 \in 1..Len(list) /\ longer[j] = list[j - 1]
        BY <1>0, <1>2, <1>3, <2>4
    <3>2. i - 1 = j - 1
        BY <1>4, <3>1 DEF Sound, Single
    <3> QED
        BY <1>0, <1>2, <3>2
  <2> QED
      BY <2>1, <2>2, <2>3, <2>4
<1>5. ASSUME NEW i \in 1..Len(longer)
      PROVE  EntryHeld(longer[i])
  <2>1. CASE i = 1
      BY <1>3, <2>1
  <2>2. CASE i # 1
    <3>1. i \in 2..Len(longer)
        BY <1>0, <1>2, <2>2
    <3> QED
        BY <1>3, <3>1 DEF Sound
  <2> QED
      BY <2>1, <2>2
<1>6. Sound(longer)
    BY <1>2, <1>4, <1>5 DEF Sound, Single
<1> QED
    BY <1>0, <1>2, <1>6 DEF longer

\* A list cut off at its end stays sound.
LEMMA CutSound ==
    ASSUME NEW list, Sound(list), NEW n \in Nat, n <= Len(list)
    PROVE  Sound(SubSeq(list, 1, n)) /\ Len(SubSeq(list, 1, n)) = n
<1>0. /\ Len(list) \in Nat /\ list \in Seq(Entry)
      /\ \A i \in 1..Len(list) : list[i] \in Entry
    BY LenProperties, ElementOfSeq DEF Sound
<1> DEFINE cut == SubSeq(list, 1, n)
<1>1. \A i \in 1..n : list[i] \in Entry
    BY <1>0
<1>2. /\ SubSeq(list, 1, n) \in Seq(Entry)
      /\ Len(SubSeq(list, 1, n)) = IF 1 <= n THEN n - 1 + 1 ELSE 0
      /\ \A i \in 1..(n - 1 + 1) : SubSeq(list, 1, n)[i] = list[1 + i - 1]
    BY <1>1, SubSeqProperties
<1>3. cut \in Seq(Entry) /\ Len(cut) = n /\ \A i \in 1..n : i \in 1..Len(list) /\ cut[i] = list[i]
    BY <1>0, <1>2
<1> HIDE DEF cut
<1>4. Sound(cut)
    BY <1>3 DEF Sound, Single
<1> QED
    BY <1>3, <1>4 DEF cut

-----------------------------------------------------------------------------
(* What does not depend on the action *)

\* The bounds are numbers, and the keys of public names are keys.
LEMMA Bounds ==
    /\ Public \subseteq Key /\ Entitled \subseteq Request
    /\ Slots \in Nat /\ Callers \in Nat /\ MaxNegative \in Nat
    /\ TTL \in Nat /\ Deadline \in Nat /\ MaxLag \in Nat /\ MaxClock \in Nat
    BY ServingAssumption DEF ServingAssumption

\* None is no number, no confirmation and no answer.
LEMMA NoneApart ==
    /\ None \notin Nat /\ None \notin Flight
    /\ None \notin {"present", "absent", "records", "notfound", "error"}
    BY NoneAssumption DEF NoneAssumption

\* A request that does not lead a confirmation moves on: the confirmations and
\* the other requests are as they were.
LEMMA RequestMoves ==
    ASSUME ServingInv, NEW r \in Request, requests[r].step # "lead",
           requests' \in [Request -> Call], \A q \in Request \ {r} : requests'[q] = requests[q],
           RequestHeld(r)', UNCHANGED <<clock, absentAt>>
    PROVE  /\ RequestsHeld'
           /\ UNCHANGED flights => FlightsHeld'
<1>1. \A q \in Request : RequestHeld(q)'
  <2> SUFFICES ASSUME NEW q \in Request, q # r PROVE RequestHeld(q)'
      OBVIOUS
  <2>1. requests'[q] = requests[q] /\ RequestHeld(q)
      BY DEF ServingInv, RequestsHeld
  <2> QED
      BY <2>1 DEF RequestHeld
<1>2. ASSUME UNCHANGED flights PROVE FlightsHeld'
  <2> SUFFICES ASSUME NEW k \in Key, flights[k] # None PROVE FlightHeld(k)'
      BY <1>2 DEF ServingInv, FlightsHeld, FlightHeld
  <2>1. FlightHeld(k)
      BY DEF ServingInv, FlightsHeld
  <2>2. flights[k].leader \in Request /\ flights[k].leader # r
      BY <2>1 DEF FlightHeld, Flight
  <2>3. requests'[flights[k].leader] = requests[flights[k].leader]
      BY <2>2
  <2> QED
      BY <1>2, <2>1, <2>3 DEF FlightHeld
<1> QED
    BY <1>1, <1>2 DEF RequestsHeld

\* The memory depends on the times of absence, not on the clock.
LEMMA ListKept ==
    ASSUME ServingInv, UNCHANGED <<negative, absentAt>>
    PROVE  ListHeld'
<1>1. \A i \in 1..Len(negative) : EntryHeld(negative[i])'
    BY DEF ServingInv, ListHeld, EntryHeld
<1> QED
    BY <1>1 DEF ServingInv, ListHeld, Single

\* An absence seen later only extends what an entry may still say.
LEMMA EntryKept ==
    ASSUME NEW e \in Entry, EntryHeld(e), absentAt'[e.key] # None,
           absentAt[e.key] \in Nat, absentAt'[e.key] \in Nat, absentAt[e.key] <= absentAt'[e.key]
    PROVE  absentAt'[e.key] # None /\ e.until <= absentAt'[e.key] + Deadline + TTL
<1>1. e.until \in Nat /\ e.until <= absentAt[e.key] + Deadline + TTL
    BY DEF Entry, EntryHeld
<1> QED
    BY <1>1, Bounds

\* A step that changes no record at the leader and takes no time keeps Times.
LEMMA TimesKept ==
    ASSUME ServingInv, UNCHANGED <<clock, leader, absentAt>>
    PROVE  Times'
    BY DEF ServingInv, Times

\* A step that leaves the node's own records alone keeps LocalHeld.
LEMMA LocalKept ==
    ASSUME ServingInv, UNCHANGED <<clock, local, behind>>
    PROVE  LocalHeld'
    BY DEF ServingInv, LocalHeld

\* The memory is sound, and a sound list of its length can take its place.
LEMMA MemorySound ==
    ASSUME ServingInv
    PROVE  Sound(negative)
    BY DEF ServingInv, ListHeld, Sound

\* Any sound list within the bound keeps ListHeld.
LEMMA MemoryReplaced ==
    ASSUME ServingInv, UNCHANGED absentAt, NEW list, negative' = list,
           Sound(list), Len(list) <= MaxNegative
    PROVE  ListHeld'
<1>1. \A i \in 1..Len(list) : EntryHeld(list[i]) <=> EntryHeld(list[i])'
    BY DEF EntryHeld
<1> QED
    BY <1>1 DEF ListHeld, Sound, Single

\* The next caller that meets an entry that is over drops it.
LEMMA DroppedHeld ==
    ASSUME ServingInv, UNCHANGED absentAt, NEW k, negative' = Dropped(k)
    PROVE  ListHeld'
<1>1. CASE k \in Public
  <2>1. /\ Sound(Without(k))
        /\ Len(Without(k)) = IF Listed(k) THEN Len(negative) - 1 ELSE Len(negative)
      BY MemorySound, WithoutSound
  <2>2. Len(negative) \in Nat /\ Len(negative) <= MaxNegative
      BY LenProperties DEF ServingInv, ListHeld
  <2>3. Len(Without(k)) <= MaxNegative
      BY <2>1, <2>2, Bounds
  <2>4. negative' = Without(k)
      BY <1>1 DEF Dropped
  <2> QED
      BY <2>1, <2>3, <2>4, MemoryReplaced
<1>2. CASE k \notin Public
    BY <1>2, ListKept DEF Dropped
<1> QED
    BY <1>1, <1>2

-----------------------------------------------------------------------------
(* The actions *)

\* At the start nothing is confirmed, remembered or asked.
LEMMA InitHolds == Init => ServingInv
<1> SUFFICES ASSUME Init PROVE ServingInv
    OBVIOUS
<1>1. Times
    BY NoneApart DEF Init, Times
<1>2. FlightsHeld
    BY DEF Init, FlightsHeld, FlightHeld
<1>3. ListHeld
  <2>1. negative \in Seq(Entry) /\ Len(negative) = 0
      BY EmptySeq DEF Init
  <2> QED
      BY <2>1, Bounds DEF ListHeld, Single
<1>4. RequestsHeld
    BY DEF Init, RequestsHeld, RequestHeld, Idle, Call, Result
<1>5. LocalHeld
  <2>1. behind \in Seq(Key) /\ Len(behind) = 0
      BY EmptySeq DEF Init
  <2> QED
      BY <2>1, Bounds DEF Init, LocalHeld
<1> QED
    BY <1>1, <1>2, <1>3, <1>4, <1>5 DEF ServingInv

\* A record that changes at the leader was absent at this moment, before or after.
LEMMA WriteHolds ==
    ASSUME ServingInv, NEW k \in Key, Write(k)
    PROVE  ServingInv'
<1>0. /\ clock' = clock /\ clock \in Nat
      /\ absentAt \in [Key -> Nat \cup {None}] /\ absentAt' = [absentAt EXCEPT ![k] = clock]
      /\ leader \in [Key -> BOOLEAN] /\ leader' = [leader EXCEPT ![k] = ~leader[k]]
    BY DEF Write, ServingInv, Times
<1>1. /\ absentAt' \in [Key -> Nat \cup {None}] /\ absentAt'[k] = clock
      /\ \A j \in Key \ {k} : absentAt'[j] = absentAt[j]
    BY <1>0
<1>2. \A j \in Key : absentAt[j] # None =>
        absentAt'[j] # None /\ absentAt[j] \in Nat /\ absentAt'[j] \in Nat /\ absentAt[j] <= absentAt'[j]
    BY <1>0, <1>1, NoneApart DEF ServingInv, Times
<1>3. Times'
  <2>1. leader' \in [Key -> BOOLEAN] /\ \A j \in Key \ {k} : leader'[j] = leader[j]
      BY <1>0
  <2> QED
      BY <1>0, <1>1, <2>1 DEF ServingInv, Times
<1>4. FlightsHeld'
  <2> SUFFICES ASSUME NEW j \in Key, flights[j] # None PROVE FlightHeld(j)'
      BY DEF Write, ServingInv, FlightsHeld, FlightHeld
  <2>1. FlightHeld(j) /\ flights' = flights /\ requests' = requests
      BY DEF Write, ServingInv, FlightsHeld
  <2>2. flights[j].since \in Nat
      BY <2>1 DEF FlightHeld, Flight
  <2>3. flights[j].read = "absent" => absentAt'[j] # None /\ flights[j].since <= absentAt'[j]
      BY <1>2, <2>1, <2>2 DEF FlightHeld
  <2> QED
      BY <1>0, <2>1, <2>3 DEF FlightHeld
<1>5. ListHeld'
  <2> SUFFICES ASSUME NEW i \in 1..Len(negative) PROVE EntryHeld(negative[i])'
      BY DEF Write, ServingInv, ListHeld, Single
  <2>1. EntryHeld(negative[i]) /\ negative' = negative /\ negative[i] \in Entry
      BY ElementOfSeq DEF Write, ServingInv, ListHeld
  <2>2. negative[i].key \in Key /\ negative[i].until \in Nat
      BY <2>1, Bounds DEF Entry
  <2>3. absentAt[negative[i].key] # None
      BY <2>1 DEF EntryHeld
  <2>4. /\ absentAt'[negative[i].key] # None
        /\ negative[i].until <= absentAt'[negative[i].key] + Deadline + TTL
      BY <1>2, <2>1, <2>2, <2>3, EntryKept
  <2> QED
      BY <2>1, <2>4 DEF EntryHeld
<1>6. RequestsHeld'
  <2> SUFFICES ASSUME NEW r \in Request PROVE RequestHeld(r)'
      BY DEF Write, ServingInv, RequestsHeld
  <2>1. RequestHeld(r) /\ requests' = requests
      BY DEF Write, ServingInv, RequestsHeld
  <2>2. requests[r].step = "replay" /\ requests[r].result = "notfound" =>
            /\ absentAt'[requests[r].key] # None
            /\ clock <= absentAt'[requests[r].key] + Deadline
      BY <1>0, <1>2, <2>1, Bounds DEF RequestHeld
  <2> QED
      BY <1>0, <2>1, <2>2 DEF RequestHeld
<1>7. LocalHeld'
  <2>1. behind \in Seq(Key) /\ Len(behind) \in Nat /\ Len(behind) < MaxLag
      BY LenProperties DEF Write, ServingInv, LocalHeld
  <2>2. behind' \in Seq(Key) /\ Len(behind') = Len(behind) + 1
      BY <2>1, AppendProperties DEF Write
  <2> QED
      BY <1>0, <2>1, <2>2, Bounds DEF Write, ServingInv, LocalHeld
<1> QED
    BY <1>3, <1>4, <1>5, <1>6, <1>7 DEF ServingInv

\* The node catches up with one change.
LEMMA ApplyNextHolds ==
    ASSUME ServingInv, ApplyNext
    PROVE  ServingInv'
<1>1. LocalHeld'
  <2>1. behind \in Seq(Key) /\ behind # <<>>
      BY DEF ApplyNext, ServingInv, LocalHeld
  <2>2. Tail(behind) \in Seq(Key) /\ Len(Tail(behind)) = Len(behind) - 1 /\ Len(behind) \in Nat
      BY <2>1, HeadTailProperties, LenProperties
  <2>3. local' \in [Key -> BOOLEAN]
      BY DEF ApplyNext, ServingInv, LocalHeld
  <2> QED
      BY <2>2, <2>3, Bounds DEF ApplyNext, ServingInv, LocalHeld
<1>2. FlightsHeld' /\ RequestsHeld'
    BY DEF ApplyNext, ServingInv, FlightsHeld, FlightHeld, RequestsHeld, RequestHeld
<1>3. ListHeld' /\ Times'
    BY ListKept, TimesKept DEF ApplyNext
<1> QED
    BY <1>1, <1>2, <1>3 DEF ServingInv

\* The shape of what a request becomes when it returns, for the actions that end
\* in Return.
LEMMA Returned ==
    ASSUME ServingInv, NEW r \in Request, requests[r].step # "lead", NEW answer \in Result,
           Return(r, answer), UNCHANGED <<clock, absentAt, flights>>,
           requests[r].found /\ answer # "error" => answer = Decide(r)
    PROVE  RequestsHeld' /\ FlightsHeld'
<1>1. requests \in [Request -> Call] /\ requests[r] \in Call
    BY DEF ServingInv, RequestsHeld
<1>2. requests'[r] = [requests[r] EXCEPT !.step = "done", !.result = answer]
    BY <1>1 DEF Return
<1>3. requests' \in [Request -> Call]
    BY <1>1, <1>2 DEF Return, Call
<1>4. \A q \in Request \ {r} : requests'[q] = requests[q]
    BY <1>1 DEF Return
<1>5. /\ requests'[r].step = "done" /\ requests'[r].result = answer
      /\ requests'[r].found = requests[r].found
    BY <1>1, <1>2 DEF Call
<1>6. RequestHeld(r)'
    BY <1>5 DEF RequestHeld, Decide
<1> QED
    BY <1>3, <1>4, <1>6, RequestMoves

\* A lookup in the local records ends, or goes on without a record.
LEMMA LookupHolds ==
    ASSUME ServingInv, NEW r \in Request, NEW k \in Key, Lookup(r, k)
    PROVE  ServingInv'
<1> DEFINE c == IF local[k] THEN [step |-> "done", key |-> k, found |-> TRUE, result |-> Decide(r)]
                ELSE [step |-> "absent", key |-> k, found |-> FALSE, result |-> None]
<1>1. requests \in [Request -> Call] /\ requests[r].step = "idle" /\ requests' = [requests EXCEPT ![r] = c]
    BY DEF ServingInv, RequestsHeld, Lookup
<1>2. c \in Call
    BY DEF Call, Result, Decide
<1>3. \/ c.step = "done" /\ c.result = Decide(r)
      \/ c.step = "absent" /\ c.key = k /\ c.found = FALSE
  <2>1. CASE local[k]
      BY <2>1 DEF Decide
  <2>2. CASE ~local[k]
      BY <2>2
  <2> QED
      BY <2>1, <2>2
<1> HIDE DEF c
<1>4. requests' \in [Request -> Call] /\ requests'[r] = c /\ \A q \in Request \ {r} : requests'[q] = requests[q]
    BY <1>1, <1>2
<1>5. RequestHeld(r)'
    BY <1>3, <1>4 DEF RequestHeld, Decide
<1>6. RequestsHeld' /\ FlightsHeld'
    BY <1>1, <1>4, <1>5, RequestMoves DEF Lookup
<1> QED
    BY <1>6, ListKept, TimesKept, LocalKept DEF ServingInv, Lookup

\* A failing coordinator ends the lookup with its error.
LEMMA LookupFailsHolds ==
    ASSUME ServingInv, NEW r \in Request, LookupFails(r)
    PROVE  ServingInv'
<1>1. RequestsHeld' /\ FlightsHeld'
    BY Returned DEF LookupFails, Result
<1> QED
    BY <1>1, ListKept, TimesKept, LocalKept DEF ServingInv, LookupFails

\* A caller that found nothing locally has a key, and nothing found.
LEMMA AbsentCaller ==
    ASSUME ServingInv, NEW r \in Request, Absent(r)
    PROVE  KeyOf(r) \in Key /\ ~requests[r].found /\ requests[r].step = "absent"
    BY DEF ServingInv, RequestsHeld, RequestHeld, Absent, KeyOf

\* A caller refused for capacity learns nothing about the record.
LEMMA DeniedHolds ==
    ASSUME ServingInv, NEW r \in Request, Denied(r)
    PROVE  ServingInv'
<1>0. ~requests[r].found /\ requests[r].step = "absent" /\ UNCHANGED <<clock, absentAt, flights>>
      /\ Return(r, "busy")
    BY AbsentCaller DEF Denied
<1>1. RequestsHeld' /\ FlightsHeld'
    BY <1>0, Returned DEF Result
<1>2. ListHeld'
  <2>1. CASE UNCHANGED negative
      BY <1>0, <2>1, ListKept
  <2>2. CASE negative' = Dropped(KeyOf(r))
      BY <1>0, <2>2, DroppedHeld
  <2> QED
      BY <2>1, <2>2 DEF Denied
<1> QED
    BY <1>1, <1>2, TimesKept, LocalKept DEF ServingInv, Denied

\* A hit reorders the list and answers from it.
LEMMA NegativeHitHolds ==
    ASSUME ServingInv, NEW r \in Request, NegativeHit(r)
    PROVE  ServingInv'
<1> DEFINE k == KeyOf(r)
<1>0. /\ ~requests[r].found /\ requests[r].step = "absent" /\ UNCHANGED <<clock, absentAt, flights>>
      /\ Return(r, "notfound") /\ Remembered(k) /\ negative' = Touched(k)
    BY AbsentCaller DEF NegativeHit
<1>1. RequestsHeld' /\ FlightsHeld'
    BY <1>0, Returned DEF Result
<1>2. ListHeld'
  <2>1. Listed(k)
      BY <1>0 DEF Remembered, Listed
  <2>2. Position(k) \in 1..Len(negative) /\ negative[Position(k)].key = k
      BY <2>1 DEF Listed, Position
  <2>3. /\ Sound(Without(k)) /\ Len(Without(k)) = Len(negative) - 1
        /\ \A i \in 1..Len(Without(k)) : Without(k)[i].key # k
      BY <2>1, MemorySound, WithoutSound
  <2> DEFINE e == negative[Position(k)]
  <2>4. e \in Entry /\ EntryHeld(e) /\ e.key = k
      BY <2>2, ElementOfSeq DEF ServingInv, ListHeld
  <2>5. Sound(<<e>> \o Without(k)) /\ Len(<<e>> \o Without(k)) = Len(Without(k)) + 1
    <3> HIDE DEF e, k
    <3> QED
        BY <2>3, <2>4, FrontSound
  <2>6. Len(negative) \in Nat /\ Len(negative) <= MaxNegative
      BY LenProperties DEF ServingInv, ListHeld
  <2>7. Len(Touched(k)) <= MaxNegative /\ Sound(Touched(k))
      BY <2>3, <2>5, <2>6 DEF Touched
  <2> QED
      BY <1>0, <2>7, MemoryReplaced
<1> QED
    BY <1>1, <1>2, TimesKept, LocalKept DEF ServingInv, NegativeHit

\* What becomes of a caller that goes on to wait, in front or behind.
LEMMA Waits ==
    ASSUME ServingInv, NEW r \in Request, Absent(r), NEW s \in {"lead", "wait"},
           requests' = [requests EXCEPT ![r].step = s], UNCHANGED <<clock, absentAt>>
    PROVE  /\ RequestsHeld' /\ (UNCHANGED flights => FlightsHeld')
           /\ requests'[r].step = s /\ requests'[r].key = KeyOf(r)
           /\ \A q \in Request \ {r} : requests'[q] = requests[q]
<1>0. KeyOf(r) \in Key /\ ~requests[r].found /\ requests[r].step = "absent"
    BY AbsentCaller
<1>1. requests \in [Request -> Call] /\ requests[r] \in Call
    BY DEF ServingInv, RequestsHeld
<1>2. requests'[r] = [requests[r] EXCEPT !.step = s]
    BY <1>1
<1>3. requests' \in [Request -> Call]
    BY <1>1, <1>2 DEF Call
<1>4. \A q \in Request \ {r} : requests'[q] = requests[q]
    BY <1>1
<1>5. /\ requests'[r].step = s /\ requests'[r].key = requests[r].key
      /\ requests'[r].found = requests[r].found
    BY <1>1, <1>2 DEF Call
<1>6. RequestHeld(r)'
    BY <1>0, <1>5 DEF RequestHeld, KeyOf
<1> QED
    BY <1>0, <1>3, <1>4, <1>5, <1>6, RequestMoves DEF KeyOf

\* The first caller opens a confirmation of its key.
LEMMA LeadHolds ==
    ASSUME ServingInv, NEW r \in Request, Lead(r)
    PROVE  ServingInv'
<1> DEFINE f == [leader |-> r, since |-> clock, read |-> None]
<1>a. PICK k \in Key : k = KeyOf(r)
    BY AbsentCaller DEF Lead
<1>0. /\ Absent(r) /\ flights[k] = None /\ UNCHANGED <<clock, absentAt>>
      /\ flights' = [flights EXCEPT ![k] = f] /\ negative' = Dropped(k)
      /\ requests' = [requests EXCEPT ![r].step = "lead"]
    BY <1>a DEF Lead
<1>1. /\ RequestsHeld' /\ requests'[r].step = "lead" /\ requests'[r].key = k
      /\ \A q \in Request \ {r} : requests'[q] = requests[q]
    BY <1>a, <1>0, Waits
<1>2. f \in Flight /\ f.leader = r /\ f.since = clock /\ f.read = None
    BY DEF Flight, ServingInv, Times
<1> HIDE DEF f
<1>3. /\ flights' \in [Key -> Flight \cup {None}] /\ flights'[k] = f
      /\ \A j \in Key \ {k} : flights'[j] = flights[j]
    BY <1>0, <1>2 DEF ServingInv, FlightsHeld
<1>4. FlightHeld(k)'
    BY <1>0, <1>1, <1>2, <1>3, Bounds, NoneApart DEF FlightHeld, ServingInv, Times
<1>5. ASSUME NEW j \in Key, j # k, flights[j] # None PROVE FlightHeld(j)'
  <2>1. FlightHeld(j)
      BY DEF ServingInv, FlightsHeld
  <2>2. flights[j].leader \in Request /\ flights[j].leader # r
      BY <1>0, <1>5, <2>1 DEF FlightHeld, Flight, Absent
  <2>3. requests'[flights[j].leader] = requests[flights[j].leader] /\ flights'[j] = flights[j]
      BY <1>1, <1>3, <1>5, <2>2
  <2> QED
      BY <1>0, <2>1, <2>3 DEF FlightHeld
<1>6. FlightsHeld'
    BY <1>3, <1>4, <1>5 DEF FlightsHeld, FlightHeld
<1>7. ListHeld'
    BY <1>0, DroppedHeld
<1> QED
    BY <1>1, <1>6, <1>7, TimesKept, LocalKept DEF ServingInv, Lead

\* A later caller waits for the confirmation of its key.
LEMMA JoinHolds ==
    ASSUME ServingInv, NEW r \in Request, Join(r)
    PROVE  ServingInv'
<1>0. /\ Absent(r) /\ UNCHANGED <<clock, absentAt, flights>> /\ negative' = Dropped(KeyOf(r))
      /\ requests' = [requests EXCEPT ![r].step = "wait"]
    BY DEF Join
<1>1. RequestsHeld' /\ FlightsHeld'
    BY <1>0, Waits
<1>2. ListHeld'
    BY <1>0, DroppedHeld
<1> QED
    BY <1>1, <1>2, TimesKept, LocalKept DEF ServingInv, Join

\* A confirmation reads the leader's record, which is absent now if it is absent.
LEMMA ConfirmHolds ==
    ASSUME ServingInv, NEW k \in Key, Confirm(k)
    PROVE  ServingInv'
<1> DEFINE read == IF ConfirmedBy(k) THEN "present" ELSE "absent"
<1>0. /\ flights[k] # None /\ FlightHeld(k) /\ flights[k] \in Flight
      /\ flights' = [flights EXCEPT ![k] = [flights[k] EXCEPT !.read = read]]
      /\ UNCHANGED <<clock, absentAt, requests>>
    BY DEF Confirm, ServingInv, FlightsHeld, FlightHeld
<1>1. read \in {"present", "absent"} /\ (read = "absent" => ~leader[k])
    BY DEF ConfirmedBy
<1> HIDE DEF read
<1>2. /\ [flights[k] EXCEPT !.read = read] \in Flight
      /\ [flights[k] EXCEPT !.read = read].leader = flights[k].leader
      /\ [flights[k] EXCEPT !.read = read].since = flights[k].since
      /\ [flights[k] EXCEPT !.read = read].read = read
    BY <1>0, <1>1 DEF Flight
<1>3. /\ flights' \in [Key -> Flight \cup {None}] /\ flights'[k] \in Flight
      /\ flights'[k].leader = flights[k].leader
      /\ flights'[k].since = flights[k].since /\ flights'[k].read = read
      /\ \A j \in Key \ {k} : flights'[j] = flights[j]
    BY <1>0, <1>2 DEF ServingInv, FlightsHeld
<1>4. read = "absent" => absentAt[k] = clock /\ clock # None
    BY <1>1, NoneApart DEF ServingInv, Times
<1>5. FlightHeld(k)'
  <2>1. /\ flights[k].since <= clock /\ clock <= flights[k].since + Deadline
        /\ requests[flights[k].leader].step = "lead" /\ requests[flights[k].leader].key = k
      BY <1>0 DEF FlightHeld
  <2> QED
      BY <1>0, <1>3, <1>4, <2>1 DEF FlightHeld
<1>6. \A j \in Key \ {k} : FlightHeld(j)'
    BY <1>0, <1>3 DEF ServingInv, FlightsHeld, FlightHeld
<1>7. FlightsHeld'
    BY <1>3, <1>5, <1>6 DEF FlightsHeld
<1>8. RequestsHeld'
    BY <1>0 DEF ServingInv, RequestsHeld, RequestHeld
<1> QED
    BY <1>7, <1>8, ListKept, TimesKept, LocalKept DEF ServingInv, Confirm

\* A confirmation ends: its callers learn the answer, and only they.
LEMMA CallersTold ==
    ASSUME ServingInv, NEW k \in Key, NEW answer \in {"records", "notfound", "error"},
           Tell(k, answer), flights' = [flights EXCEPT ![k] = None], UNCHANGED <<clock, absentAt>>,
           answer = "notfound" => absentAt[k] # None /\ clock <= absentAt[k] + Deadline
    PROVE  RequestsHeld' /\ FlightsHeld'
<1>1. ASSUME NEW r \in Request, Told(r, k)
      PROVE  /\ requests'[r] \in Call /\ requests'[r].step = "replay" /\ requests'[r].key = k
             /\ requests'[r].result = answer /\ requests'[r].found = (answer # "notfound")
  <2>1. requests[r] \in Call /\ requests[r].key = k
      BY <1>1 DEF ServingInv, RequestsHeld, Told, KeyOf
  <2>2. requests'[r] = [requests[r] EXCEPT !.step = "replay", !.result = answer,
                                          !.found = (answer # "notfound")]
      BY <1>1 DEF Tell
  <2> QED
      BY <2>1, <2>2 DEF Call, Result
<1>2. ASSUME NEW r \in Request, ~Told(r, k)
      PROVE  requests'[r] = requests[r] /\ requests'[r] \in Call
    BY <1>2 DEF Tell, ServingInv, RequestsHeld
<1>3. requests' \in [Request -> Call]
  <2>1. \A r \in Request : requests'[r] \in Call
      BY <1>1, <1>2
  <2>2. requests' = [r \in Request |-> requests'[r]]
      BY DEF Tell
  <2> QED
      BY <2>1, <2>2
<1>4. ASSUME NEW r \in Request PROVE RequestHeld(r)'
  <2>1. CASE Told(r, k)
      BY <1>1, <2>1 DEF RequestHeld
  <2>2. CASE ~Told(r, k)
    <3>1. RequestHeld(r) /\ requests'[r] = requests[r]
        BY <1>2, <2>2 DEF ServingInv, RequestsHeld
    <3> QED
        BY <3>1 DEF RequestHeld
  <2> QED
      BY <2>1, <2>2
<1>5. /\ flights' \in [Key -> Flight \cup {None}] /\ flights'[k] = None
      /\ \A j \in Key \ {k} : flights'[j] = flights[j]
    BY DEF ServingInv, FlightsHeld
<1>6. ASSUME NEW j \in Key, flights'[j] # None PROVE FlightHeld(j)'
  <2>1. j # k /\ flights'[j] = flights[j] /\ FlightHeld(j) /\ flights[j] # None
      BY <1>5, <1>6 DEF ServingInv, FlightsHeld
  <2>2. flights[j].leader \in Request /\ requests[flights[j].leader].key = j
      BY <2>1 DEF FlightHeld, Flight
  <2>3. requests'[flights[j].leader] = requests[flights[j].leader]
      BY <1>2, <2>1, <2>2 DEF Told, KeyOf
  <2> QED
      BY <2>1, <2>3 DEF FlightHeld
<1>7. FlightsHeld'
    BY <1>5, <1>6 DEF FlightsHeld, FlightHeld
<1> QED
    BY <1>3, <1>4, <1>7 DEF RequestsHeld

\* The memory of a confirmed absence is within its time limit.
LEMMA RememberHeld ==
    ASSUME ServingInv, NEW k \in Public, negative' = Remember(k), UNCHANGED absentAt,
           absentAt[k] # None, clock <= absentAt[k] + Deadline
    PROVE  ListHeld'
<1> DEFINE e == [key |-> k, until |-> clock + TTL]
<1> DEFINE list == <<e>> \o Without(k)
<1> DEFINE n == IF Len(list) > MaxNegative THEN MaxNegative ELSE Len(list)
<1>1. /\ Sound(Without(k)) /\ \A i \in 1..Len(Without(k)) : Without(k)[i].key # k
    BY MemorySound, WithoutSound
<1>2. e \in Entry /\ e.key = k /\ EntryHeld(e)
  <2>1. clock \in Nat /\ absentAt[k] \in Nat
      BY Bounds DEF ServingInv, Times
  <2> QED
      BY <2>1, Bounds DEF Entry, EntryHeld
<1>3. Sound(list)
  <2> HIDE DEF e
  <2> QED
      BY <1>1, <1>2, FrontSound
<1> HIDE DEF list
<1>4. Len(list) \in Nat
    BY <1>3, LenProperties DEF Sound
<1>5. n \in Nat /\ n <= Len(list) /\ n <= MaxNegative
    BY <1>4, Bounds
<1> HIDE DEF n
<1>6. Sound(SubSeq(list, 1, n)) /\ Len(SubSeq(list, 1, n)) = n
    BY <1>3, <1>5, CutSound
<1>7. negative' = SubSeq(list, 1, n)
    BY DEF Remember, list, n
<1> QED
    BY <1>5, <1>6, <1>7, MemoryReplaced

\* A confirmation that has read the record ends.
LEMMA FinishHolds ==
    ASSUME ServingInv, NEW k \in Key, Finish(k)
    PROVE  ServingInv'
<1>0. /\ flights[k] # None /\ FlightHeld(k) /\ UNCHANGED <<clock, absentAt>>
      /\ Tell(k, Shared(k)) /\ flights' = [flights EXCEPT ![k] = None]
    BY DEF Finish, ServingInv, FlightsHeld
<1>1. PICK answer \in {"records", "notfound"} : answer = Shared(k)
    BY DEF Shared
<1>2. answer = "notfound" => absentAt[k] # None /\ clock <= absentAt[k] + Deadline
  <2> SUFFICES ASSUME answer = "notfound" PROVE absentAt[k] # None /\ clock <= absentAt[k] + Deadline
      OBVIOUS
  <2>1. flights[k].read = "absent"
      BY <1>1 DEF Shared
  <2>2. absentAt[k] # None /\ flights[k].since <= absentAt[k] /\ clock <= flights[k].since + Deadline
      BY <1>0, <2>1 DEF FlightHeld
  <2>3. flights[k].since \in Nat /\ clock \in Nat /\ absentAt[k] \in Nat
      BY <1>0, <2>2 DEF FlightHeld, Flight, ServingInv, Times
  <2> QED
      BY <2>2, <2>3, Bounds
<1>3. RequestsHeld' /\ FlightsHeld'
    BY <1>0, <1>1, <1>2, CallersTold
<1>4. ListHeld'
  <2>1. CASE k \in Public /\ Shared(k) = "notfound"
      BY <1>0, <1>1, <1>2, <2>1, RememberHeld DEF Finish
  <2>2. CASE ~(k \in Public /\ Shared(k) = "notfound")
      BY <1>0, <2>2, ListKept DEF Finish
  <2> QED
      BY <2>1, <2>2
<1> QED
    BY <1>3, <1>4, TimesKept, LocalKept DEF ServingInv, Finish

\* A confirmation that failed ends and is not remembered.
LEMMA ConfirmFailsHolds ==
    ASSUME ServingInv, NEW k \in Key, ConfirmFails(k)
    PROVE  ServingInv'
<1>1. RequestsHeld' /\ FlightsHeld'
    BY CallersTold DEF ConfirmFails
<1> QED
    BY <1>1, ListKept, TimesKept, LocalKept DEF ServingInv, ConfirmFails, FailNegative

\* A caller returns the shared answer, or its own decision on the shared records.
LEMMA ReplayHolds ==
    ASSUME ServingInv, NEW r \in Request, Replay(r)
    PROVE  ServingInv'
<1> DEFINE answer == IF requests[r].result = "records" THEN Decide(r) ELSE requests[r].result
<1>0. /\ requests[r].step = "replay" /\ requests[r].result \in {"records", "notfound", "error"}
      /\ (requests[r].result = "notfound" => ~requests[r].found)
    BY DEF Replay, ServingInv, RequestsHeld, RequestHeld
<1>1. answer \in Result /\ (requests[r].found /\ answer # "error" => answer = Decide(r))
    BY <1>0 DEF Result, Decide
<1>2. Return(r, answer) /\ UNCHANGED <<clock, absentAt, flights>>
    BY DEF Replay
<1> HIDE DEF answer
<1>3. RequestsHeld' /\ FlightsHeld'
    BY <1>0, <1>1, <1>2, Returned
<1> QED
    BY <1>3, ListKept, TimesKept, LocalKept DEF ServingInv, Replay

\* A waiting caller goes away.
LEMMA CancelHolds ==
    ASSUME ServingInv, NEW r \in Request, Cancel(r)
    PROVE  ServingInv'
<1>1. RequestsHeld' /\ FlightsHeld'
    BY Returned DEF Cancel, Cancellable, Result
<1> QED
    BY <1>1, ListKept, TimesKept, LocalKept DEF ServingInv, Cancel

\* A caller starts its next request.
LEMMA ReuseHolds ==
    ASSUME ServingInv, NEW r \in Request, Reuse(r)
    PROVE  ServingInv'
<1>1. /\ requests' \in [Request -> Call] /\ requests'[r] = Idle
      /\ \A q \in Request \ {r} : requests'[q] = requests[q]
  <2>1. requests \in [Request -> Call] /\ Idle \in Call
      BY DEF ServingInv, RequestsHeld, Idle, Call, Result
  <2> QED
      BY <2>1 DEF Reuse
<1>2. RequestHeld(r)'
    BY <1>1 DEF RequestHeld, Idle
<1>3. RequestsHeld' /\ FlightsHeld'
    BY <1>1, <1>2, RequestMoves DEF Reuse
<1> QED
    BY <1>3, ListKept, TimesKept, LocalKept DEF ServingInv, Reuse

\* Time passes only within the deadlines of the confirmations, and while nobody
\* is between learning an answer and returning it.
LEMMA TickHolds ==
    ASSUME ServingInv, Tick
    PROVE  ServingInv'
<1>0. /\ clock \in Nat /\ clock < MaxClock /\ clock' = clock + 1
      /\ UNCHANGED <<leader, behind, local, flights, negative, requests>>
      /\ absentAt \in [Key -> Nat \cup {None}]
      /\ absentAt' = [k \in Key |-> IF leader[k] THEN absentAt[k] ELSE clock + 1]
    BY DEF Tick, ServingInv, Times
<1>1. /\ absentAt' \in [Key -> Nat \cup {None}]
      /\ \A k \in Key : IF leader[k] THEN absentAt'[k] = absentAt[k] ELSE absentAt'[k] = clock + 1
    BY <1>0
<1>2. \A k \in Key : absentAt[k] # None =>
        absentAt'[k] # None /\ absentAt[k] \in Nat /\ absentAt'[k] \in Nat /\ absentAt[k] <= absentAt'[k]
    BY <1>0, <1>1, NoneApart DEF ServingInv, Times
<1>3. Times'
    BY <1>0, <1>1 DEF ServingInv, Times
<1>4. FlightsHeld'
  <2> SUFFICES ASSUME NEW k \in Key, flights[k] # None PROVE FlightHeld(k)'
      BY <1>0 DEF ServingInv, FlightsHeld, FlightHeld
  <2>1. FlightHeld(k) /\ clock < flights[k].since + Deadline
      BY DEF Tick, ServingInv, FlightsHeld
  <2>2. flights[k].since \in Nat
      BY <2>1 DEF FlightHeld, Flight
  <2>3. flights[k].read = "absent" => absentAt'[k] # None /\ flights[k].since <= absentAt'[k]
      BY <1>2, <2>1, <2>2 DEF FlightHeld
  <2>4. flights[k].since <= clock + 1 /\ clock + 1 <= flights[k].since + Deadline
      BY <1>0, <2>1, <2>2, Bounds DEF FlightHeld
  <2> QED
      BY <1>0, <2>1, <2>3, <2>4 DEF FlightHeld
<1>5. ListHeld'
  <2> SUFFICES ASSUME NEW i \in 1..Len(negative) PROVE EntryHeld(negative[i])'
      BY <1>0 DEF ServingInv, ListHeld, Single
  <2>1. EntryHeld(negative[i]) /\ negative' = negative /\ negative[i] \in Entry
      BY <1>0, ElementOfSeq DEF ServingInv, ListHeld
  <2>2. negative[i].key \in Key /\ negative[i].until \in Nat
      BY <2>1, Bounds DEF Entry
  <2>3. absentAt[negative[i].key] # None
      BY <2>1 DEF EntryHeld
  <2>4. /\ absentAt'[negative[i].key] # None
        /\ negative[i].until <= absentAt'[negative[i].key] + Deadline + TTL
      BY <1>2, <2>1, <2>2, <2>3, EntryKept
  <2> QED
      BY <2>1, <2>4 DEF EntryHeld
<1>6. RequestsHeld'
  <2> SUFFICES ASSUME NEW r \in Request PROVE RequestHeld(r)'
      BY <1>0 DEF ServingInv, RequestsHeld
  <2>1. RequestHeld(r) /\ requests' = requests /\ requests[r].step # "replay"
      BY <1>0 DEF Tick, ServingInv, RequestsHeld
  <2> QED
      BY <2>1 DEF RequestHeld
<1>7. LocalHeld'
    BY <1>0, Bounds DEF ServingInv, LocalHeld
<1> QED
    BY <1>3, <1>4, <1>5, <1>6, <1>7 DEF ServingInv

-----------------------------------------------------------------------------
(* The theorems *)

\* The invariant holds at the start and every step of RunServing, of the node and
\* of the clock keeps it.
THEOREM Invariance == Spec => []ServingInv
<1>1. Init => ServingInv
    BY InitHolds
<1>2. ServingInv /\ [Next]_vars => ServingInv'
  <2> SUFFICES ASSUME ServingInv, [Next]_vars PROVE ServingInv'
      OBVIOUS
  <2>1. CASE \E k \in Key : Write(k) \/ Confirm(k) \/ Finish(k) \/ ConfirmFails(k)
      BY <2>1, WriteHolds, ConfirmHolds, FinishHolds, ConfirmFailsHolds
  <2>2. CASE ApplyNext \/ Tick
      BY <2>2, ApplyNextHolds, TickHolds
  <2>3. CASE \E r \in Request, k \in Key : Lookup(r, k)
      BY <2>3, LookupHolds
  <2>4. CASE \E r \in Request : Answer(r)
      BY <2>4, LookupFailsHolds, DeniedHolds, NegativeHitHolds, LeadHolds, JoinHolds DEF Answer
  <2>5. CASE \E r \in Request : Replay(r) \/ Cancel(r) \/ Reuse(r)
      BY <2>5, ReplayHolds, CancelHolds, ReuseHolds
  <2>6. CASE UNCHANGED vars
    <3>1. FlightsHeld' /\ RequestsHeld'
        BY <2>6 DEF vars, ServingInv, FlightsHeld, FlightHeld, RequestsHeld, RequestHeld
    <3> QED
        BY <2>6, <3>1, ListKept, TimesKept, LocalKept DEF ServingInv, vars
  <2> QED
      BY <2>1, <2>2, <2>3, <2>4, <2>5, <2>6 DEF Next
<1> QED
    BY <1>1, <1>2, PTL DEF Spec

\* The list of remembered absences keeps its bound and one entry per key however
\* it is reordered, dropped from and added to, and every confirmation in progress
\* has exactly the caller that leads it.
THEOREM TypesHeld == Spec => []TypeOK
<1>1. ServingInv => TypeOK
  <2> SUFFICES ASSUME ServingInv PROVE TypeOK
      OBVIOUS
  <2>1. clock \in 0..MaxClock
      BY Bounds DEF ServingInv, Times, LocalHeld
  <2>2. IsInjective([i \in 1..Len(negative) |-> negative[i].key])
      BY DEF IsInjective, ServingInv, ListHeld, Single
  <2>3. \A k \in Key : flights[k] # None =>
          requests[flights[k].leader].step = "lead" /\ requests[flights[k].leader].key = k
      BY DEF ServingInv, FlightsHeld, FlightHeld
  <2>4. \A r \in Request : requests[r].step \in {"idle", "absent", "lead", "wait", "replay", "done"}
      BY DEF ServingInv, RequestsHeld, Call
  <2> QED
      BY <2>1, <2>2, <2>3, <2>4 DEF TypeOK, ServingInv, Times, LocalHeld, ListHeld
<1> QED
    BY <1>1, Invariance, PTL

\* A "not found", confirmed or remembered, is of an absence at the leader no older
\* than one confirmation and the time it is remembered, for every lag of the local
\* node and every number of callers that share the confirmation.
THEOREM Fresh == Spec => []DenialsFresh
<1>1. ServingInv => DenialsFresh
  <2> SUFFICES ASSUME ServingInv PROVE DenialsFresh
      OBVIOUS
  <2>1. AbsenceFresh
      BY DEF AbsenceFresh, KeyOf, ServingInv, RequestsHeld, RequestHeld
  <2>2. MemoryFresh
    <3> SUFFICES ASSUME NEW i \in 1..Len(negative)
                 PROVE  /\ negative[i].key \in Public
                        /\ clock < negative[i].until =>
                            /\ absentAt[negative[i].key] # None
                            /\ clock < absentAt[negative[i].key] + Deadline + TTL
        BY DEF MemoryFresh
    <3>1. negative[i] \in Entry /\ EntryHeld(negative[i])
        BY ElementOfSeq DEF ServingInv, ListHeld
    <3>2. negative[i].key \in Public /\ negative[i].key \in Key /\ negative[i].until \in Nat
        BY <3>1, Bounds DEF Entry
    <3>3. absentAt[negative[i].key] # None /\ absentAt[negative[i].key] \in Nat /\ clock \in Nat
        BY <3>1, <3>2 DEF EntryHeld, ServingInv, Times
    <3> QED
        BY <3>1, <3>2, <3>3, Bounds DEF EntryHeld
  <2> QED
      BY <2>1, <2>2 DEF DenialsFresh
<1> QED
    BY <1>1, Invariance, PTL

\* Whoever led the confirmation and whatever its callback decided, a caller that
\* is told about a record that was found is told its own decision.
THEOREM Decisions == Spec => []OwnDecision
<1>1. ServingInv => OwnDecision
    BY DEF OwnDecision, ServingInv, RequestsHeld, RequestHeld
<1> QED
    BY <1>1, Invariance, PTL

-----------------------------------------------------------------------------
(***************************************************************************)
(* The count of views.  ViewInv orders everything by revisions: a view is  *)
(* counted before it is revised, a snapshot has at least the views of its  *)
(* revision, a capture is newer than every snapshot of its day, and a      *)
(* snapshot with at least the revision that was marked, or with more than  *)
(* that of a deleted file, is on a disk while its day is kept.             *)
(***************************************************************************)

Boots == 1..MaxBoot
Dates == 0..MaxDay
Snap == [boot : Boots, day : Dates, sequence : Nat, stamp : Nat, total : Nat]
DayRec == [views : Nat, revision : Nat, persisted : Nat]
Viewing == [step : {"found", "counted"}, day : Dates]

\* The snapshots there are, and the calls between counting a view of d and
\* raising its revision.
Snapshots == Views!OnDisk \cup wire
Counting(d) == {v \in Viewer : viewers[v] = [step |-> "counted", day |-> d]}

\* Types.
ViewShape ==
    /\ today \in Dates /\ boot \in Boots /\ flushes \in Nat
    /\ DOMAIN days \subseteq Dates /\ \A d \in DOMAIN days : days[d] \in DayRec
    /\ viewers \in [Viewer -> Viewing \cup {Views!Idle}]
    /\ outbox \subseteq Snap /\ wire \subseteq Snap
    /\ files \in [Primary -> SUBSET Snap] /\ removed \in [Primary -> SUBSET (Boots \X Dates \X Nat)]
    /\ served \in [Boots \X Dates -> Nat] /\ kept \in [Boots \X Dates -> Nat]

\* A day in memory: a view is counted before it is revised, and what was marked
\* as captured was captured.
DayHeld(d) ==
    /\ IsFiniteSet(Counting(d)) /\ days[d].views = days[d].revision + Cardinality(Counting(d))
    /\ days[d].views <= served[<<boot, d>>]
    /\ days[d].persisted <= days[d].revision /\ days[d].persisted <= kept[<<boot, d>>]

DaysHeld == \A d \in DOMAIN days : DayHeld(d)

\* A day leaves the memory only when it is older than yesterday, so that no day
\* comes back while a call or a snapshot of this boot is about it.
ViewersHeld ==
    \A v \in Viewer : viewers[v] # Views!Idle /\ viewers[v].day \notin DOMAIN days => viewers[v].day < today - 1

\* What a snapshot says: no more revisions than views, no more views than were
\* served, and no more revisions than its day has by now.
SnapHeld(s) ==
    /\ s.boot <= boot /\ s.sequence <= s.total /\ s.total <= served[<<s.boot, s.day>>]
    /\ s.boot = boot => IF s.day \in DOMAIN days THEN s.sequence <= days[s.day].revision
                                                 ELSE s.day < today - 1

SnapsHeld == \A s \in Snapshots : SnapHeld(s)

\* The capture in progress is newer than what is marked and than every snapshot of
\* its day.
CaptureHeld(s) ==
    /\ s \in Snap /\ s.boot = boot /\ s.day \in DOMAIN days
    /\ days[s.day].persisted < s.sequence /\ s.sequence <= days[s.day].revision
    /\ \A g \in Snapshots : g.boot = boot /\ g.day = s.day => g.sequence <= s.sequence

FlushHeld ==
    /\ flush.step \in {"copy", "persist"} =>
        /\ CaptureHeld(flush.snapshot)
        /\ \E t : flush = [step |-> flush.step, todo |-> t, snapshot |-> flush.snapshot]
    /\ flush.step = "persist" =>
        LET s == flush.snapshot IN s.sequence <= s.total /\ s.total <= served[<<s.boot, s.day>>]

\* A snapshot of the day with at least n revisions is on a disk.
Held(b, d, n) == \E f \in Views!OnDisk : f.boot = b /\ f.day = d /\ f.sequence >= n

\* What a capture relied on, and more than any file that is known to be deleted,
\* is on a disk while its day is kept.
KeptHeld ==
    \A b \in Boots, d \in Dates : d >= Views!Cutoff /\ kept[<<b, d>>] > 0 => Held(b, d, kept[<<b, d>>])

RemovedHeld ==
    \A p \in Primary : \A n \in removed[p] : n[2] >= Views!Cutoff => Held(n[1], n[2], n[3] + 1)

NamesOnce == \A p \in Primary : \A f, g \in files[p] : Views!Name(f) = Views!Name(g) => f = g

ViewInv ==
    /\ ViewShape /\ DaysHeld /\ ViewersHeld /\ SnapsHeld /\ FlushHeld
    /\ KeptHeld /\ RemovedHeld /\ NamesOnce

\* The numbers.
LEMMA ViewNumbers == Retention \in Nat /\ MaxDay \in Nat /\ MaxBoot \in Nat /\ MaxBoot > 0
  BY ViewsAssumed DEF Views!ViewsAssumption

\* What is on disk, file by file.
LEMMA DiskIs ==
  ASSUME NEW f PROVE f \in Views!OnDisk <=> f \in outbox \/ \E p \in Primary : f \in files[p]
  BY DEF Views!OnDisk

\* The same after a step.
LEMMA DiskAfter ==
  ASSUME NEW f PROVE f \in Views!OnDisk' <=> f \in outbox' \/ \E p \in Primary : f \in files'[p]
  BY DEF Views!OnDisk

\* Every snapshot has its shape.
LEMMA SnapTypes == ASSUME ViewShape PROVE Snapshots \subseteq Snap
  BY DEF ViewShape, Snapshots, Views!OnDisk

\* Days only pass.
LEMMA CutoffMoves ==
  ASSUME ViewShape, today' \in Int, today' >= today
  PROVE  Views!Cutoff \in Int /\ Views!Cutoff' \in Int /\ Views!Cutoff' >= Views!Cutoff
<1>1. PICK x \in Int, y \in Int : x = today /\ y = today' BY ViewNumbers DEF ViewShape, Dates
<1>2. Views!Cutoff = x + 1 - Retention /\ Views!Cutoff' = y + 1 - Retention BY <1>1 DEF Views!Cutoff
<1>3. y >= x BY <1>1
<1> QED BY <1>2, <1>3, ViewNumbers

\* A step that loses nothing which is still kept.
Lossless == \A b, d : \A n \in Nat : d >= Views!Cutoff' /\ Held(b, d, n) => Held(b, d, n)'

\* Such a step keeps what is held of captures and of deleted files.
LEMMA StillHeld ==
  ASSUME ViewInv, Lossless, kept' = kept, today' \in Int, today' >= today,
         \A p \in Primary : \A n \in removed'[p] \ removed[p] : n[2] >= Views!Cutoff' => Held(n[1], n[2], n[3] + 1)'
  PROVE  KeptHeld' /\ RemovedHeld'
<1>1. Views!Cutoff \in Int /\ Views!Cutoff' \in Int /\ Views!Cutoff' >= Views!Cutoff BY CutoffMoves DEF ViewInv
<1>2. KeptHeld'
  <2> SUFFICES ASSUME NEW b \in Boots, NEW d \in Dates, d >= Views!Cutoff', kept[<<b, d>>] > 0
               PROVE  Held(b, d, kept[<<b, d>>])'
    BY DEF KeptHeld, Boots, Dates
  <2>1. d >= Views!Cutoff BY <1>1 DEF Dates
  <2>2. PICK n : n = kept[<<b, d>>] OBVIOUS
  <2>3. Held(b, d, n) /\ n \in Nat BY <2>1, <2>2 DEF ViewInv, KeptHeld, ViewShape
  <2>4. Held(b, d, n)' BY <2>3 DEF Lossless
  <2> QED BY <2>2, <2>4
<1>3. RemovedHeld'
  <2> SUFFICES ASSUME NEW p \in Primary, NEW n \in removed'[p], n[2] >= Views!Cutoff'
               PROVE  Held(n[1], n[2], n[3] + 1)'
    BY DEF RemovedHeld
  <2>1. CASE n \in removed[p]
    <3>1. n[2] \in Int BY <2>1 DEF ViewInv, ViewShape, Dates
    <3>2. n[2] >= Views!Cutoff BY <1>1, <3>1
    <3>3. Held(n[1], n[2], n[3] + 1) BY <2>1, <3>2 DEF ViewInv, RemovedHeld
    <3>4. n[3] + 1 \in Nat BY <2>1 DEF ViewInv, ViewShape
    <3> QED BY <3>3, <3>4 DEF Lossless
  <2>2. CASE n \notin removed[p] BY <2>2
  <2> QED BY <2>1, <2>2
<1> QED BY <1>2, <1>3

\* A step that writes no disk.
LEMMA DisksSame ==
  ASSUME ViewInv, UNCHANGED <<outbox, files, removed, kept>>, today' \in Int, today' >= today
  PROVE  KeptHeld' /\ RemovedHeld' /\ NamesOnce'
<1>1. Views!OnDisk' = Views!OnDisk BY DEF Views!OnDisk
<1>2. Lossless BY <1>1 DEF Lossless, Held
<1>3. NamesOnce' BY DEF ViewInv, NamesOnce, Views!Name
<1> QED BY <1>2, <1>3, StillHeld

\* A step that changes no counter.
LEMMA MemorySame ==
  ASSUME ViewInv, UNCHANGED <<today, boot, days, viewers, served, kept>>
  PROVE  DaysHeld' /\ ViewersHeld'
<1>1. \A d : Counting(d)' = Counting(d) BY DEF Counting
<1>2. DaysHeld' BY <1>1 DEF ViewInv, DaysHeld, DayHeld
<1> QED BY <1>2 DEF ViewInv, ViewersHeld

\* Such a step with no new snapshot, whose flush captures nothing or goes on.
LEMMA SnapsSame ==
  ASSUME ViewInv, UNCHANGED <<today, boot, days, viewers, served, kept>>, Snapshots' \subseteq Snapshots,
         flush' = flush \/ flush'.step \notin {"copy", "persist"}
  PROVE  SnapsHeld' /\ FlushHeld'
<1>1. SnapsHeld' BY DEF ViewInv, SnapsHeld, SnapHeld
<1>2. FlushHeld'
  <2>1. CASE flush' = flush BY <2>1 DEF ViewInv, FlushHeld, CaptureHeld
  <2>2. CASE flush'.step \notin {"copy", "persist"} BY <2>2 DEF FlushHeld
  <2> QED BY <2>1, <2>2
<1> QED BY <1>1, <1>2

\* What flush becomes after a part of its work.
LEMMA ThenIs == ASSUME NEW t, NEW u PROVE Views!Then(t, u).step \in {"days", "send", "idle"}
  BY DEF Views!Then, Views!Idle

\* The frames together: a step of the disks and the network.
LEMMA ArchiveStep ==
  ASSUME ViewInv, UNCHANGED <<today, boot, days, viewers, flushes, served, kept>>,
         Snapshots' \subseteq Snapshots, outbox' \subseteq Snap, wire' \subseteq Snap,
         files' \in [Primary -> SUBSET Snap], removed' \in [Primary -> SUBSET (Boots \X Dates \X Nat)],
         flush' = flush \/ flush'.step \notin {"copy", "persist"}, Lossless, NamesOnce',
         \A p \in Primary : \A n \in removed'[p] \ removed[p] : n[2] >= Views!Cutoff' => Held(n[1], n[2], n[3] + 1)'
  PROVE  ViewInv'
<1>1. today' \in Int /\ today' >= today BY ViewNumbers DEF ViewInv, ViewShape, Dates
<1>2. KeptHeld' /\ RemovedHeld' BY <1>1, StillHeld
<1>3. DaysHeld' /\ ViewersHeld' BY MemorySame
<1>4. SnapsHeld' /\ FlushHeld' BY SnapsSame
<1>5. ViewShape' BY DEF ViewInv, ViewShape, Boots, Dates, Snap, DayRec, Viewing, Views!Idle
<1> QED BY <1>2, <1>3, <1>4, <1>5 DEF ViewInv

\* An expired snapshot leaves the outbox.
LEMMA ExpireInv == ASSUME ViewInv, NEW s \in outbox, Views!Expire(s) PROVE ViewInv'
<1>1. /\ s.day < Views!Cutoff /\ outbox' = outbox \ {s} /\ flush' = Views!Then({}, flush.todo \ {s})
      /\ UNCHANGED <<today, boot, days, viewers, flushes, wire, files, removed, served, kept>>
  BY DEF Views!Expire
<1>2. Views!Cutoff' = Views!Cutoff /\ Views!Cutoff \in Int
  <2>1. Views!Cutoff' = Views!Cutoff BY <1>1 DEF Views!Cutoff
  <2>2. today' \in Int /\ today' >= today BY <1>1, ViewNumbers DEF ViewInv, ViewShape, Dates
  <2> QED BY <2>1, <2>2, CutoffMoves DEF ViewInv
<1>3. Views!OnDisk' \subseteq Views!OnDisk /\ Views!OnDisk \subseteq Views!OnDisk' \cup {s} BY <1>1 DEF Views!OnDisk
<1>4. Lossless
  <2> SUFFICES ASSUME NEW b, NEW d, NEW n \in Nat, d >= Views!Cutoff', Held(b, d, n) PROVE Held(b, d, n)'
    BY DEF Lossless
  <2>1. PICK f \in Views!OnDisk : f.boot = b /\ f.day = d /\ f.sequence >= n BY DEF Held
  <2>2. f # s
    <3>1. s.day \in Int BY DEF ViewInv, ViewShape, Snap, Dates
    <3> QED BY <1>1, <1>2, <2>1, <3>1
  <2> QED BY <1>3, <2>1, <2>2 DEF Held
<1>5. Snapshots' \subseteq Snapshots BY <1>1, <1>3 DEF Snapshots
<1>6. NamesOnce' BY <1>1 DEF ViewInv, NamesOnce, Views!Name
<1>7. flush'.step \notin {"copy", "persist"} BY <1>1, ThenIs
<1> QED BY <1>1, <1>4, <1>5, <1>6, <1>7, ArchiveStep DEF ViewInv, ViewShape

\* A step that leaves what is on disk.
LEMMA NetStep ==
  ASSUME ViewInv, UNCHANGED <<today, boot, days, viewers, flushes, outbox, files, removed, served, kept>>,
         wire' \subseteq Snapshots,
         flush' = flush \/ flush'.step \notin {"copy", "persist"}
  PROVE  ViewInv'
<1>1. Views!OnDisk' = Views!OnDisk BY DEF Views!OnDisk
<1>2. Lossless BY <1>1 DEF Lossless, Held
<1>3. Snapshots' \subseteq Snapshots BY <1>1 DEF Snapshots
<1>4. wire' \subseteq Snap BY SnapTypes DEF ViewInv
<1>5. NamesOnce' BY DEF ViewInv, NamesOnce, Views!Name
<1> QED BY <1>2, <1>3, <1>4, <1>5, ArchiveStep DEF ViewInv, ViewShape

\* A submission is sent.
LEMMA SendInv == ASSUME ViewInv, NEW s \in outbox, Views!Send(s) PROVE ViewInv'
<1>1. /\ wire' = wire \cup {s}
      /\ UNCHANGED <<today, boot, days, viewers, flushes, outbox, files, removed, served, kept>>
  BY DEF Views!Send
<1>2. flush'.step = "wait" BY DEF Views!Send
<1>3. wire' \subseteq Snapshots BY <1>1 DEF Snapshots, Views!OnDisk
<1> QED BY <1>1, <1>2, <1>3, NetStep

\* A flush is given up; its submission may still be executed.
LEMMA GiveUpInv == ASSUME ViewInv, Views!GiveUp PROVE ViewInv'
<1>1. /\ UNCHANGED <<today, boot, days, viewers, flushes, outbox, wire, files, removed, served, kept>>
      /\ flush' = Views!Idle
  BY DEF Views!GiveUp
<1>2. flush'.step \notin {"copy", "persist"} BY <1>1 DEF Views!Idle
<1>3. wire' \subseteq Snapshots BY <1>1 DEF Snapshots
<1> QED BY <1>1, <1>2, <1>3, NetStep

\* Sweep removes what is expired.
LEMMA SweepInv == ASSUME ViewInv, NEW p \in Primary, Views!Sweep(p) PROVE ViewInv'
<1> DEFINE old == {f \in files[p] : f.day < Views!Cutoff}
<1>1. /\ files' = [files EXCEPT ![p] = @ \ old]
      /\ removed' = [removed EXCEPT ![p] = @ \cup {Views!Name(f) : f \in old}]
      /\ UNCHANGED <<today, boot, days, viewers, flush, flushes, outbox, wire, served, kept>>
  BY DEF Views!Sweep
<1>2. Views!Cutoff' = Views!Cutoff /\ Views!Cutoff \in Int
  <2>1. Views!Cutoff' = Views!Cutoff BY <1>1 DEF Views!Cutoff
  <2>2. today' \in Int /\ today' >= today BY <1>1, ViewNumbers DEF ViewInv, ViewShape, Dates
  <2> QED BY <2>1, <2>2, CutoffMoves DEF ViewInv
<1>3. /\ files'[p] = files[p] \ old /\ \A q \in Primary \ {p} : files'[q] = files[q]
      /\ removed'[p] = removed[p] \cup {Views!Name(f) : f \in old}
      /\ \A q \in Primary \ {p} : removed'[q] = removed[q]
  BY <1>1 DEF ViewInv, ViewShape
<1>4. \A f \in old : f \in Snap /\ f.day < Views!Cutoff BY DEF ViewInv, ViewShape
<1>5. {Views!Name(f) : f \in old} \subseteq Boots \X Dates \X Nat BY <1>4 DEF Views!Name, Snap
<1>6. files' \in [Primary -> SUBSET Snap] BY <1>1 DEF ViewInv, ViewShape
<1>7. removed' \in [Primary -> SUBSET (Boots \X Dates \X Nat)] BY <1>1, <1>5 DEF ViewInv, ViewShape
<1>8. Lossless
  <2> SUFFICES ASSUME NEW b, NEW d, NEW n \in Nat, d >= Views!Cutoff', Held(b, d, n) PROVE Held(b, d, n)'
    BY DEF Lossless
  <2>1. PICK f \in Views!OnDisk : f.boot = b /\ f.day = d /\ f.sequence >= n BY DEF Held
  <2>2. f \notin old
    <3> SUFFICES ASSUME f \in old PROVE FALSE OBVIOUS
    <3>1. f.day \in Int /\ f.day < Views!Cutoff BY <1>4 DEF Snap, Dates
    <3> QED BY <1>2, <2>1, <3>1
  <2> HIDE DEF old
  <2>3. f \in Views!OnDisk' BY <1>1, <1>3, <2>1, <2>2, DiskIs, DiskAfter
  <2> QED BY <2>1, <2>3 DEF Held
<1>9. \A q \in Primary : \A n \in removed'[q] \ removed[q] : n[2] < Views!Cutoff
  <2> SUFFICES ASSUME NEW q \in Primary, NEW n \in removed'[q] \ removed[q] PROVE n[2] < Views!Cutoff
    OBVIOUS
  <2>1. PICK f \in old : n = Views!Name(f) BY <1>3
  <2> QED BY <1>4, <2>1 DEF Views!Name
<1>10. \A q \in Primary : \A n \in removed'[q] \ removed[q] : ~(n[2] >= Views!Cutoff')
  <2> SUFFICES ASSUME NEW q \in Primary, NEW n \in removed'[q] \ removed[q] PROVE ~(n[2] >= Views!Cutoff')
    OBVIOUS
  <2>1. n[2] \in Int BY <1>7 DEF Dates
  <2> QED BY <1>2, <1>9, <2>1
<1> HIDE DEF old
<1>11. \A q \in Primary : files'[q] \subseteq files[q] BY <1>3
<1>12. NamesOnce' BY <1>11 DEF ViewInv, NamesOnce, Views!Name
<1>13. Snapshots' \subseteq Snapshots BY <1>1, <1>11 DEF Snapshots, Views!OnDisk
<1> QED BY <1>1, <1>6, <1>7, <1>8, <1>10, <1>12, <1>13, ArchiveStep DEF ViewInv, ViewShape

\* Replication of a file: of two files of one name either may win.
LEMMA ReplicateInv ==
  ASSUME ViewInv, NEW p \in Primary, NEW q \in Primary, NEW f \in files[p], Views!Replicate(p, q, f)
  PROVE  ViewInv'
<1> DEFINE new == {g \in files[q] : Views!Name(g) # Views!Name(f)} \cup {f}
<1>1. /\ files' = [files EXCEPT ![q] = new]
      /\ UNCHANGED <<today, boot, days, viewers, flush, flushes, outbox, wire, removed, served, kept>>
  BY DEF Views!Replicate
<1>2. files'[q] = new /\ \A r \in Primary \ {q} : files'[r] = files[r] BY <1>1 DEF ViewInv, ViewShape
<1>3. f \in Snap /\ files[q] \subseteq Snap BY DEF ViewInv, ViewShape
<1>4. files' \in [Primary -> SUBSET Snap] BY <1>1, <1>3 DEF ViewInv, ViewShape
<1>5. Lossless
  <2> SUFFICES ASSUME NEW b, NEW d, NEW n \in Nat, Held(b, d, n) PROVE Held(b, d, n)' BY DEF Lossless
  <2>1. PICK g \in Views!OnDisk : g.boot = b /\ g.day = d /\ g.sequence >= n BY DEF Held
  <2>2. CASE g \in files[q] /\ Views!Name(g) = Views!Name(f)
    <3>1. f.boot = b /\ f.day = d /\ f.sequence >= n BY <2>1, <2>2 DEF Views!Name
    <3>2. f \in Views!OnDisk' BY <1>2, DiskAfter
    <3> QED BY <3>1, <3>2 DEF Held
  <2>3. CASE ~(g \in files[q] /\ Views!Name(g) = Views!Name(f))
    <3>1. g \in Views!OnDisk' BY <1>1, <1>2, <2>1, <2>3, DiskIs, DiskAfter
    <3> QED BY <2>1, <3>1 DEF Held
  <2> QED BY <2>2, <2>3
<1>6. NamesOnce'
  <2> SUFFICES ASSUME NEW r \in Primary, NEW g \in files'[r], NEW h \in files'[r], Views!Name(g) = Views!Name(h)
               PROVE  g = h
    BY DEF NamesOnce, Views!Name
  <2>1. CASE r # q BY <1>2, <2>1 DEF ViewInv, NamesOnce
  <2>2. CASE r = q BY <1>2, <2>2 DEF ViewInv, NamesOnce
  <2> QED BY <2>1, <2>2
<1>7. Snapshots' \subseteq Snapshots
  <2>1. \A r \in Primary : files'[r] \subseteq files[r] \cup {f} BY <1>2
  <2>2. f \in Views!OnDisk BY DEF Views!OnDisk
  <2> QED BY <1>1, <2>1, <2>2 DEF Snapshots, Views!OnDisk
<1> QED BY <1>1, <1>4, <1>5, <1>6, <1>7, ArchiveStep DEF ViewInv, ViewShape

\* Replication of a deletion: a newer file is on some disk.
LEMMA ReplicateRemovalInv ==
  ASSUME ViewInv, NEW p \in Primary, NEW q \in Primary, Views!ReplicateRemoval(p, q) PROVE ViewInv'
<1>0. PICK f \in files[q] :
        /\ Views!Name(f) \in removed[p]
        /\ files' = [files EXCEPT ![q] = @ \ {f}]
        /\ removed' = [removed EXCEPT ![q] = @ \cup {Views!Name(f)}]
  BY DEF Views!ReplicateRemoval
<1>1. UNCHANGED <<today, boot, days, viewers, flush, flushes, outbox, wire, served, kept>>
  BY DEF Views!ReplicateRemoval
<1>2. /\ files'[q] = files[q] \ {f} /\ \A r \in Primary \ {q} : files'[r] = files[r]
      /\ removed'[q] = removed[q] \cup {Views!Name(f)}
      /\ \A r \in Primary \ {q} : removed'[r] = removed[r]
  BY <1>0 DEF ViewInv, ViewShape
<1>3. f \in Snap /\ Views!Name(f) \in Boots \X Dates \X Nat BY DEF ViewInv, ViewShape, Snap, Views!Name
<1>4. files' \in [Primary -> SUBSET Snap] /\ removed' \in [Primary -> SUBSET (Boots \X Dates \X Nat)]
  BY <1>0, <1>3 DEF ViewInv, ViewShape
<1>5. Views!Cutoff' = Views!Cutoff BY <1>1 DEF Views!Cutoff
<1>6. \A g \in Views!OnDisk : g # f => g \in Views!OnDisk' BY <1>1, <1>2, DiskIs, DiskAfter
<1>7. ASSUME f.day >= Views!Cutoff
      PROVE  \E g \in Views!OnDisk' : g.boot = f.boot /\ g.day = f.day /\ g.sequence >= f.sequence + 1
  <2>1. Views!Name(f)[1] = f.boot /\ Views!Name(f)[2] = f.day /\ Views!Name(f)[3] = f.sequence BY DEF Views!Name
  <2>2. Held(f.boot, f.day, f.sequence + 1) BY <1>0, <1>7, <2>1 DEF ViewInv, RemovedHeld
  <2>3. PICK g \in Views!OnDisk : g.boot = f.boot /\ g.day = f.day /\ g.sequence >= f.sequence + 1
    BY <2>2 DEF Held
  <2>4. g # f BY <1>3, <2>3 DEF Snap
  <2> QED BY <1>6, <2>3, <2>4
<1>8. Lossless
  <2> SUFFICES ASSUME NEW b, NEW d, NEW n \in Nat, d >= Views!Cutoff', Held(b, d, n) PROVE Held(b, d, n)'
    BY DEF Lossless
  <2>1. PICK g \in Views!OnDisk : g.boot = b /\ g.day = d /\ g.sequence >= n BY DEF Held
  <2>2. CASE g # f BY <1>6, <2>1, <2>2 DEF Held
  <2>3. CASE g = f
    <3>1. PICK h \in Views!OnDisk' : h.boot = b /\ h.day = d /\ h.sequence >= f.sequence + 1
      BY <1>5, <1>7, <2>1, <2>3
    <3>2. h \in Snap BY <1>1, <1>4, DiskAfter DEF ViewInv, ViewShape
    <3>3. h.sequence >= n BY <1>3, <2>1, <2>3, <3>1, <3>2 DEF Snap
    <3> QED BY <3>1, <3>3 DEF Held
  <2> QED BY <2>2, <2>3
<1>9. \A r \in Primary : \A n \in removed'[r] \ removed[r] : n[2] >= Views!Cutoff' => Held(n[1], n[2], n[3] + 1)'
  <2> SUFFICES ASSUME NEW r \in Primary, NEW n \in removed'[r] \ removed[r], n[2] >= Views!Cutoff'
               PROVE  Held(n[1], n[2], n[3] + 1)'
    OBVIOUS
  <2>1. n = Views!Name(f) BY <1>2
  <2>2. n[1] = f.boot /\ n[2] = f.day /\ n[3] = f.sequence BY <2>1 DEF Views!Name
  <2> QED BY <1>5, <1>7, <2>2 DEF Held
<1>10. \A r \in Primary : files'[r] \subseteq files[r] BY <1>2
<1>11. NamesOnce' BY <1>10 DEF ViewInv, NamesOnce, Views!Name
<1>12. Snapshots' \subseteq Snapshots BY <1>1, <1>10 DEF Snapshots, Views!OnDisk
<1> QED BY <1>1, <1>4, <1>8, <1>9, <1>11, <1>12, ArchiveStep DEF ViewInv, ViewShape

\* A primary executes a submission: what it deletes is older than what it stores, and
\* what leaves the outbox is expired or in an archive, itself or a newer one.
LEMMA AcceptInv == ASSUME ViewInv, NEW p \in Primary, NEW s \in wire, Views!Accept(p, s) PROVE ViewInv'
<1> DEFINE gone == Views!Superseded(p, s)
<1>1. /\ wire' = wire \ {s}
      /\ files' = IF Views!Stores(p, s) THEN [files EXCEPT ![p] = (@ \cup {s}) \ gone] ELSE files
      /\ removed' = IF Views!Stores(p, s)
                    THEN [removed EXCEPT ![p] = (@ \ {Views!Name(s)}) \cup {Views!Name(f) : f \in gone}]
                    ELSE removed
      /\ UNCHANGED <<today, boot, days, viewers, flushes, served, kept>>
  BY DEF Views!Accept
<1>2. \/ Views!Acknowledges(p, s) /\ outbox' = outbox \ {s} /\ flush'.step \notin {"copy", "persist"}
      \/ UNCHANGED <<outbox, flush>>
  BY ThenIs DEF Views!Accept
<1>3. s \in Snap /\ files[p] \subseteq Snap BY DEF ViewInv, ViewShape
<1>4. \A f \in gone : f \in files[p] /\ f.boot = s.boot /\ f.day = s.day /\ f.sequence < s.sequence
  BY DEF Views!Superseded, Views!Older, Views!OfProducer
<1>5. s \notin gone
  <2>1. ~(s.sequence < s.sequence) BY <1>3 DEF Snap
  <2> QED BY <1>4, <2>1
<1> HIDE DEF gone
<1>6. {Views!Name(f) : f \in gone} \subseteq Boots \X Dates \X Nat BY <1>3, <1>4 DEF Views!Name, Snap
<1>7. files' \in [Primary -> SUBSET Snap] BY <1>1, <1>3 DEF ViewInv, ViewShape
<1>8. removed' \in [Primary -> SUBSET (Boots \X Dates \X Nat)] BY <1>1, <1>6 DEF ViewInv, ViewShape
<1>9. Views!Cutoff' = Views!Cutoff BY <1>1 DEF Views!Cutoff
<1>10. /\ \A q \in Primary \ {p} : files'[q] = files[q] /\ removed'[q] = removed[q]
       /\ Views!Stores(p, s) => /\ files'[p] = (files[p] \cup {s}) \ gone
                          /\ removed'[p] = (removed[p] \ {Views!Name(s)}) \cup {Views!Name(f) : f \in gone}
       /\ ~Views!Stores(p, s) => files'[p] = files[p] /\ removed'[p] = removed[p]
  BY <1>1 DEF ViewInv, ViewShape
<1>11. Views!Stores(p, s) => s \in Views!OnDisk' BY <1>5, <1>10, DiskAfter
<1>12. ASSUME s.day >= Views!Cutoff, Views!Acknowledges(p, s)
       PROVE  \E g \in Views!OnDisk' : g.boot = s.boot /\ g.day = s.day /\ g.sequence >= s.sequence
  <2>0. s.sequence \in Int /\ s.sequence >= s.sequence BY <1>3 DEF Snap
  <2>1. CASE Views!Stores(p, s) BY <1>11, <2>0, <2>1
  <2>2. CASE ~Views!Stores(p, s) /\ Views!Higher(p, s) # {}
    <3>1. PICK g \in files[p] : g.boot = s.boot /\ g.day = s.day /\ g.sequence > s.sequence
      BY <2>2 DEF Views!Higher, Views!OfProducer
    <3>2. g \in Views!OnDisk' BY <1>10, <2>2, DiskAfter
    <3>3. g.sequence >= s.sequence BY <1>3, <2>0, <3>1 DEF Snap
    <3> QED BY <3>1, <3>2, <3>3
  <2>3. CASE ~Views!Stores(p, s) /\ s \in files[p]
    <3>1. s \in Views!OnDisk' BY <1>10, <2>3, DiskAfter
    <3> QED BY <2>0, <3>1
  <2>4. ~(s.day < Views!Cutoff)
    <3>1. s.day \in Int /\ Views!Cutoff \in Int
      <4>1. s.day \in Int BY <1>3 DEF Snap, Dates
      <4>2. today' \in Int /\ today' >= today BY <1>1, ViewNumbers DEF ViewInv, ViewShape, Dates
      <4> QED BY <4>1, <4>2, CutoffMoves DEF ViewInv
    <3> QED BY <1>12, <3>1
  <2> QED BY <1>12, <2>1, <2>2, <2>3, <2>4 DEF Views!Acknowledges
<1>13. Lossless
  <2> SUFFICES ASSUME NEW b, NEW d, NEW n \in Nat, d >= Views!Cutoff', Held(b, d, n) PROVE Held(b, d, n)'
    BY DEF Lossless
  <2>1. PICK g \in Views!OnDisk : g.boot = b /\ g.day = d /\ g.sequence >= n BY DEF Held
  <2>0. g \in Snap BY SnapTypes DEF ViewInv, Snapshots
  <2>2. CASE g \in Views!OnDisk' BY <2>1, <2>2 DEF Held
  <2>3. CASE g \notin Views!OnDisk' /\ g = s
    <3>1. Views!Acknowledges(p, s) \/ (UNCHANGED outbox /\ g \notin outbox) BY <1>2, <2>3, DiskAfter
    <3>2. ASSUME g \in files[p], ~Views!Acknowledges(p, s) PROVE FALSE BY <2>3, <3>2 DEF Views!Acknowledges
    <3>3. Views!Acknowledges(p, s)
      <4> SUFFICES ASSUME ~Views!Acknowledges(p, s) PROVE FALSE OBVIOUS
      <4>1. \E q \in Primary : g \in files[q] /\ q # p BY <2>1, <3>1, <3>2, DiskIs
      <4> QED BY <1>10, <2>3, <4>1, DiskAfter
    <3>4. PICK h \in Views!OnDisk' : h.boot = s.boot /\ h.day = s.day /\ h.sequence >= s.sequence
      BY <1>9, <1>12, <2>1, <2>3, <3>3
    <3>5. h \in Snap BY <1>2, <1>7, DiskAfter DEF ViewInv, ViewShape
    <3>6. h.sequence >= n BY <1>3, <2>1, <2>3, <3>4, <3>5 DEF Snap
    <3> QED BY <2>1, <2>3, <3>4, <3>6 DEF Held
  <2>4. CASE g \notin Views!OnDisk' /\ g # s
    <3>1. g \notin outbox BY <1>2, <2>4, DiskAfter
    <3>2. Views!Stores(p, s) /\ g \in gone BY <1>10, <2>1, <2>4, <3>1, DiskIs, DiskAfter
    <3>3. s.sequence >= n BY <1>3, <1>4, <2>0, <2>1, <3>2 DEF Snap
    <3> QED BY <1>4, <1>11, <2>1, <3>2, <3>3 DEF Held
  <2> QED BY <2>2, <2>3, <2>4
<1>14. \A q \in Primary : \A n \in removed'[q] \ removed[q] : n[2] >= Views!Cutoff' => Held(n[1], n[2], n[3] + 1)'
  <2> SUFFICES ASSUME NEW q \in Primary, NEW n \in removed'[q] \ removed[q]
               PROVE  Held(n[1], n[2], n[3] + 1)'
    OBVIOUS
  <2>1. Views!Stores(p, s) /\ n \in {Views!Name(f) : f \in gone} BY <1>10
  <2>2. PICK f \in gone : n = Views!Name(f) BY <2>1
  <2>3. n[1] = s.boot /\ n[2] = s.day /\ n[3] = f.sequence BY <1>4, <2>2 DEF Views!Name
  <2>4. s.sequence >= n[3] + 1 BY <1>3, <1>4, <2>3 DEF Snap
  <2> QED BY <1>11, <2>1, <2>3, <2>4 DEF Held
<1>15. NamesOnce'
  <2> SUFFICES ASSUME NEW r \in Primary, NEW g \in files'[r], NEW h \in files'[r], Views!Name(g) = Views!Name(h)
               PROVE  g = h
    BY DEF NamesOnce, Views!Name
  <2>1. CASE g \in files[r] /\ h \in files[r] BY <2>1 DEF ViewInv, NamesOnce
  <2>2. CASE ~(g \in files[r] /\ h \in files[r])
    <3>1. r = p /\ Views!Stores(p, s) BY <1>10, <2>2
    <3>2. \A f \in files[p] : Views!Name(f) # Views!Name(s)
      <4> SUFFICES ASSUME NEW f \in files[p], Views!Name(f) = Views!Name(s) PROVE FALSE OBVIOUS
      <4>1. f.boot = s.boot /\ f.day = s.day /\ f.sequence = s.sequence BY DEF Views!Name
      <4>2. f.sequence < s.sequence BY <3>1, <4>1 DEF Views!Stores, Views!OfProducer
      <4> QED BY <1>3, <4>1, <4>2 DEF Snap
    <3> QED BY <1>10, <2>2, <3>1, <3>2
  <2> QED BY <2>1, <2>2
<1>16. Snapshots' \subseteq Snapshots
  <2>1. \A r \in Primary : files'[r] \subseteq files[r] \cup {s} BY <1>10
  <2>2. outbox' \subseteq outbox BY <1>2
  <2> QED BY <1>1, <2>1, <2>2 DEF Snapshots, Views!OnDisk
<1> QED BY <1>1, <1>2, <1>7, <1>8, <1>13, <1>14, <1>15, <1>16, ArchiveStep DEF ViewInv, ViewShape

\* A step of the flush alone.
LEMMA FlushStep ==
  ASSUME ViewInv, UNCHANGED <<today, boot, days, viewers, flushes, outbox, wire, files, removed, served, kept>>,
         FlushHeld'
  PROVE  ViewInv'
<1>1. today' \in Int /\ today' >= today BY ViewNumbers DEF ViewInv, ViewShape, Dates
<1>2. KeptHeld' /\ RemovedHeld' /\ NamesOnce' BY <1>1, DisksSame
<1>3. DaysHeld' /\ ViewersHeld' BY MemorySame
<1>4. Snapshots' = Snapshots BY DEF Snapshots, Views!OnDisk
<1>5. SnapsHeld' BY <1>4 DEF ViewInv, SnapsHeld, SnapHeld
<1>6. ViewShape' BY DEF ViewInv, ViewShape, Boots, Dates, Snap, DayRec, Viewing, Views!Idle
<1> QED BY <1>2, <1>3, <1>5, <1>6 DEF ViewInv

\* The revision is read first; every snapshot of the day has at most that one.
LEMMA CaptureInv == ASSUME ViewInv, NEW d \in Dates, Views!Capture(d) PROVE ViewInv'
<1>1. UNCHANGED <<today, boot, days, viewers, flushes, outbox, wire, files, removed, served, kept>>
  BY DEF Views!Capture
<1>2. CASE d \notin DOMAIN days \/ Views!Clean(d)
  <2>1. flush'.step \notin {"copy", "persist"} BY <1>2, ThenIs DEF Views!Capture
  <2>2. FlushHeld' BY <2>1 DEF FlushHeld
  <2> QED BY <1>1, <2>2, FlushStep
<1>3. CASE d \in DOMAIN days /\ ~Views!Clean(d)
  <2>0. PICK s, t :
          /\ s = [boot |-> boot, day |-> d, sequence |-> days[d].revision, stamp |-> flushes, total |-> 0]
          /\ flush' = [step |-> "copy", todo |-> t, snapshot |-> s]
    BY <1>3 DEF Views!Capture
  <2>1. flush'.step = "copy" /\ flush'.snapshot = s
        /\ flush' = [step |-> flush'.step, todo |-> t, snapshot |-> flush'.snapshot]
    BY <2>0
  <2>2. days[d] \in DayRec /\ DayHeld(d) BY <1>3 DEF ViewInv, ViewShape, DaysHeld
  <2>3. s \in Snap BY <2>0, <2>2 DEF ViewInv, ViewShape, Snap, DayRec
  <2>4. s.boot = boot /\ s.day = d /\ s.sequence = days[d].revision BY <2>0
  <2>5. days[d].persisted < days[d].revision
    <3>1. days[d].persisted # days[d].revision BY <1>3 DEF Views!Clean
    <3> QED BY <2>2, <3>1 DEF DayHeld, DayRec
  <2>6. s.sequence <= days[d].revision BY <2>2, <2>4 DEF DayRec
  <2>7. \A g \in Snapshots : g.boot = boot /\ g.day = d => g.sequence <= s.sequence
    BY <1>3, <2>4 DEF ViewInv, SnapsHeld, SnapHeld
  <2>8. CaptureHeld(s) BY <1>3, <2>3, <2>4, <2>5, <2>6, <2>7 DEF CaptureHeld
  <2>9. CaptureHeld(s)' BY <1>1, <2>8 DEF CaptureHeld, Snapshots, Views!OnDisk, Snap
  <2>10. FlushHeld' BY <2>1, <2>9 DEF FlushHeld, CaptureHeld, Snapshots, Views!OnDisk, Snap
  <2> QED BY <1>1, <2>10, FlushStep
<1> QED BY <1>2, <1>3

\* The counter is read after the revision, so that it has every view the revision has.
LEMMA CopyInv == ASSUME ViewInv, Views!Copy PROVE ViewInv'
<1>1. /\ flush.step = "copy"
      /\ flush' = [flush EXCEPT !.step = "persist", !.snapshot = Views!Copied(flush.snapshot)]
      /\ UNCHANGED <<today, boot, days, viewers, flushes, outbox, wire, files, removed, served, kept>>
  BY DEF Views!Copy
<1>2. PICK s, t : flush = [step |-> "copy", todo |-> t, snapshot |-> s]
  BY <1>1 DEF ViewInv, FlushHeld
<1>3. CaptureHeld(s)
  <2>1. flush.snapshot = s BY <1>2
  <2> QED BY <1>1, <2>1 DEF ViewInv, FlushHeld
<1>4. PICK c : c = Views!Copied(s) OBVIOUS
<1>5. flush' = [step |-> "persist", todo |-> t, snapshot |-> c] BY <1>1, <1>2, <1>4
<1>6. days[s.day] \in DayRec /\ DayHeld(s.day) BY <1>3 DEF ViewInv, ViewShape, DaysHeld, CaptureHeld
<1>7. /\ c \in Snap /\ c.boot = s.boot /\ c.day = s.day /\ c.sequence = s.sequence
      /\ c.total = days[s.day].views
  BY <1>3, <1>4, <1>6 DEF Views!Copied, CaptureHeld, Snap, DayRec
<1>8. days[s.day].revision <= days[s.day].views
  <2>1. Cardinality(Counting(s.day)) \in Nat BY <1>6, FS_CardinalityType DEF DayHeld
  <2> QED BY <1>6, <2>1 DEF DayHeld, DayRec
<1>9. c.sequence <= c.total /\ c.total <= served[<<c.boot, c.day>>]
  <2>1. s.sequence \in Nat /\ s.boot = boot /\ s.sequence <= days[s.day].revision BY <1>3 DEF CaptureHeld, Snap
  <2> QED BY <1>6, <1>7, <1>8, <2>1 DEF DayHeld, DayRec
<1>10. CaptureHeld(c)' BY <1>1, <1>3, <1>7 DEF CaptureHeld, Snapshots, Views!OnDisk
<1>11. /\ flush'.step = "persist" /\ flush'.snapshot = c
       /\ flush' = [step |-> flush'.step, todo |-> t, snapshot |-> flush'.snapshot]
  BY <1>5
<1>12. FlushHeld' BY <1>1, <1>9, <1>10, <1>11 DEF FlushHeld
<1> QED BY <1>1, <1>12, FlushStep

\* The snapshot replaces older ones of its day; only then is its revision marked.
LEMMA PersistInv ==
  ASSUME ViewInv, NEW written \in BOOLEAN, NEW ok \in BOOLEAN, Views!Persist(written, ok) PROVE ViewInv'
<1>0. PICK s : s = flush.snapshot OBVIOUS
<1>1. /\ flush.step = "persist" /\ (ok => written)
      /\ outbox' = IF written THEN Views!Replaced(s) ELSE outbox
      /\ days' = IF ok THEN Views!Marked(s) ELSE days
      /\ kept' = IF ok THEN [kept EXCEPT ![<<s.boot, s.day>>] = s.sequence] ELSE kept
      /\ UNCHANGED <<today, boot, viewers, flushes, wire, files, removed, served>>
  BY <1>0 DEF Views!Persist
<1>2. flush'.step \notin {"copy", "persist"} BY ThenIs DEF Views!Persist
<1>3. /\ CaptureHeld(s) /\ s.sequence <= s.total /\ s.total <= served[<<s.boot, s.day>>]
  BY <1>0, <1>1 DEF ViewInv, FlushHeld
<1>4. /\ s \in Snap /\ s.boot = boot /\ s.day \in DOMAIN days /\ s.boot \in Boots /\ s.day \in Dates
      /\ s.sequence \in Nat /\ days[s.day] \in DayRec /\ DayHeld(s.day)
  BY <1>3 DEF CaptureHeld, Snap, ViewInv, ViewShape, DaysHeld
<1>5. DOMAIN days' = DOMAIN days /\ \A d \in DOMAIN days : days'[d] \in DayRec /\ days'[d].revision = days[d].revision
      /\ days'[d].views = days[d].views
  BY <1>1, <1>4 DEF Views!Marked, DayRec, ViewInv, ViewShape
<1>6. /\ \A d \in DOMAIN days : d # s.day => days'[d] = days[d]
      /\ ok => days'[s.day].persisted = s.sequence /\ kept'[<<s.boot, s.day>>] = s.sequence
      /\ ~ok => days' = days /\ kept' = kept
  BY <1>1, <1>4 DEF Views!Marked, ViewInv, ViewShape, DayRec
<1>7. /\ kept' \in [Boots \X Dates -> Nat]
      /\ \A x \in Boots \X Dates : x # <<s.boot, s.day>> => kept'[x] = kept[x]
  BY <1>1, <1>4 DEF ViewInv, ViewShape
<1>8. Snapshots' \subseteq Snapshots \cup {s} BY <1>1 DEF Snapshots, Views!OnDisk, Views!Replaced
<1>9. ViewShape'
  <2>1. outbox' \subseteq Snap BY <1>1, <1>4 DEF Views!Replaced, ViewInv, ViewShape
  <2> QED BY <1>1, <1>5, <1>7, <2>1 DEF ViewInv, ViewShape, Boots, Dates, Snap, DayRec, Viewing, Views!Idle
<1>10. DaysHeld'
  <2> SUFFICES ASSUME NEW d \in DOMAIN days PROVE DayHeld(d)' BY <1>5 DEF DaysHeld
  <2>1. Counting(d)' = Counting(d) BY <1>1 DEF Counting
  <2>2. DayHeld(d) /\ d \in Dates /\ boot \in Boots /\ days[d] \in DayRec BY DEF ViewInv, DaysHeld, ViewShape
  <2>3. CASE d = s.day /\ ok
    <3>1. days'[d].persisted <= days[d].revision /\ days'[d].persisted <= kept'[<<boot, d>>]
      BY <1>3, <1>4, <1>6, <2>3 DEF CaptureHeld
    <3> QED BY <1>1, <1>5, <2>1, <2>2, <3>1 DEF DayHeld
  <2>4. CASE ~(d = s.day /\ ok)
    <3>1. days'[d] = days[d] BY <1>6, <2>4
    <3>2. kept'[<<boot, d>>] = kept[<<boot, d>>] BY <1>6, <1>7, <2>2, <2>4
    <3> QED BY <1>1, <2>1, <2>2, <3>1, <3>2 DEF DayHeld
  <2> QED BY <2>3, <2>4
<1>11. ViewersHeld' BY <1>1, <1>5 DEF ViewInv, ViewersHeld
<1>12. SnapsHeld'
  <2> SUFFICES ASSUME NEW g \in Snapshots \cup {s} PROVE SnapHeld(g)' BY <1>8 DEF SnapsHeld
  <2>1. SnapHeld(g)
    <3>1. CASE g \in Snapshots BY <3>1 DEF ViewInv, SnapsHeld
    <3>2. CASE g = s BY <1>3, <1>4, <3>2 DEF SnapHeld, CaptureHeld, Boots
    <3> QED BY <3>1, <3>2
  <2> QED BY <1>1, <1>5, <2>1 DEF SnapHeld
<1>13. FlushHeld' BY <1>2 DEF FlushHeld
<1>14. Views!Cutoff' = Views!Cutoff /\ Views!Cutoff \in Int
  <2>1. Views!Cutoff' = Views!Cutoff BY <1>1 DEF Views!Cutoff
  <2>2. today' \in Int /\ today' >= today BY <1>1, ViewNumbers DEF ViewInv, ViewShape, Dates
  <2> QED BY <2>1, <2>2, CutoffMoves DEF ViewInv
<1>15. written => s \in Views!OnDisk' BY <1>1, DiskAfter DEF Views!Replaced
<1>16. Lossless
  <2> SUFFICES ASSUME NEW b, NEW d, NEW n \in Nat, Held(b, d, n) PROVE Held(b, d, n)' BY DEF Lossless
  <2>1. PICK g \in Views!OnDisk : g.boot = b /\ g.day = d /\ g.sequence >= n BY DEF Held
  <2>2. CASE g \in Views!OnDisk' BY <2>1, <2>2 DEF Held
  <2>3. CASE g \notin Views!OnDisk'
    <3>1. g \in outbox /\ written BY <1>1, <2>1, <2>3, DiskIs, DiskAfter
    <3>2. g.boot = s.boot /\ g.day = s.day BY <1>1, <2>3, <3>1, DiskAfter DEF Views!Replaced
    <3>3. g \in Snap /\ g \in Snapshots BY <2>1, SnapTypes DEF ViewInv, Snapshots
    <3>4. g.sequence <= s.sequence BY <1>3, <1>4, <3>2, <3>3 DEF CaptureHeld
    <3>5. s.sequence >= n BY <1>4, <2>1, <3>3, <3>4 DEF Snap
    <3> QED BY <1>15, <2>1, <3>1, <3>2, <3>5 DEF Held
  <2> QED BY <2>2, <2>3
<1>17. RemovedHeld'
  <2> SUFFICES ASSUME NEW p \in Primary, NEW n \in removed[p], n[2] >= Views!Cutoff
               PROVE  Held(n[1], n[2], n[3] + 1)'
    BY <1>1, <1>14 DEF RemovedHeld
  <2>1. n[3] + 1 \in Nat BY DEF ViewInv, ViewShape
  <2>2. Held(n[1], n[2], n[3] + 1) BY DEF ViewInv, RemovedHeld
  <2> QED BY <1>14, <1>16, <2>1, <2>2 DEF Lossless
<1>18. KeptHeld'
  <2> SUFFICES ASSUME NEW b \in Boots, NEW d \in Dates, d >= Views!Cutoff, kept'[<<b, d>>] > 0
               PROVE  Held(b, d, kept[<<b, d>>])'
    BY <1>14 DEF KeptHeld, Boots, Dates
  <2>1. PICK n : n = kept'[<<b, d>>] OBVIOUS
  <2>2. CASE ok /\ <<b, d>> = <<s.boot, s.day>>
    <3>1. n = s.sequence /\ s.sequence >= n BY <1>4, <1>6, <2>1, <2>2
    <3> QED BY <1>1, <1>15, <2>1, <2>2, <3>1 DEF Held
  <2>3. CASE ~(ok /\ <<b, d>> = <<s.boot, s.day>>)
    <3>1. n = kept[<<b, d>>] BY <1>6, <1>7, <2>1, <2>3
    <3>2. Held(b, d, n) /\ n \in Nat BY <2>1, <3>1 DEF ViewInv, KeptHeld, ViewShape
    <3>3. Held(b, d, n)' BY <1>14, <1>16, <3>2 DEF Lossless
    <3> QED BY <2>1, <3>3
  <2> QED BY <2>2, <2>3
<1>19. NamesOnce' BY <1>1 DEF ViewInv, NamesOnce, Views!Name
<1> QED BY <1>9, <1>10, <1>11, <1>12, <1>13, <1>17, <1>18, <1>19 DEF ViewInv

\* A step of the memory and the clock: the disks, the network and what was captured stay.
LEMMA MemoryStep ==
  ASSUME ViewInv, UNCHANGED <<boot, outbox, wire, files, removed, kept>>,
         today' \in Dates, today' >= today, flushes' \in Nat,
         DOMAIN days' \subseteq Dates, \A d \in DOMAIN days' : days'[d] \in DayRec,
         viewers' \in [Viewer -> Viewing \cup {Views!Idle}], served' \in [Boots \X Dates -> Nat],
         DaysHeld', ViewersHeld', FlushHeld',
         \A x \in Boots \X Dates : served'[x] >= served[x],
         \A d \in DOMAIN days : \/ d \in DOMAIN days' /\ days'[d].revision >= days[d].revision
                                \/ d \notin DOMAIN days' /\ d < today' - 1,
         \A d \in DOMAIN days' : d \in DOMAIN days \/ d >= today - 1
  PROVE  ViewInv'
<1>1. today' \in Int /\ today \in Int BY ViewNumbers DEF ViewInv, ViewShape, Dates
<1>2. KeptHeld' /\ RemovedHeld' /\ NamesOnce' BY <1>1, DisksSame
<1>3. ViewShape' BY DEF ViewInv, ViewShape, Boots, Dates, Snap, DayRec, Viewing, Views!Idle
<1>4. Snapshots' = Snapshots BY DEF Snapshots, Views!OnDisk
<1>5. SnapsHeld'
  <2> SUFFICES ASSUME NEW s \in Snapshots PROVE SnapHeld(s)' BY <1>4 DEF SnapsHeld
  <2>1. s \in Snap /\ SnapHeld(s) BY SnapTypes DEF ViewInv, SnapsHeld
  <2>2. <<s.boot, s.day>> \in Boots \X Dates /\ s.day \in Int /\ s.sequence \in Int /\ s.total \in Int
    BY <2>1 DEF Snap, Dates
  <2>3. s.total <= served'[<<s.boot, s.day>>]
    <3>1. served[<<s.boot, s.day>>] \in Nat /\ served'[<<s.boot, s.day>>] \in Nat
      BY <2>2 DEF ViewInv, ViewShape
    <3>2. served'[<<s.boot, s.day>>] >= served[<<s.boot, s.day>>] BY <2>2
    <3> QED BY <2>1, <2>2, <3>1, <3>2 DEF SnapHeld
  <2>4. ASSUME s.boot = boot, s.day \in DOMAIN days' PROVE s.sequence <= days'[s.day].revision
    <3>1. CASE s.day \in DOMAIN days
      <4>1. days[s.day].revision \in Nat /\ days'[s.day].revision \in Nat
        BY <2>4, <3>1 DEF ViewInv, ViewShape, DayRec
      <4>2. days'[s.day].revision >= days[s.day].revision BY <2>4, <3>1
      <4>3. s.sequence <= days[s.day].revision BY <2>1, <2>4, <3>1 DEF SnapHeld
      <4> QED BY <2>2, <4>1, <4>2, <4>3
    <3>2. CASE s.day \notin DOMAIN days
      <4>1. s.day < today - 1 BY <2>1, <2>4, <3>2 DEF SnapHeld
      <4>2. s.day >= today - 1 BY <2>4, <3>2
      <4> QED BY <1>1, <2>2, <4>1, <4>2
    <3> QED BY <3>1, <3>2
  <2>5. ASSUME s.boot = boot, s.day \notin DOMAIN days' PROVE s.day < today' - 1
    <3>1. CASE s.day \in DOMAIN days BY <2>5, <3>1
    <3>2. CASE s.day \notin DOMAIN days
      <4>1. s.day < today - 1 BY <2>1, <2>5, <3>2 DEF SnapHeld
      <4> QED BY <1>1, <2>2, <4>1
    <3> QED BY <3>1, <3>2
  <2> QED BY <2>1, <2>3, <2>4, <2>5 DEF SnapHeld
<1> QED BY <1>2, <1>3, <1>5 DEF ViewInv

\* What a capture in progress needs of such a step.
LEMMA CaptureGoesOn ==
  ASSUME ViewInv, UNCHANGED <<boot, flush, outbox, wire, files>>,
         served' \in [Boots \X Dates -> Nat], \A x \in Boots \X Dates : served'[x] >= served[x],
         \A d \in DOMAIN days : ~Views!Clean(d) =>
            /\ d \in DOMAIN days' /\ days'[d] \in DayRec
            /\ days'[d].revision >= days[d].revision /\ days'[d].persisted = days[d].persisted
  PROVE  FlushHeld'
<1> SUFFICES ASSUME flush.step \in {"copy", "persist"} PROVE FlushHeld' BY DEF FlushHeld
<1>1. PICK s, t : /\ flush = [step |-> flush.step, todo |-> t, snapshot |-> s] /\ flush.snapshot = s
                  /\ CaptureHeld(s)
  BY DEF ViewInv, FlushHeld
<1>2. /\ s \in Snap /\ s.boot = boot /\ s.day \in DOMAIN days /\ days[s.day] \in DayRec
      /\ s.sequence \in Nat /\ s.total \in Nat /\ <<s.boot, s.day>> \in Boots \X Dates
  BY <1>1 DEF CaptureHeld, Snap, ViewInv, ViewShape
<1>3. days[s.day].persisted < s.sequence /\ s.sequence <= days[s.day].revision BY <1>1 DEF CaptureHeld
<1>4. ~Views!Clean(s.day) BY <1>2, <1>3 DEF Views!Clean, DayRec
<1>5. /\ s.day \in DOMAIN days' /\ days'[s.day] \in DayRec
      /\ days'[s.day].revision >= days[s.day].revision /\ days'[s.day].persisted = days[s.day].persisted
  BY <1>2, <1>4
<1>6. days'[s.day].persisted < s.sequence /\ s.sequence <= days'[s.day].revision
  BY <1>2, <1>3, <1>5 DEF DayRec
<1>7. CaptureHeld(s)' BY <1>1, <1>2, <1>5, <1>6 DEF CaptureHeld, Snapshots, Views!OnDisk, Snap, Boots, Dates
<1>8. ASSUME flush.step = "persist" PROVE s.sequence <= s.total /\ s.total <= served'[<<s.boot, s.day>>]
  <2>1. s.sequence <= s.total /\ s.total <= served[<<s.boot, s.day>>] BY <1>1, <1>8 DEF ViewInv, FlushHeld
  <2>2. served[<<s.boot, s.day>>] \in Nat /\ served'[<<s.boot, s.day>>] \in Nat
    BY <1>2 DEF ViewInv, ViewShape
  <2>3. served'[<<s.boot, s.day>>] >= served[<<s.boot, s.day>>] BY <1>2
  <2> QED BY <1>2, <2>1, <2>2, <2>3
<1>9. flush'.step = flush.step /\ flush'.snapshot = s /\ flush' = flush BY <1>1
<1> QED BY <1>1, <1>7, <1>8, <1>9 DEF FlushHeld

\* Midnight.
LEMMA NextDayInv == ASSUME ViewInv, Views!NextDay PROVE ViewInv'
<1>1. /\ today < MaxDay /\ today' = today + 1
      /\ UNCHANGED <<boot, days, viewers, flush, flushes, outbox, wire, files, removed, served, kept>>
  BY DEF Views!NextDay
<1>2. today \in Nat /\ today' \in Dates /\ today' >= today /\ today' \in Int
  <2>1. PICK x \in Nat : x = today /\ x \in Dates BY ViewNumbers DEF ViewInv, ViewShape, Dates
  <2>2. x < MaxDay /\ today' = x + 1 BY <1>1, <2>1
  <2>3. x + 1 \in Dates /\ x + 1 >= x BY <2>1, <2>2, ViewNumbers DEF Dates
  <2> QED BY <2>1, <2>2, <2>3
<1>3. DaysHeld'
  <2>1. \A d : Counting(d)' = Counting(d) BY <1>1 DEF Counting
  <2> QED BY <1>1, <2>1 DEF ViewInv, DaysHeld, DayHeld
<1>4. ViewersHeld'
  <2> SUFFICES ASSUME NEW v \in Viewer, viewers[v] # Views!Idle, viewers[v].day \notin DOMAIN days
               PROVE  viewers[v].day < today' - 1
    BY <1>1 DEF ViewersHeld
  <2>1. viewers[v].day < today - 1 BY DEF ViewInv, ViewersHeld
  <2>2. viewers[v].day \in Int
    <3>1. viewers[v] \in Viewing BY DEF ViewInv, ViewShape
    <3> QED BY <3>1 DEF Viewing, Dates
  <2> QED BY <1>1, <1>2, <2>1, <2>2
<1>5. \A x \in Boots \X Dates : served'[x] >= served[x] BY <1>1 DEF ViewInv, ViewShape
<1>6. \A d \in DOMAIN days : days[d].revision >= days[d].revision BY DEF ViewInv, ViewShape, DayRec
<1>7. FlushHeld' BY <1>1, <1>5, <1>6, CaptureGoesOn DEF ViewInv, ViewShape
<1> QED BY <1>1, <1>2, <1>3, <1>4, <1>5, <1>6, <1>7, MemoryStep DEF ViewInv, ViewShape

\* A flush begins with forgetting the days before yesterday.
LEMMA FlushStartInv == ASSUME ViewInv, Views!FlushStart PROVE ViewInv'
<1> DEFINE left == {d \in DOMAIN days : d >= today - 1}
<1>1. /\ flushes' = flushes + 1 /\ days' = Views!Only(left)
      /\ UNCHANGED <<today, boot, viewers, outbox, wire, files, removed, served, kept>>
  BY DEF Views!FlushStart
<1>2. DOMAIN days' = left /\ \A d \in left : days'[d] = days[d] BY <1>1 DEF Views!Only
<1>3. today \in Int /\ today' \in Int /\ today' >= today /\ today' \in Dates
  BY <1>1, ViewNumbers DEF ViewInv, ViewShape, Dates
<1>4. flushes' \in Nat BY <1>1 DEF ViewInv, ViewShape
<1>5. DaysHeld'
  <2>1. \A d : Counting(d)' = Counting(d) BY <1>1 DEF Counting
  <2> QED BY <1>1, <1>2, <2>1 DEF ViewInv, DaysHeld, DayHeld
<1>6. \A d \in DOMAIN days : d \in Int BY DEF ViewInv, ViewShape, Dates
<1>7. \A d \in DOMAIN days : d \in left \/ d < today - 1 BY <1>3, <1>6
<1>8. left \subseteq DOMAIN days OBVIOUS
<1> HIDE DEF left
<1>9. ViewersHeld' BY <1>1, <1>2, <1>7 DEF ViewInv, ViewersHeld
<1>10. flush'.step \notin {"copy", "persist"} BY ThenIs DEF Views!FlushStart
<1>11. FlushHeld' BY <1>10 DEF FlushHeld
<1>12. \A x \in Boots \X Dates : served'[x] >= served[x] BY <1>1 DEF ViewInv, ViewShape
<1>13. \A d \in DOMAIN days : days[d].revision >= days[d].revision BY DEF ViewInv, ViewShape, DayRec
<1>14. \A d \in DOMAIN days : \/ d \in DOMAIN days' /\ days'[d].revision >= days[d].revision
                              \/ d \notin DOMAIN days' /\ d < today' - 1
  BY <1>1, <1>2, <1>7, <1>13
<1>15. DOMAIN days' \subseteq Dates /\ \A d \in DOMAIN days' : days'[d] \in DayRec /\ d \in DOMAIN days
  BY <1>2, <1>8 DEF ViewInv, ViewShape
<1> QED BY <1>1, <1>3, <1>4, <1>5, <1>9, <1>11, <1>12, <1>14, <1>15, MemoryStep DEF ViewInv, ViewShape

\* A new day has no calls and no snapshots of this boot; a day that makes room is
\* captured and older than yesterday.
LEMMA FindInv == ASSUME ViewInv, NEW v \in Viewer, NEW d \in Dates, Views!Find(v, d) PROVE ViewInv'
<1> DEFINE left == DOMAIN days \ Views!Evicted(d)
<1>1. /\ viewers[v] = Views!Idle /\ d \in {today - 1, today}
      /\ viewers' = [viewers EXCEPT ![v] = [step |-> "found", day |-> d]]
      /\ UNCHANGED <<today, boot, flush, flushes, outbox, wire, files, removed, served, kept>>
  BY DEF Views!Find
<1>2. \/ d \in DOMAIN days /\ days' = days
      \/ d \notin DOMAIN days /\ days' = [e \in left \cup {d} |-> IF e = d THEN Views!NewDay ELSE days[e]]
  BY DEF Views!Find
<1>3. today \in Int /\ today' \in Int /\ today' >= today /\ today' \in Dates /\ d \in Int
  BY <1>1, ViewNumbers DEF ViewInv, ViewShape, Dates
<1>4. \A e \in Views!Evicted(d) : e \in DOMAIN days /\ e < today - 1 /\ Views!Clean(e)
  <2> SUFFICES ASSUME NEW e \in Views!Evicted(d) PROVE e \in DOMAIN days /\ e < today - 1 /\ Views!Clean(e)
    OBVIOUS
  <2>1. e \in DOMAIN days /\ e < d - 1 /\ Views!Clean(e) BY DEF Views!Evicted
  <2>2. e \in Int BY <2>1 DEF ViewInv, ViewShape, Dates
  <2> QED BY <1>1, <1>3, <2>1, <2>2
<1>5. Views!NewDay \in DayRec BY DEF Views!NewDay, DayRec
<1>6. /\ d \in DOMAIN days' /\ DOMAIN days' \subseteq DOMAIN days \cup {d}
      /\ \A e \in DOMAIN days : \/ e \in DOMAIN days' /\ days'[e] = days[e]
                                \/ e \notin DOMAIN days' /\ e \in Views!Evicted(d)
      /\ d \in DOMAIN days \/ days'[d] = Views!NewDay
  <2>1. CASE d \in DOMAIN days /\ days' = days BY <2>1
  <2>2. CASE d \notin DOMAIN days /\ days' = [e \in left \cup {d} |-> IF e = d THEN Views!NewDay ELSE days[e]]
    <3>1. DOMAIN days' = left \cup {d} /\ days'[d] = Views!NewDay BY <2>2
    <3>2. \A e \in left : e # d /\ days'[e] = days[e] BY <2>2
    <3> QED BY <2>2, <3>1, <3>2, <1>4
  <2> QED BY <1>2, <2>1, <2>2
<1> HIDE DEF left
<1>7. /\ viewers' \in [Viewer -> Viewing \cup {Views!Idle}] /\ viewers'[v] = [step |-> "found", day |-> d]
      /\ \A w \in Viewer \ {v} : viewers'[w] = viewers[w]
  BY <1>1 DEF ViewInv, ViewShape, Viewing
<1>8. \A e : Counting(e)' = Counting(e)
  <2> SUFFICES ASSUME NEW e, NEW w \in Viewer
               PROVE  viewers'[w] = [step |-> "counted", day |-> e] <=> viewers[w] = [step |-> "counted", day |-> e]
    BY DEF Counting
  <2>1. CASE w # v BY <1>7, <2>1
  <2>2. CASE w = v
    <3>1. viewers'[w].step = "found" /\ viewers[w].step = "idle" BY <1>1, <1>7, <2>2 DEF Views!Idle
    <3> QED BY <3>1
  <2> QED BY <2>1, <2>2
<1>9. d \notin DOMAIN days => Counting(d) = {}
  <2> SUFFICES ASSUME d \notin DOMAIN days, NEW w \in Counting(d) PROVE FALSE OBVIOUS
  <2>1. w \in Viewer /\ viewers[w] = [step |-> "counted", day |-> d] BY DEF Counting
  <2>2. viewers[w].step = "counted" /\ viewers[w].day = d BY <2>1
  <2>3. viewers[w] # Views!Idle BY <2>2 DEF Views!Idle
  <2>4. d < today - 1 BY <2>1, <2>2, <2>3 DEF ViewInv, ViewersHeld
  <2> QED BY <1>1, <1>3, <2>4
<1>10. DaysHeld'
  <2> SUFFICES ASSUME NEW e \in DOMAIN days' PROVE DayHeld(e)' BY DEF DaysHeld
  <2>1. CASE e \in DOMAIN days
    <3>1. days'[e] = days[e] BY <1>6, <2>1
    <3> QED BY <1>1, <1>8, <2>1, <3>1 DEF ViewInv, DaysHeld, DayHeld
  <2>2. CASE e \notin DOMAIN days
    <3>1. e = d /\ days'[d] = Views!NewDay BY <1>6, <2>2
    <3>2. IsFiniteSet({}) /\ Cardinality({}) = 0 BY FS_EmptySet
    <3>3. Counting(d)' = {} BY <1>8, <1>9, <2>2, <3>1
    <3>4. served[<<boot, d>>] \in Nat /\ kept[<<boot, d>>] \in Nat BY DEF ViewInv, ViewShape
    <3>5. Views!NewDay.views = 0 /\ Views!NewDay.revision = 0 /\ Views!NewDay.persisted = 0 BY DEF Views!NewDay
    <3> QED BY <1>1, <3>1, <3>2, <3>3, <3>4, <3>5 DEF DayHeld
  <2> QED BY <2>1, <2>2
<1>11. ViewersHeld'
  <2> SUFFICES ASSUME NEW w \in Viewer, viewers'[w] # Views!Idle, viewers'[w].day \notin DOMAIN days'
               PROVE  viewers'[w].day < today - 1
    BY <1>1 DEF ViewersHeld
  <2>1. w # v BY <1>6, <1>7
  <2>2. viewers'[w] = viewers[w] BY <1>7, <2>1
  <2>3. CASE viewers[w].day \in DOMAIN days BY <1>4, <1>6, <2>2, <2>3
  <2>4. CASE viewers[w].day \notin DOMAIN days BY <2>2, <2>4 DEF ViewInv, ViewersHeld
  <2> QED BY <2>3, <2>4
<1>12. \A x \in Boots \X Dates : served'[x] >= served[x] BY <1>1 DEF ViewInv, ViewShape
<1>13. \A e \in DOMAIN days : days[e].revision >= days[e].revision /\ days[e] \in DayRec
  BY DEF ViewInv, ViewShape, DayRec
<1>14. FlushHeld' BY <1>1, <1>4, <1>6, <1>12, <1>13, CaptureGoesOn DEF ViewInv, ViewShape
<1>15. \A e \in DOMAIN days : \/ e \in DOMAIN days' /\ days'[e].revision >= days[e].revision
                              \/ e \notin DOMAIN days' /\ e < today' - 1
  BY <1>1, <1>4, <1>6, <1>13
<1>16. DOMAIN days' \subseteq Dates /\ \A e \in DOMAIN days' : days'[e] \in DayRec
  BY <1>5, <1>6, <1>13 DEF ViewInv, ViewShape
<1>17. \A e \in DOMAIN days' : e \in DOMAIN days \/ e >= today - 1 BY <1>1, <1>3, <1>6
<1> QED BY <1>1, <1>3, <1>7, <1>10, <1>11, <1>12, <1>14, <1>15, <1>16, <1>17, MemoryStep
        DEF ViewInv, ViewShape

\* A call in progress and its day.
LEMMA CallIs ==
  ASSUME ViewInv, NEW v \in Viewer, viewers[v].step \in {"found", "counted"}
  PROVE  viewers[v] = [step |-> viewers[v].step, day |-> viewers[v].day] /\ viewers[v].day \in Dates
<1>1. viewers[v] # Views!Idle BY DEF Views!Idle
<1>2. viewers[v] \in Viewing BY <1>1 DEF ViewInv, ViewShape
<1> QED BY <1>2 DEF Viewing

\* The hour's counter goes up first ...
LEMMA CountInv == ASSUME ViewInv, NEW v \in Viewer, Views!Count(v) PROVE ViewInv'
<1>0. PICK d : d = viewers[v].day OBVIOUS
<1>1. /\ viewers[v].step = "found"
      /\ days' = IF d \in DOMAIN days THEN [days EXCEPT ![d].views = @ + 1] ELSE days
      /\ viewers' = [viewers EXCEPT ![v].step = "counted"]
      /\ served' = [served EXCEPT ![<<boot, d>>] = @ + 1]
      /\ UNCHANGED <<today, boot, flush, flushes, outbox, wire, files, removed, kept>>
  BY <1>0 DEF Views!Count
<1>2. viewers[v] = [step |-> "found", day |-> d] /\ d \in Dates BY <1>0, <1>1, CallIs
<1>3. /\ viewers' \in [Viewer -> Viewing \cup {Views!Idle}] /\ viewers'[v] = [step |-> "counted", day |-> d]
      /\ \A w \in Viewer \ {v} : viewers'[w] = viewers[w]
  BY <1>1, <1>2 DEF ViewInv, ViewShape, Viewing
<1>4. Counting(d)' = Counting(d) \cup {v} /\ v \notin Counting(d)
  <2>1. v \in Counting(d)' BY <1>3 DEF Counting
  <2>2. v \notin Counting(d)
    <3>1. viewers[v].step # "counted" BY <1>1
    <3> QED BY <3>1 DEF Counting
  <2>3. \A w \in Viewer \ {v} : w \in Counting(d)' <=> w \in Counting(d) BY <1>3 DEF Counting
  <2>4. Counting(d)' \subseteq Viewer /\ Counting(d) \subseteq Viewer BY DEF Counting
  <2> QED BY <2>1, <2>2, <2>3, <2>4
<1>5. \A e : e # d => Counting(e)' = Counting(e)
  <2> SUFFICES ASSUME NEW e, e # d, NEW w \in Viewer
               PROVE  viewers'[w] = [step |-> "counted", day |-> e] <=> viewers[w] = [step |-> "counted", day |-> e]
    BY DEF Counting
  <2>1. CASE w # v BY <1>3, <2>1
  <2>2. CASE w = v
    <3>1. viewers'[w].day = d /\ viewers[w].day = d BY <1>2, <1>3, <2>2
    <3> QED BY <3>1
  <2> QED BY <2>1, <2>2
<1>6. <<boot, d>> \in Boots \X Dates BY <1>2 DEF ViewInv, ViewShape
<1>7. /\ served' \in [Boots \X Dates -> Nat] /\ served'[<<boot, d>>] = served[<<boot, d>>] + 1
      /\ \A x \in Boots \X Dates : x # <<boot, d>> => served'[x] = served[x]
      /\ \A x \in Boots \X Dates : served'[x] >= served[x]
  <2>1. served \in [Boots \X Dates -> Nat] BY DEF ViewInv, ViewShape
  <2>2. /\ served' \in [Boots \X Dates -> Nat] /\ served'[<<boot, d>>] = served[<<boot, d>>] + 1
        /\ \A x \in Boots \X Dates : x # <<boot, d>> => served'[x] = served[x]
    BY <1>1, <1>6, <2>1
  <2>3. \A x \in Boots \X Dates : served'[x] = served[x] \/ served'[x] = served[x] + 1 BY <2>2
  <2>4. \A x \in Boots \X Dates : served[x] \in Nat BY <2>1
  <2>5. \A x \in Boots \X Dates : served'[x] >= served[x] BY <2>3, <2>4
  <2> QED BY <2>2, <2>5
<1>8. /\ DOMAIN days' = DOMAIN days /\ \A e \in DOMAIN days : e # d => days'[e] = days[e]
      /\ \A e \in DOMAIN days : days[e] \in DayRec /\ days'[e] \in DayRec /\ days'[e].revision = days[e].revision
                                /\ days'[e].persisted = days[e].persisted
      /\ d \in DOMAIN days => days'[d].views = days[d].views + 1
  BY <1>1 DEF ViewInv, ViewShape, DayRec
<1>9. DaysHeld'
  <2> SUFFICES ASSUME NEW e \in DOMAIN days PROVE DayHeld(e)' BY <1>8 DEF DaysHeld
  <2>1. DayHeld(e) /\ days[e] \in DayRec /\ boot \in Boots /\ e \in Dates BY DEF ViewInv, ViewShape, DaysHeld
  <2>2. CASE e # d
    <3>1. days'[e] = days[e] /\ served'[<<boot, e>>] = served[<<boot, e>>] /\ Counting(e)' = Counting(e)
      BY <1>5, <1>7, <1>8, <2>1, <2>2
    <3> QED BY <1>1, <2>1, <3>1 DEF DayHeld
  <2>3. CASE e = d
    <3>1. IsFiniteSet(Counting(d)) BY <2>1, <2>3 DEF DayHeld
    <3>2. /\ IsFiniteSet(Counting(d)') /\ Cardinality(Counting(d)') = Cardinality(Counting(d)) + 1
      BY <1>4, <3>1, FS_AddElement
    <3>3. Cardinality(Counting(d)) \in Nat BY <3>1, FS_CardinalityType
    <3>4. served[<<boot, d>>] \in Nat BY <1>6 DEF ViewInv, ViewShape
    <3>5. days'[d].views = days'[d].revision + Cardinality(Counting(d)')
      BY <1>8, <2>1, <2>3, <3>2, <3>3 DEF DayHeld, DayRec
    <3>6. days'[d].views <= served'[<<boot, d>>] BY <1>7, <1>8, <2>1, <2>3, <3>4 DEF DayHeld, DayRec
    <3> QED BY <1>1, <1>8, <2>1, <2>3, <3>2, <3>5, <3>6 DEF DayHeld
  <2> QED BY <2>2, <2>3
<1>10. ViewersHeld'
  <2> SUFFICES ASSUME NEW w \in Viewer, viewers'[w] # Views!Idle, viewers'[w].day \notin DOMAIN days
               PROVE  viewers'[w].day < today - 1
    BY <1>1, <1>8 DEF ViewersHeld
  <2>1. viewers[w] # Views!Idle /\ viewers[w].day = viewers'[w].day
    <3>1. CASE w = v BY <1>2, <1>3, <3>1 DEF Views!Idle
    <3>2. CASE w # v BY <1>3, <3>2
    <3> QED BY <3>1, <3>2
  <2> QED BY <2>1 DEF ViewInv, ViewersHeld
<1>11. \A e \in DOMAIN days : days'[e].revision >= days[e].revision BY <1>8 DEF DayRec
<1>12. FlushHeld' BY <1>1, <1>7, <1>8, <1>11, CaptureGoesOn
<1>13. today' \in Dates /\ today' >= today /\ flushes' \in Nat
  BY <1>1, ViewNumbers DEF ViewInv, ViewShape, Dates
<1> QED BY <1>1, <1>3, <1>7, <1>8, <1>9, <1>10, <1>11, <1>12, <1>13, MemoryStep DEF ViewInv, ViewShape

\* ... and the day's revision second.
LEMMA ReviseInv == ASSUME ViewInv, NEW v \in Viewer, Views!Revise(v) PROVE ViewInv'
<1>0. PICK d : d = viewers[v].day OBVIOUS
<1>1. /\ viewers[v].step = "counted"
      /\ days' = IF d \in DOMAIN days THEN [days EXCEPT ![d].revision = @ + 1] ELSE days
      /\ viewers' = [viewers EXCEPT ![v] = Views!Idle]
      /\ UNCHANGED <<today, boot, flush, flushes, outbox, wire, files, removed, served, kept>>
  BY <1>0 DEF Views!Revise
<1>2. viewers[v] = [step |-> "counted", day |-> d] /\ d \in Dates BY <1>0, <1>1, CallIs
<1>3. /\ viewers' \in [Viewer -> Viewing \cup {Views!Idle}] /\ viewers'[v] = Views!Idle
      /\ \A w \in Viewer \ {v} : viewers'[w] = viewers[w]
  BY <1>1 DEF ViewInv, ViewShape
<1>4. Counting(d)' = Counting(d) \ {v} /\ v \in Counting(d)
  <2>1. v \in Counting(d) BY <1>2 DEF Counting
  <2>2. v \notin Counting(d)'
    <3>1. viewers'[v].step # "counted" BY <1>3 DEF Views!Idle
    <3> QED BY <3>1 DEF Counting
  <2>3. \A w \in Viewer \ {v} : w \in Counting(d)' <=> w \in Counting(d) BY <1>3 DEF Counting
  <2>4. Counting(d)' \subseteq Viewer /\ Counting(d) \subseteq Viewer BY DEF Counting
  <2> QED BY <2>1, <2>2, <2>3, <2>4
<1>5. \A e : e # d => Counting(e)' = Counting(e)
  <2> SUFFICES ASSUME NEW e, e # d, NEW w \in Viewer
               PROVE  viewers'[w] = [step |-> "counted", day |-> e] <=> viewers[w] = [step |-> "counted", day |-> e]
    BY DEF Counting
  <2>1. CASE w # v BY <1>3, <2>1
  <2>2. CASE w = v
    <3>1. viewers'[w].step = "idle" /\ viewers[w].day = d BY <1>2, <1>3, <2>2 DEF Views!Idle
    <3> QED BY <3>1
  <2> QED BY <2>1, <2>2
<1>6. /\ DOMAIN days' = DOMAIN days /\ \A e \in DOMAIN days : e # d => days'[e] = days[e]
      /\ \A e \in DOMAIN days : days[e] \in DayRec /\ days'[e] \in DayRec /\ days'[e].views = days[e].views
                                /\ days'[e].persisted = days[e].persisted
      /\ d \in DOMAIN days => days'[d].revision = days[d].revision + 1
  BY <1>1 DEF ViewInv, ViewShape, DayRec
<1>7. DaysHeld'
  <2> SUFFICES ASSUME NEW e \in DOMAIN days PROVE DayHeld(e)' BY <1>6 DEF DaysHeld
  <2>1. DayHeld(e) /\ days[e] \in DayRec /\ days'[e] \in DayRec BY <1>6 DEF ViewInv, DaysHeld
  <2>2. CASE e # d BY <1>1, <1>5, <1>6, <2>1, <2>2 DEF DayHeld
  <2>3. CASE e = d
    <3>1. IsFiniteSet(Counting(d)) BY <2>1, <2>3 DEF DayHeld
    <3>2. /\ IsFiniteSet(Counting(d)') /\ Cardinality(Counting(d)') = Cardinality(Counting(d)) - 1
      BY <1>4, <3>1, FS_RemoveElement
    <3>3. Cardinality(Counting(d)) \in Nat BY <3>1, FS_CardinalityType
    <3>5. days'[d].views = days'[d].revision + Cardinality(Counting(d)')
      BY <1>6, <2>1, <2>3, <3>2, <3>3 DEF DayHeld, DayRec
    <3>6. days'[d].persisted <= days'[d].revision BY <1>6, <2>1, <2>3 DEF DayHeld, DayRec
    <3> QED BY <1>1, <1>6, <2>1, <2>3, <3>2, <3>5, <3>6 DEF DayHeld
  <2> QED BY <2>2, <2>3
<1>8. ViewersHeld' BY <1>1, <1>3, <1>6 DEF ViewInv, ViewersHeld
<1>9. \A e \in DOMAIN days : days'[e].revision >= days[e].revision
  <2> SUFFICES ASSUME NEW e \in DOMAIN days PROVE days'[e].revision >= days[e].revision OBVIOUS
  <2>1. days[e].revision \in Nat BY <1>6 DEF DayRec
  <2> QED BY <1>6, <2>1
<1>10. \A x \in Boots \X Dates : served'[x] >= served[x] BY <1>1 DEF ViewInv, ViewShape
<1>11. FlushHeld' BY <1>1, <1>6, <1>9, <1>10, CaptureGoesOn DEF ViewInv, ViewShape
<1>12. today' \in Dates /\ today' >= today /\ flushes' \in Nat
  BY <1>1, ViewNumbers DEF ViewInv, ViewShape, Dates
<1> QED BY <1>1, <1>3, <1>6, <1>7, <1>8, <1>9, <1>10, <1>11, <1>12, MemoryStep DEF ViewInv, ViewShape

\* A new boot has no day, no call and no snapshot yet.
LEMMA RestartInv == ASSUME ViewInv, Views!Restart PROVE ViewInv'
<1>1. /\ boot < MaxBoot /\ boot' = boot + 1 /\ days' = [d \in {} |-> None]
      /\ viewers' = [v \in Viewer |-> Views!Idle] /\ flush' = Views!Idle
      /\ UNCHANGED <<today, flushes, outbox, wire, files, removed, served, kept>>
  BY DEF Views!Restart
<1>2. DOMAIN days' = {} BY <1>1
<1>3. boot \in Nat /\ boot' \in Boots /\ boot' > boot
  <2>1. PICK x \in Nat : x = boot /\ x \in Boots BY ViewNumbers DEF ViewInv, ViewShape, Boots
  <2>2. x < MaxBoot /\ boot' = x + 1 BY <1>1, <2>1
  <2>3. x + 1 \in Boots /\ x + 1 > x BY <2>1, <2>2, ViewNumbers DEF Boots
  <2> QED BY <2>1, <2>2, <2>3
<1>4. today' \in Int /\ today' >= today BY <1>1, ViewNumbers DEF ViewInv, ViewShape, Dates
<1>5. KeptHeld' /\ RemovedHeld' /\ NamesOnce' BY <1>1, <1>4, DisksSame
<1>6. ViewShape' BY <1>1, <1>2, <1>3 DEF ViewInv, ViewShape, Dates, Boots, Snap, DayRec, Viewing, Views!Idle
<1>7. DaysHeld' BY <1>2 DEF DaysHeld
<1>8. ViewersHeld' BY <1>1 DEF ViewersHeld
<1>9. FlushHeld' BY <1>1 DEF FlushHeld, Views!Idle
<1>10. Snapshots' = Snapshots BY <1>1 DEF Snapshots, Views!OnDisk
<1>11. SnapsHeld'
  <2> SUFFICES ASSUME NEW s \in Snapshots PROVE SnapHeld(s)' BY <1>10 DEF SnapsHeld
  <2>1. s \in Snap /\ SnapHeld(s) BY SnapTypes DEF ViewInv, SnapsHeld
  <2>2. s.boot \in Nat /\ s.boot <= boot
    <3>1. s.boot \in Nat BY <2>1 DEF Snap, Boots
    <3> QED BY <2>1, <3>1 DEF SnapHeld
  <2>3. s.boot <= boot' /\ s.boot # boot' BY <1>1, <1>3, <2>2
  <2> QED BY <1>1, <2>1, <2>3 DEF SnapHeld
<1> QED BY <1>5, <1>6, <1>7, <1>8, <1>9, <1>11 DEF ViewInv

\* The invariant holds at the start ...
LEMMA ViewInvInit == Views!Init => ViewInv
<1> SUFFICES ASSUME Views!Init PROVE ViewInv OBVIOUS
<1>1. DOMAIN days = {} BY DEF Views!Init
<1>2. Views!OnDisk = {} /\ Snapshots = {} BY DEF Views!Init, Views!OnDisk, Snapshots
<1>3. served \in [Boots \X Dates -> Nat] /\ kept = served /\ \A x \in Boots \X Dates : served[x] = 0
  BY DEF Views!Init, Boots, Dates
<1>4. ViewShape
  <2>1. 0 \in Dates /\ 1 \in Boots BY ViewNumbers DEF Dates, Boots
  <2> QED BY <1>1, <1>3, <2>1 DEF ViewShape, Views!Init
<1>5. DaysHeld /\ ViewersHeld /\ FlushHeld BY <1>1 DEF Views!Init, DaysHeld, ViewersHeld, FlushHeld, Views!Idle
<1>6. SnapsHeld BY <1>2 DEF SnapsHeld
<1>7. KeptHeld BY <1>3 DEF KeptHeld
<1>8. RemovedHeld /\ NamesOnce BY DEF Views!Init, RemovedHeld, NamesOnce
<1> QED BY <1>4, <1>5, <1>6, <1>7, <1>8 DEF ViewInv

\* ... and every step keeps it.
LEMMA ViewInvNext == ViewInv /\ [Views!Next]_(Views!vars) => ViewInv'
<1> SUFFICES ASSUME ViewInv, [Views!Next]_(Views!vars) PROVE ViewInv' OBVIOUS
<1>1. CASE UNCHANGED Views!vars
  <2>1. wire' \subseteq Snapshots BY <1>1 DEF Snapshots, Views!vars
  <2> QED BY <1>1, <2>1, NetStep DEF Views!vars
<1>2. CASE Views!Next
  <2>1. CASE \E v \in Viewer : Views!Count(v) \/ Views!Revise(v) \/ \E d \in 0..MaxDay : Views!Find(v, d)
    BY <2>1, CountInv, ReviseInv, FindInv DEF Dates
  <2>2. CASE \E d \in 0..MaxDay : Views!Capture(d) BY <2>2, CaptureInv DEF Dates
  <2>3. CASE Views!FlushStart \/ Views!Copy \/ Views!GiveUp \/ Views!NextDay \/ Views!Restart
    BY <2>3, FlushStartInv, CopyInv, GiveUpInv, NextDayInv, RestartInv
  <2>4. CASE \E written, ok \in BOOLEAN : Views!Persist(written, ok) BY <2>4, PersistInv
  <2>5. CASE \E s \in outbox : Views!Send(s) \/ Views!Expire(s) BY <2>5, SendInv, ExpireInv
  <2>6. CASE \E p \in Primary : Views!Sweep(p) \/ \E s \in wire : Views!Accept(p, s) BY <2>6, SweepInv, AcceptInv
  <2>7. CASE \E p, q \in Primary : Views!ReplicateRemoval(p, q) \/ \E f \in files[p] : Views!Replicate(p, q, f)
    BY <2>7, ReplicateInv, ReplicateRemovalInv
  <2> QED BY <1>2, <2>1, <2>2, <2>3, <2>4, <2>5, <2>6, <2>7 DEF Views!Next
<1> QED BY <1>1, <1>2

\* A snapshot that is held has at least as many views as revisions.
LEMMA HeldIsSafe == ASSUME ViewInv, NEW b, NEW d, NEW n \in Nat, Held(b, d, n) PROVE Views!Safe(b, d, n)
<1>1. PICK f \in Views!OnDisk : f.boot = b /\ f.day = d /\ f.sequence >= n BY DEF Held
<1>2. f \in Snap /\ SnapHeld(f) BY SnapTypes DEF ViewInv, Snapshots, SnapsHeld
<1>3. f.total >= n BY <1>1, <1>2 DEF SnapHeld, Snap
<1> QED BY <1>1, <1>3 DEF Views!Safe

\* What a capture relied on is on a disk, since a snapshot has its revisions' views.
LEMMA KeptIsSafe == ViewInv => Views!CapturedKept
<1> SUFFICES ASSUME ViewInv, NEW b \in Boots, NEW d \in Dates, d >= Views!Cutoff PROVE Views!Safe(b, d, kept[<<b, d>>])
  BY DEF Views!CapturedKept, Boots, Dates
<1>1. kept[<<b, d>>] \in Nat BY DEF ViewInv, ViewShape
<1>2. CASE kept[<<b, d>>] > 0
  <2>1. Held(b, d, kept[<<b, d>>]) BY <1>2 DEF ViewInv, KeptHeld
  <2> QED BY <1>1, <2>1, HeldIsSafe
<1>3. CASE ~(kept[<<b, d>>] > 0) BY <1>3 DEF Views!Safe
<1> QED BY <1>2, <1>3

\* A day that is marked up to its last revision has no view that was not captured, once
\* no call is between the two counters.
LEMMA CleanIsSafe == ViewInv => Views!CleanCaptured
<1> SUFFICES ASSUME ViewInv, NEW d \in DOMAIN days, d >= Views!Cutoff, Views!Clean(d),
                    \A v \in Viewer : viewers[v] # [step |-> "counted", day |-> d]
             PROVE  Views!Safe(boot, d, days[d].views)
  BY DEF Views!CleanCaptured
<1>1. Counting(d) = {} BY DEF Counting
<1>2. Cardinality(Counting(d)) = 0 BY <1>1, FS_EmptySet
<1>3. /\ days[d] \in DayRec /\ DayHeld(d) /\ boot \in Boots /\ d \in Dates
      /\ kept[<<boot, d>>] \in Nat
  BY DEF ViewInv, ViewShape, DaysHeld
<1>4. days[d].views \in Nat /\ days[d].views <= kept[<<boot, d>>]
  BY <1>2, <1>3 DEF DayHeld, DayRec, Views!Clean
<1>5. CASE kept[<<boot, d>>] > 0
  <2>1. PICK f \in Views!OnDisk : f.boot = boot /\ f.day = d /\ f.sequence >= kept[<<boot, d>>]
    BY <1>3, <1>5 DEF ViewInv, KeptHeld, Held
  <2>2. f \in Snap BY SnapTypes DEF ViewInv, Snapshots
  <2>3. f.sequence >= days[d].views BY <1>3, <1>4, <2>1, <2>2 DEF Snap
  <2>4. Held(boot, d, days[d].views) BY <2>1, <2>3 DEF Held
  <2> QED BY <1>4, <2>4, HeldIsSafe
<1>6. CASE ~(kept[<<boot, d>>] > 0)
  <2>1. ~(days[d].views > 0) BY <1>3, <1>4, <1>6
  <2> QED BY <2>1 DEF Views!Safe
<1> QED BY <1>5, <1>6

\* The views served on a day, as units, are finitely many.
LEMMA ServedFinite == ASSUME ViewInv, NEW d \in Dates PROVE IsFiniteSet(Views!ServedUnits(d))
<1> DEFINE each == [b \in Boots |-> {b} \X (1..served[<<b, d>>])]
           all  == {{b} \X (1..served[<<b, d>>]) : b \in Boots}
<1>1. IsFiniteSet(Boots) BY ViewNumbers, FS_Interval DEF Boots
<1>2. each \in Surjection(Boots, all) BY DEF Surjection
<1>3. IsFiniteSet(all) BY <1>1, <1>2, FS_Surjection
<1>4. \A b \in Boots : IsFiniteSet({b} \X (1..served[<<b, d>>]))
  <2> SUFFICES ASSUME NEW b \in Boots PROVE IsFiniteSet({b} \X (1..served[<<b, d>>])) OBVIOUS
  <2>1. PICK n \in Int : n = served[<<b, d>>] BY DEF ViewInv, ViewShape
  <2>2. IsFiniteSet(1..n) BY FS_Interval
  <2> QED BY <2>1, <2>2, FS_Singleton, FS_Product
<1>5. \A T \in all : IsFiniteSet(T) BY <1>4
<1> HIDE DEF all
<1>6. IsFiniteSet(UNION all) BY <1>3, <1>5, FS_UNION
<1> QED BY <1>6 DEF all, Views!ServedUnits, Boots

\* Analytics counts with the same operator.
LEMMA SameNumber == ASSUME NEW S PROVE Views!Cardinality(S) = Cardinality(S)
  BY DEF Cardinality, Views!Cardinality

\* One file of a producer counts, and it has no more views than were served.
LEMMA CountedAreServed == ViewInv => Views!NotInflated
<1> SUFFICES ASSUME ViewInv, NEW p \in Primary, NEW d \in Dates
             PROVE  Views!PageViews(p, d) <= Cardinality(Views!ServedUnits(d))
  BY SameNumber DEF Views!NotInflated, Boots, Dates
<1> DEFINE units == UNION {{f} \X (1..f.total) : f \in Views!Latest(p, d)}
           unit  == [u \in units |-> <<u[1].boot, u[2]>>]
<1>1. \A u \in units : u[1] \in Views!Latest(p, d) /\ u[2] \in 1..u[1].total /\ u = <<u[1], u[2]>>
  OBVIOUS
<1>2. \A f \in Views!Latest(p, d) : /\ f \in files[p] /\ f \in Snap /\ f.day = d /\ f.total <= served[<<f.boot, d>>]
                              /\ \A g \in files[p] : g.boot = f.boot /\ g.day = d => ~(g.sequence > f.sequence)
  <2> SUFFICES ASSUME NEW f \in Views!Latest(p, d)
               PROVE  /\ f \in files[p] /\ f \in Snap /\ f.day = d /\ f.total <= served[<<f.boot, d>>]
                      /\ \A g \in files[p] : g.boot = f.boot /\ g.day = d => ~(g.sequence > f.sequence)
    OBVIOUS
  <2>1. /\ f \in files[p] /\ f.day = d
        /\ \A g \in files[p] : g.boot = f.boot /\ g.day = d => ~(g.sequence > f.sequence)
    BY DEF Views!Latest, Views!OfProducer
  <2>2. f \in Snapshots BY <2>1, DiskIs DEF Snapshots
  <2>3. f \in Snap /\ SnapHeld(f) BY <2>2, SnapTypes DEF ViewInv, SnapsHeld
  <2> QED BY <2>1, <2>3 DEF SnapHeld
<1>3. \A f, g \in Views!Latest(p, d) : f.boot = g.boot => f = g
  <2> SUFFICES ASSUME NEW f \in Views!Latest(p, d), NEW g \in Views!Latest(p, d), f.boot = g.boot PROVE f = g
    OBVIOUS
  <2>0. f.sequence \in Nat /\ g.sequence \in Nat BY <1>2 DEF Snap
  <2>1. f.sequence = g.sequence
    <3>1. ~(g.sequence > f.sequence) /\ ~(f.sequence > g.sequence) BY <1>2
    <3> QED BY <2>0, <3>1
  <2>2. Views!Name(f) = Views!Name(g) BY <1>2, <2>1 DEF Views!Name
  <2> QED BY <1>2, <2>2 DEF ViewInv, NamesOnce
<1> HIDE DEF units
<1>4. \A u \in units : <<u[1].boot, u[2]>> \in Views!ServedUnits(d)
  <2> SUFFICES ASSUME NEW u \in units PROVE <<u[1].boot, u[2]>> \in Views!ServedUnits(d) OBVIOUS
  <2>1. u[1] \in Snap /\ u[1].total <= served[<<u[1].boot, d>>] /\ u[2] \in 1..u[1].total BY <1>1, <1>2
  <2>2. u[1].boot \in Boots /\ u[1].total \in Nat BY <2>1 DEF Snap
  <2>3. served[<<u[1].boot, d>>] \in Nat BY <2>2 DEF ViewInv, ViewShape
  <2>4. u[2] \in 1..served[<<u[1].boot, d>>] BY <2>1, <2>2, <2>3
  <2> QED BY <2>2, <2>4 DEF Views!ServedUnits, Boots
<1>5. unit \in Injection(units, Views!ServedUnits(d))
  <2>1. unit \in [units -> Views!ServedUnits(d)] BY <1>4
  <2>2. \A u, w \in units : <<u[1].boot, u[2]>> = <<w[1].boot, w[2]>> => u = w BY <1>1, <1>3
  <2> QED BY <2>1, <2>2 DEF Injection, IsInjective
<1> HIDE DEF unit
<1>6. Cardinality(units) <= Cardinality(Views!ServedUnits(d)) BY <1>5, ServedFinite, FS_Injection
<1> QED BY <1>6, SameNumber DEF units, Views!PageViews

\* Whatever the order of counting, capturing, submitting, replicating and sweeping, and
\* wherever the process stops, no view is counted twice, and what the collector takes to be
\* captured stays on a disk until its day expires.
THEOREM ViewsStayCounted == Views!Spec => []ViewsCountedOnce
<1>1. ViewInv => ViewsCountedOnce
    BY KeptIsSafe, CleanIsSafe, CountedAreServed DEF ViewsCountedOnce, Views!ViewsCountedOnce
<1> QED BY <1>1, ViewInvInit, ViewInvNext, PTL DEF Views!Spec

-----------------------------------------------------------------------------
(***************************************************************************)
(* The local copies.  CopiesInv accounts for everything that is held: the  *)
(* references of a flight are the requests that ride on it, the pins of a  *)
(* file are the requests that read it, the flights that found it and the   *)
(* releases to come, and a spool has one owner.  A pinned file is then an  *)
(* entry of the cache and not idle, so that no eviction takes its name.    *)
(***************************************************************************)

Asking == [pc : {"away", "missed", "waiting", "reading"}, key : Asset \cup {None},
           file : {0} \cup Copies!File, via : {None, "hit", "flight"}]

\* Names on disk are those of files that were created.
CopyShape ==
    /\ entries \in [Asset -> {0} \cup Copies!File] /\ retired \subseteq Copies!File
    /\ created \in 0..MaxFile /\ disk \subseteq 1..created
    /\ pins \in [Copies!File -> Nat] /\ releasing \in [Copies!File -> Nat]
    /\ flight \in [Asset -> Copies!Flight \cup {None}]
    /\ cleaning \subseteq Copies!File /\ orphans \subseteq Copies!File
    /\ reader \in [Reader -> Asking]

ReaderShape ==
    \A r \in Reader :
        /\ reader[r].pc # "away" => reader[r].key \in Asset
        /\ reader[r].pc \in {"missed", "waiting"} => reader[r].via = "flight"
        /\ reader[r].pc = "reading" => reader[r].via \in {"hit", "flight"} /\ reader[r].file \in Copies!File

\* A flight that has ended without an error holds a pin or a spool; before, neither.
FlightFine(fl) ==
    /\ fl.pc \in {"admit", "fetch"} => fl.owner = None
    /\ fl.pc = "verify" => fl.owner = None /\ fl.file \in Copies!File
    /\ fl.owner # None => fl.file \in Copies!File /\ fl.pc \in {"close", "done"}
    /\ fl.pc \in {"close", "done"} /\ ~fl.err => fl.owner # None
FlightShape == \A k \in Asset : flight[k] # None => FlightFine(flight[k])

\* Requests that hold a reference to a flight.
Rides(r, k) ==
    /\ reader[r].pc \in {"waiting", "reading"} /\ reader[r].via = "flight"
    /\ reader[r].key = k
Riders(k) == {r \in Reader : Rides(r, k)}
RefsOf(k) == IF flight[k] = None THEN 0 ELSE flight[k].refs

\* A flight is there as long as a request rides on it.
RefsExact == \A k \in Asset : RefsOf(k) = Cardinality(Riders(k))

\* Requests that hold a pin of a file, and what flights hold or still have to release.
Hits(f) == {r \in Reader : reader[r].pc = "reading" /\ reader[r].via = "hit" /\ reader[r].file = f}
Flying(f) == {k \in Asset : flight[k] # None /\ flight[k].owner = "cache" /\ flight[k].file = f}
Owed(f) == Cardinality(Flying(f)) + releasing[f]

\* Every pin has a holder that will release it.
PinsExact == \A f \in Copies!File : pins[f] = Cardinality(Hits(f)) + Owed(f)

\* A pinned file is an entry, and a file whose name was handed out is charged.
CacheBooks ==
    /\ Copies!Entries \cap retired = {}
    /\ \A f \in Copies!File : pins[f] > 0 => f \in Copies!Entries
    /\ handed \subseteq Copies!Charged
    /\ allocated = Cardinality(Copies!Charged) /\ allocated <= Limit /\ allocated <= MaxEntries

IdleExact ==
    shut # "cache" =>
        /\ idle \in Seq(Copies!File)
        /\ Range(idle) = {f \in Copies!Entries : pins[f] = 0}
        /\ \A i, j \in 1..Len(idle) : idle[i] = idle[j] => i = j

\* A spool has one owner: a flight, a cleanup or the orphans.
SpoolBooks ==
    /\ \A k, l \in Asset : Copies!Spooling(k) /\ Copies!Spooling(l) /\ flight[k].file = flight[l].file => k = l
    /\ \A k \in Asset : Copies!Spooling(k) => flight[k].file \notin cleaning \cup orphans
    /\ cleaning \cap orphans = {}
    /\ spool = Cardinality(Copies!Reserved) /\ spool <= SpoolLimit

DiskBooks == disk = Copies!Charged \cup Copies!Reserved /\ Copies!Charged \cap Copies!Reserved = {}

CopiesInv ==
    /\ CopyShape /\ ReaderShape /\ FlightShape /\ RefsExact /\ PinsExact
    /\ CacheBooks /\ IdleExact /\ SpoolBooks /\ DiskBooks

-----------------------------------------------------------------------------
\* The cache counts and cuts lists with the same operators.
LEMMA SameFinite == ASSUME NEW S PROVE Copies!IsFiniteSet(S) <=> IsFiniteSet(S)
BY DEF IsFiniteSet, Copies!IsFiniteSet

LEMMA SameCount == ASSUME NEW S PROVE Copies!Cardinality(S) = Cardinality(S)
BY DEF Cardinality, Copies!Cardinality

LEMMA SameRange == ASSUME NEW s PROVE Copies!Range(s) = Range(s)
BY DEF Range, Copies!Range

LEMMA SameList == ASSUME NEW s, NEW e PROVE Copies!RemoveFirst(s, e) = RemoveFirst(s, e)
BY DEF RemoveFirst, Copies!RemoveFirst, RemoveAt, Copies!RemoveAt, SelectInSeq, Copies!SelectInSeq,
       Min, Copies!Min

\* The bounds are numbers, and what holds pins and references is finite.
LEMMA CopyNumbers ==
    /\ Limit \in Nat /\ MaxEntries \in Nat /\ SpoolLimit \in Nat /\ MaxFile \in Nat
    /\ IsFiniteSet(Reader) /\ IsFiniteSet(Asset) /\ IsFiniteSet(Copies!File)
    /\ None \notin Copies!Flight /\ None # "cache" /\ None # "spool"
<1>1. /\ Limit \in Nat /\ MaxEntries \in Nat /\ SpoolLimit \in Nat /\ MaxFile \in Nat
      /\ IsFiniteSet(Reader) /\ IsFiniteSet(Asset)
      /\ None \notin Copies!Flight /\ None # "cache" /\ None # "spool"
    BY CopiesAssumed, SameFinite DEF Copies!CopiesAssumption
<1>2. IsFiniteSet(Copies!File) BY <1>1, FS_Interval DEF Copies!File
<1> QED BY <1>1, <1>2

\* A finite set grows and shrinks by one element.
LEMMA OneMore ==
    ASSUME NEW S, IsFiniteSet(S), NEW x, x \notin S
    PROVE  Cardinality(S) \in Nat /\ Cardinality(S \cup {x}) = Cardinality(S) + 1
BY FS_CardinalityType, FS_AddElement

LEMMA OneLess ==
    ASSUME NEW S, IsFiniteSet(S), NEW x \in S
    PROVE  /\ Cardinality(S) \in Nat /\ Cardinality(S) > 0
           /\ Cardinality(S \ {x}) = Cardinality(S) - 1
BY FS_CardinalityType, FS_RemoveElement, FS_EmptySet

LEMMA Fewer ==
    ASSUME NEW S, IsFiniteSet(S), NEW T, T \subseteq S
    PROVE  /\ Cardinality(S) \in Nat /\ Cardinality(T) \in Nat /\ Cardinality(S \ T) \in Nat
           /\ IsFiniteSet(S \ T)
           /\ Cardinality(S \ T) = Cardinality(S) - Cardinality(T)
<1>1. S \cap T = T OBVIOUS
<1>2. IsFiniteSet(T) BY FS_Subset
<1>3. IsFiniteSet(S \ T) /\ Cardinality(S \ T) = Cardinality(S) - Cardinality(S \cap T) BY FS_Difference
<1> QED BY <1>1, <1>2, <1>3, FS_CardinalityType

-----------------------------------------------------------------------------
(* The idle list *)

Once(s) == \A i, j \in 1..Len(s) : s[i] = s[j] => i = j

LEMMA RangeIs ==
    ASSUME NEW s \in Seq(Copies!File) PROVE Range(s) = {s[i] : i \in 1..Len(s)} /\ Len(s) \in Nat
<1>1. DOMAIN s = 1..Len(s) /\ Len(s) \in Nat BY LenProperties
<1> QED BY <1>1 DEF Range

\* A file is taken out of the list.
LEMMA ListLoses ==
    ASSUME NEW s \in Seq(Copies!File), Once(s), NEW e
    PROVE  /\ RemoveFirst(s, e) \in Seq(Copies!File) /\ Once(RemoveFirst(s, e))
           /\ Range(RemoveFirst(s, e)) = Range(s) \ {e}
<1>0. Len(s) \in Nat /\ Range(s) = {s[i] : i \in 1..Len(s)} BY RangeIs
<1>1. CASE ~ \E i \in 1..Len(s) : s[i] = e
  <2>1. RemoveFirst(s, e) = s BY <1>1 DEF RemoveFirst
  <2>2. Range(s) \ {e} = Range(s) BY <1>0, <1>1
  <2> QED BY <2>1, <2>2
<1>2. CASE \E i \in 1..Len(s) : s[i] = e
  <2>1. PICK p \in 1..Len(s) : s[p] = e BY <1>2
  <2>2. {i \in 1..Len(s) : s[i] = e} = {p} BY <2>1 DEF Once
  <2>3. Min({p}) = p BY <1>0 DEF Min
  <2>4. SelectInSeq(s, LAMBDA v : v = e) = p BY <2>2, <2>3 DEF SelectInSeq
  <2>5. RemoveFirst(s, e) = RemoveAt(s, p) BY <1>2, <2>4 DEF RemoveFirst
  <2> DEFINE t == RemoveAt(s, p)
  <2>6. /\ t \in Seq(Copies!File) /\ Len(t) = Len(s) - 1
        /\ \A i \in 1..(Len(s) - 1) : t[i] = IF i < p THEN s[i] ELSE s[i + 1]
    BY Removal
  <2> HIDE DEF t
  <2>7. Once(t)
    <3> SUFFICES ASSUME NEW i \in 1..Len(t), NEW j \in 1..Len(t), t[i] = t[j] PROVE i = j BY DEF Once
    <3>1. PICK a \in 1..Len(s) : t[i] = s[a] /\ a = IF i < p THEN i ELSE i + 1 BY <1>0, <2>6
    <3>2. PICK b \in 1..Len(s) : t[j] = s[b] /\ b = IF j < p THEN j ELSE j + 1 BY <1>0, <2>6
    <3>3. a = b BY <3>1, <3>2 DEF Once
    <3> QED BY <1>0, <2>6, <3>1, <3>2, <3>3
  <2>8. Range(t) = {t[i] : i \in 1..Len(t)} BY <2>6, RangeIs
  <2>9. ASSUME NEW x PROVE x \in Range(t) <=> x \in Range(s) \ {e}
    <3>1. ASSUME x \in Range(t) PROVE x \in Range(s) \ {e}
      <4>1. PICK i \in 1..Len(t) : x = t[i] BY <2>8, <3>1
      <4>2. i \in Int /\ p \in Int /\ 1 <= i /\ i <= Len(s) - 1 BY <1>0, <2>6
      <4>3. PICK a \in 1..Len(s) : a = IF i < p THEN i ELSE i + 1 BY <1>0, <4>2
      <4>4. t[i] = s[a] /\ a # p BY <2>6, <4>2, <4>3
      <4> QED BY <1>0, <2>1, <4>1, <4>4 DEF Once
    <3>2. ASSUME x \in Range(s), x # e PROVE x \in Range(t)
      <4>1. PICK a \in 1..Len(s) : x = s[a] BY <1>0, <3>2
      <4>2. a # p BY <2>1, <3>2, <4>1
      <4>3. PICK i \in 1..Len(t) : i = IF a < p THEN a ELSE a - 1 BY <1>0, <2>6, <4>2
      <4>4. t[i] = s[a] BY <1>0, <2>6, <4>2, <4>3
      <4> QED BY <2>8, <4>1, <4>4
    <3> QED BY <3>1, <3>2
  <2>10. Range(t) = Range(s) \ {e} BY <2>9
  <2> QED BY <2>5, <2>6, <2>7, <2>10 DEF t
<1> QED BY <1>1, <1>2

\* A file that was not in it goes to the front.
LEMMA ListGains ==
    ASSUME NEW s \in Seq(Copies!File), Once(s), NEW e \in Copies!File, e \notin Range(s)
    PROVE  /\ <<e>> \o s \in Seq(Copies!File) /\ Once(<<e>> \o s)
           /\ Range(<<e>> \o s) = Range(s) \cup {e}
<1>0. Len(s) \in Nat /\ Range(s) = {s[i] : i \in 1..Len(s)} BY RangeIs
<1> DEFINE t == <<e>> \o s
<1>1. <<e>> \in Seq(Copies!File) /\ Len(<<e>>) = 1 /\ <<e>>[1] = e OBVIOUS
<1>2. /\ t \in Seq(Copies!File) /\ Len(t) = 1 + Len(s)
      /\ \A i \in 1..(1 + Len(s)) : t[i] = IF i <= 1 THEN <<e>>[i] ELSE s[i - 1]
    BY <1>0, <1>1, ConcatProperties
<1> HIDE DEF t
<1>3. /\ t[1] = e
      /\ \A i \in 2..Len(t) : i - 1 \in 1..Len(s) /\ t[i] = s[i - 1]
    BY <1>0, <1>1, <1>2
<1>4. Once(t)
  <2> SUFFICES ASSUME NEW i \in 1..Len(t), NEW j \in 1..Len(t), t[i] = t[j] PROVE i = j BY DEF Once
  <2>1. CASE i = 1 /\ j = 1 BY <2>1
  <2>2. \A a \in 1..Len(t) : a # 1 => t[a] # e
    <3> SUFFICES ASSUME NEW a \in 1..Len(t), a # 1 PROVE t[a] # e OBVIOUS
    <3>1. a \in 2..Len(t) BY <1>0, <1>2
    <3>2. a - 1 \in 1..Len(s) /\ t[a] = s[a - 1] BY <1>3, <3>1
    <3> QED BY <1>0, <3>2
  <2>3. CASE (i = 1) # (j = 1) BY <1>3, <2>2, <2>3
  <2>4. CASE i # 1 /\ j # 1
    <3>1. /\ i - 1 \in 1..Len(s) /\ t[i] = s[i - 1] /\ j - 1 \in 1..Len(s) /\ t[j] = s[j - 1]
        BY <1>0, <1>2, <1>3, <2>4
    <3>2. i - 1 = j - 1 BY <3>1 DEF Once
    <3> QED BY <1>0, <1>2, <3>2
  <2> QED BY <2>1, <2>2, <2>3, <2>4
<1>5. Range(t) = {t[i] : i \in 1..Len(t)} BY <1>2, RangeIs
<1>6. ASSUME NEW x PROVE x \in Range(t) <=> x \in Range(s) \cup {e}
  <2>1. ASSUME x \in Range(t) PROVE x \in Range(s) \cup {e}
    <3>1. PICK i \in 1..Len(t) : x = t[i] BY <1>5, <2>1
    <3>2. CASE i = 1 BY <1>3, <3>1, <3>2
    <3>3. CASE i # 1
      <4>1. i \in 2..Len(t) BY <1>0, <1>2, <3>3
      <4> QED BY <1>0, <1>3, <3>1, <4>1
    <3> QED BY <3>2, <3>3
  <2>2. ASSUME x \in Range(s) PROVE x \in Range(t)
    <3>1. PICK i \in 1..Len(s) : x = s[i] BY <1>0, <2>2
    <3>2. i + 1 \in 1..Len(t) /\ t[i + 1] = s[i] BY <1>0, <1>2
    <3> QED BY <1>5, <3>1, <3>2
  <2>3. e \in Range(t)
    <3>1. 1 \in 1..Len(t) BY <1>0, <1>2
    <3> QED BY <1>3, <1>5, <3>1
  <2> QED BY <2>1, <2>2, <2>3
<1>7. Range(t) = Range(s) \cup {e} BY <1>6
<1> QED BY <1>2, <1>4, <1>7 DEF t

\* The oldest files are cut off.
LEMMA ListCut ==
    ASSUME NEW s \in Seq(Copies!File), Once(s), NEW n \in 0..Len(s)
    PROVE  /\ SubSeq(s, 1, Len(s) - n) \in Seq(Copies!File) /\ Once(SubSeq(s, 1, Len(s) - n))
           /\ Range(SubSeq(s, 1, Len(s) - n)) = Range(s) \ {s[i] : i \in (Len(s) - n + 1)..Len(s)}
           /\ {s[i] : i \in (Len(s) - n + 1)..Len(s)} \subseteq Range(s)
<1>0. /\ Len(s) \in Nat /\ Range(s) = {s[i] : i \in 1..Len(s)}
      /\ \A i \in 1..Len(s) : s[i] \in Copies!File
    BY RangeIs, ElementOfSeq
<1>1. PICK m \in Nat : m = Len(s) - n /\ m <= Len(s) BY <1>0
<1> DEFINE t == SubSeq(s, 1, m)
<1>2. \A i \in 1..m : s[i] \in Copies!File BY <1>0, <1>1
<1>3. /\ SubSeq(s, 1, m) \in Seq(Copies!File)
      /\ Len(SubSeq(s, 1, m)) = IF 1 <= m THEN m - 1 + 1 ELSE 0
      /\ \A i \in 1..(m - 1 + 1) : SubSeq(s, 1, m)[i] = s[1 + i - 1]
    BY <1>2, SubSeqProperties
<1>4. t \in Seq(Copies!File) /\ Len(t) = m /\ \A i \in 1..m : i \in 1..Len(s) /\ t[i] = s[i] BY <1>0, <1>1, <1>3
<1> HIDE DEF t
<1>5. Once(t) BY <1>4 DEF Once
<1>6. Range(t) = {t[i] : i \in 1..m} BY <1>4, RangeIs
<1> DEFINE cut == {s[i] : i \in (m + 1)..Len(s)}
<1>7. ASSUME NEW x PROVE x \in Range(t) <=> x \in Range(s) \ cut
  <2>1. ASSUME x \in Range(t) PROVE x \in Range(s) \ cut
    <3>1. PICK i \in 1..m : x = s[i] BY <1>4, <1>6, <2>1
    <3>2. ASSUME x \in cut PROVE FALSE
      <4>1. PICK j \in (m + 1)..Len(s) : x = s[j] BY <3>2
      <4>2. j \in 1..Len(s) /\ i \in 1..Len(s) BY <1>0, <1>1
      <4>3. i = j BY <3>1, <4>1, <4>2 DEF Once
      <4> QED BY <1>0, <1>1, <4>3
    <3> QED BY <1>0, <1>1, <3>1, <3>2
  <2>2. ASSUME x \in Range(s), x \notin cut PROVE x \in Range(t)
    <3>1. PICK i \in 1..Len(s) : x = s[i] BY <1>0, <2>2
    <3>2. i \in 1..m BY <1>0, <1>1, <2>2, <3>1
    <3> QED BY <1>4, <1>6, <3>1, <3>2
  <2> QED BY <2>1, <2>2
<1>8. Range(t) = Range(s) \ cut BY <1>7
<1>9. cut \subseteq Range(s)
  <2> SUFFICES ASSUME NEW i \in (m + 1)..Len(s) PROVE s[i] \in Range(s) OBVIOUS
  <2>1. i \in 1..Len(s) BY <1>0, <1>1
  <2> QED BY <1>0, <2>1
<1>10. Len(s) - n = m BY <1>1
<1> QED BY <1>4, <1>5, <1>8, <1>9, <1>10 DEF t

-----------------------------------------------------------------------------
(* The cache *)

LEMMA EntriesAre ==
    ASSUME CopyShape
    PROVE  /\ Copies!Entries \subseteq Copies!File /\ Copies!Charged \subseteq Copies!File /\ IsFiniteSet(Copies!Charged)
           /\ Cardinality(Copies!Charged) \in Nat
           /\ \A k \in Asset : entries[k] # 0 => entries[k] \in Copies!Entries
<1>1. Copies!Entries \subseteq Copies!File BY DEF CopyShape, Copies!Entries
<1>2. Copies!Charged \subseteq Copies!File BY <1>1 DEF CopyShape, Copies!Charged
<1>3. IsFiniteSet(Copies!Charged) /\ Cardinality(Copies!Charged) \in Nat
    BY <1>2, CopyNumbers, FS_Subset, FS_CardinalityType
<1>4. \A k \in Asset : entries[k] # 0 => entries[k] \in Copies!Entries BY DEF Copies!Entries
<1> QED BY <1>1, <1>2, <1>3, <1>4

\* Files taken out of the map of entries.
LEMMA EntriesWithout ==
    ASSUME CopyShape, NEW S, 0 \notin S
    PROVE  /\ Copies!Without(S) \in [Asset -> {0} \cup Copies!File]
           /\ {Copies!Without(S)[k] : k \in Asset} \ {0} = Copies!Entries \ S
<1>1. Copies!Without(S) \in [Asset -> {0} \cup Copies!File] BY DEF CopyShape, Copies!Without
<1>2. ASSUME NEW x PROVE x \in {Copies!Without(S)[k] : k \in Asset} \ {0} <=> x \in Copies!Entries \ S
    BY DEF Copies!Without, Copies!Entries
<1> QED BY <1>1, <1>2

\* What every step leaves in order in the cache, and what it may unlink.
CacheSound ==
    /\ entries' \in [Asset -> {0} \cup Copies!File] /\ retired' \subseteq Copies!File /\ pins' \in [Copies!File -> Nat]
    /\ CacheBooks' /\ IdleExact'
CacheLoses == \E G \in SUBSET Copies!Charged : Copies!Charged' = Copies!Charged \ G /\ disk' = disk \ G

LEMMA CacheSame ==
    ASSUME CopiesInv, UNCHANGED <<Copies!cacheVars, disk, pins>>, handed' \subseteq Copies!Charged,
           shut' # "cache" => shut # "cache"
    PROVE  CacheSound /\ CacheLoses
<1>1. /\ entries' = entries /\ retired' = retired /\ idle' = idle /\ allocated' = allocated
      /\ disk' = disk /\ pins' = pins
    BY DEF Copies!cacheVars
<1>2. Copies!Entries' = Copies!Entries /\ Copies!Charged' = Copies!Charged
    BY <1>1 DEF Copies!Entries, Copies!Charged
<1>3. CacheBooks' BY <1>1, <1>2 DEF CopiesInv, CacheBooks
<1>4. IdleExact' BY <1>1, <1>2 DEF CopiesInv, IdleExact
<1>5. CacheLoses
  <2>1. {} \in SUBSET Copies!Charged /\ Copies!Charged' = Copies!Charged \ {} /\ disk' = disk \ {} BY <1>1, <1>2
  <2> QED BY <2>1 DEF CacheLoses
<1> QED BY <1>1, <1>3, <1>4, <1>5 DEF CacheSound, CopiesInv, CopyShape

LEMMA RemovedHolds ==
    ASSUME CopiesInv, NEW f \in Copies!Charged, f \notin handed, Copies!Removed(f), UNCHANGED <<handed, shut>>,
           pins' \in [Copies!File -> Nat], pins'[f] = 0, \A g \in Copies!File : g # f => pins'[g] = pins[g]
    PROVE  CacheSound /\ CacheLoses
<1>1. /\ entries' = Copies!Without({f}) /\ retired' = retired \ {f} /\ idle' = RemoveFirst(idle, f)
      /\ allocated' = allocated - 1 /\ disk' = disk \ {f}
    BY SameList DEF Copies!Removed
<1>2. /\ CopyShape /\ f \in Copies!File /\ Copies!Entries \subseteq Copies!File /\ retired \subseteq Copies!File
      /\ IsFiniteSet(Copies!Charged) /\ Cardinality(Copies!Charged) \in Nat
    BY EntriesAre DEF CopiesInv, CopyShape
<1>3. 0 \notin {f} BY <1>2, CopyNumbers DEF Copies!File
<1>4. entries' \in [Asset -> {0} \cup Copies!File] /\ Copies!Entries' = Copies!Entries \ {f}
    BY <1>1, <1>2, <1>3, EntriesWithout DEF Copies!Entries
<1>5. Copies!Charged' = Copies!Charged \ {f} BY <1>1, <1>4 DEF Copies!Charged
<1>6. allocated' = Cardinality(Copies!Charged') /\ allocated' <= Limit /\ allocated' <= MaxEntries
  <2>1. Cardinality(Copies!Charged \ {f}) = Cardinality(Copies!Charged) - 1 BY <1>2, OneLess
  <2>2. allocated = Cardinality(Copies!Charged) /\ allocated <= Limit /\ allocated <= MaxEntries
      BY DEF CopiesInv, CacheBooks
  <2> QED BY <1>1, <1>2, <1>5, <2>1, <2>2, CopyNumbers
<1>7. CacheBooks'
  <2>1. Copies!Entries' \cap retired' = {} BY <1>1, <1>4 DEF CopiesInv, CacheBooks
  <2>2. \A g \in Copies!File : pins'[g] > 0 => g \in Copies!Entries' BY <1>2, <1>4 DEF CopiesInv, CacheBooks
  <2>3. handed' \subseteq Copies!Charged' BY <1>5 DEF CopiesInv, CacheBooks
  <2> QED BY <1>6, <2>1, <2>2, <2>3 DEF CacheBooks
<1>8. IdleExact'
  <2> SUFFICES ASSUME shut' # "cache"
               PROVE  /\ idle' \in Seq(Copies!File) /\ Range(idle') = {g \in Copies!Entries' : pins'[g] = 0}
                      /\ \A i, j \in 1..Len(idle') : idle'[i] = idle'[j] => i = j
      BY DEF IdleExact
  <2>1. idle \in Seq(Copies!File) /\ Range(idle) = {g \in Copies!Entries : pins[g] = 0} /\ Once(idle)
      BY DEF CopiesInv, IdleExact, Once
  <2>2. idle' \in Seq(Copies!File) /\ Once(idle') /\ Range(idle') = Range(idle) \ {f} BY <1>1, <2>1, ListLoses
  <2>3. Range(idle') = {g \in Copies!Entries' : pins'[g] = 0} BY <1>2, <1>4, <2>1, <2>2
  <2> QED BY <2>2, <2>3 DEF Once
<1>9. CacheLoses
  <2>1. {f} \in SUBSET Copies!Charged BY <1>2
  <2> QED BY <1>1, <1>5, <2>1 DEF CacheLoses
<1> QED BY <1>1, <1>2, <1>4, <1>7, <1>8, <1>9 DEF CacheSound

LEMMA PinnedHolds ==
    ASSUME CopiesInv, NEW k \in Asset, Copies!Intact(k), Copies!Pinned(k), UNCHANGED <<handed, shut>>
    PROVE  /\ CacheSound /\ CacheLoses /\ entries[k] \in Copies!File
           /\ pins' = [pins EXCEPT ![entries[k]] = @ + 1]
<1>1. PICK f : f = entries[k] OBVIOUS
<1>2. /\ idle' = RemoveFirst(idle, f) /\ pins' = [pins EXCEPT ![f] = @ + 1]
      /\ entries' = entries /\ retired' = retired /\ allocated' = allocated /\ disk' = disk
    BY <1>1, SameList DEF Copies!Pinned
<1>3. f \in Copies!Entries /\ f \in Copies!File /\ Copies!Entries \subseteq Copies!File
    BY <1>1, EntriesAre DEF CopiesInv, Copies!Intact
<1>4. pins \in [Copies!File -> Nat] BY DEF CopiesInv, CopyShape
<1>5. pins' \in [Copies!File -> Nat] /\ pins'[f] = pins[f] + 1 /\ \A g \in Copies!File : g # f => pins'[g] = pins[g]
    BY <1>2, <1>3, <1>4
<1>6. Copies!Entries' = Copies!Entries /\ Copies!Charged' = Copies!Charged
    BY <1>2 DEF Copies!Entries, Copies!Charged
<1>7. CacheBooks'
  <2>1. \A g \in Copies!File : pins'[g] > 0 => g \in Copies!Entries'
      BY <1>3, <1>5, <1>6 DEF CopiesInv, CacheBooks
  <2> QED BY <1>2, <1>6, <2>1 DEF CopiesInv, CacheBooks
<1>8. IdleExact'
  <2> SUFFICES ASSUME shut' # "cache"
               PROVE  /\ idle' \in Seq(Copies!File) /\ Range(idle') = {g \in Copies!Entries' : pins'[g] = 0}
                      /\ \A i, j \in 1..Len(idle') : idle'[i] = idle'[j] => i = j
      BY DEF IdleExact
  <2>1. idle \in Seq(Copies!File) /\ Range(idle) = {g \in Copies!Entries : pins[g] = 0} /\ Once(idle)
      BY DEF CopiesInv, IdleExact, Once
  <2>2. idle' \in Seq(Copies!File) /\ Once(idle') /\ Range(idle') = Range(idle) \ {f} BY <1>2, <2>1, ListLoses
  <2>3. pins'[f] # 0 BY <1>3, <1>4, <1>5
  <2>4. Range(idle') = {g \in Copies!Entries' : pins'[g] = 0} BY <1>3, <1>5, <1>6, <2>1, <2>2, <2>3
  <2> QED BY <2>2, <2>4 DEF Once
<1>9. CacheLoses
  <2>1. {} \in SUBSET Copies!Charged /\ Copies!Charged' = Copies!Charged \ {} /\ disk' = disk \ {} BY <1>2, <1>6
  <2> QED BY <2>1 DEF CacheLoses
<1> QED BY <1>1, <1>2, <1>3, <1>5, <1>7, <1>8, <1>9 DEF CacheSound, CopiesInv, CopyShape

LEMMA MissedHolds ==
    ASSUME CopiesInv, NEW k \in Asset, Copies!Missed(k), UNCHANGED <<handed, shut>>
    PROVE  CacheSound /\ CacheLoses /\ pins' = pins
<1>0. pins' = pins BY DEF Copies!Missed
<1>1. CASE entries[k] # 0 /\ shut # "cache" /\ Copies!Removable(entries[k])
  <2>1. PICK f : f = entries[k] OBVIOUS
  <2>2. f \in Copies!Charged /\ f \in Copies!File /\ f \notin handed /\ pins[f] = 0 /\ Copies!Removed(f)
      BY <1>1, <2>1, EntriesAre DEF CopiesInv, Copies!Missed, Copies!Removable, Copies!Charged
  <2>3. pins' \in [Copies!File -> Nat] /\ pins'[f] = 0 BY <1>0, <2>2 DEF CopiesInv, CopyShape
  <2> QED BY <1>0, <2>2, <2>3, RemovedHolds
<1>2. CASE ~(entries[k] # 0 /\ shut # "cache" /\ Copies!Removable(entries[k]))
  <2>1. UNCHANGED <<Copies!cacheVars, disk, pins>> /\ handed' \subseteq Copies!Charged
      BY <1>0, <1>2 DEF Copies!Missed, CopiesInv, CacheBooks
  <2> QED BY <1>0, <2>1, CacheSame
<1> QED BY <1>1, <1>2

LEMMA UnpinnedHolds ==
    ASSUME CopiesInv, NEW f \in Copies!File, pins[f] > 0, Copies!Unpinned(f), UNCHANGED <<handed, shut>>
    PROVE  CacheSound /\ CacheLoses /\ pins' = [pins EXCEPT ![f] = @ - 1]
<1>0. pins' = [pins EXCEPT ![f] = @ - 1] BY DEF Copies!Unpinned
<1>1. pins \in [Copies!File -> Nat] BY DEF CopiesInv, CopyShape
<1>2. pins' \in [Copies!File -> Nat] /\ pins'[f] = pins[f] - 1 /\ \A g \in Copies!File : g # f => pins'[g] = pins[g]
    BY <1>0, <1>1
<1>3. f \in Copies!Entries /\ f \in Copies!Charged /\ Copies!Entries \subseteq Copies!File
    BY EntriesAre DEF CopiesInv, CacheBooks, Copies!Charged
<1>4. CASE pins[f] = 1 /\ shut = "cache" /\ f \notin handed \cup stuck
  <2>1. Copies!Removed(f) /\ f \notin handed /\ pins'[f] = 0 BY <1>2, <1>4 DEF Copies!Unpinned
  <2> QED BY <1>0, <1>2, <1>3, <2>1, RemovedHolds
<1>5. CASE ~(pins[f] = 1 /\ shut = "cache" /\ f \notin handed \cup stuck)
  <2>1. /\ idle' = IF pins[f] = 1 /\ shut # "cache" THEN <<f>> \o idle ELSE idle
        /\ entries' = entries /\ retired' = retired /\ allocated' = allocated /\ disk' = disk
      BY <1>3, <1>5 DEF Copies!Unpinned
  <2>2. Copies!Entries' = Copies!Entries /\ Copies!Charged' = Copies!Charged
      BY <2>1 DEF Copies!Entries, Copies!Charged
  <2>3. CacheBooks'
    <3>1. \A g \in Copies!File : pins'[g] > 0 => g \in Copies!Entries'
        BY <1>2, <1>3, <2>2 DEF CopiesInv, CacheBooks
    <3> QED BY <2>1, <2>2, <3>1 DEF CopiesInv, CacheBooks
  <2>4. IdleExact'
    <3> SUFFICES ASSUME shut' # "cache"
                 PROVE  /\ idle' \in Seq(Copies!File) /\ Range(idle') = {g \in Copies!Entries' : pins'[g] = 0}
                        /\ \A i, j \in 1..Len(idle') : idle'[i] = idle'[j] => i = j
        BY DEF IdleExact
    <3>1. idle \in Seq(Copies!File) /\ Range(idle) = {g \in Copies!Entries : pins[g] = 0} /\ Once(idle)
        BY DEF CopiesInv, IdleExact, Once
    <3>2. f \notin Range(idle) BY <1>1, <3>1
    <3>3. CASE pins[f] = 1
      <4>1. idle' = <<f>> \o idle /\ pins'[f] = 0 BY <1>2, <2>1, <3>3
      <4>2. idle' \in Seq(Copies!File) /\ Once(idle') /\ Range(idle') = Range(idle) \cup {f}
          BY <3>1, <3>2, <4>1, ListGains
      <4>3. Range(idle') = {g \in Copies!Entries' : pins'[g] = 0} BY <1>2, <1>3, <2>2, <3>1, <4>1, <4>2
      <4> QED BY <4>2, <4>3 DEF Once
    <3>4. CASE pins[f] # 1
      <4>1. idle' = idle /\ pins'[f] # 0 BY <1>1, <1>2, <2>1, <3>4
      <4>2. Range(idle') = {g \in Copies!Entries' : pins'[g] = 0} BY <1>1, <1>2, <1>3, <2>2, <3>1, <4>1
      <4> QED BY <3>1, <4>1, <4>2 DEF Once
    <3> QED BY <3>3, <3>4
  <2>5. CacheLoses
    <3>1. {} \in SUBSET Copies!Charged /\ Copies!Charged' = Copies!Charged \ {} /\ disk' = disk \ {}
        BY <2>1, <2>2
    <3> QED BY <3>1 DEF CacheLoses
  <2> QED BY <1>0, <1>2, <2>1, <2>3, <2>4, <2>5 DEF CacheSound, CopiesInv, CopyShape
<1> QED BY <1>4, <1>5

-----------------------------------------------------------------------------
(* Flights *)

LEMMA ReservedIs ==
    ASSUME NEW x
    PROVE  x \in Copies!Reserved <=>
               \/ \E k \in Asset : Copies!Spooling(k) /\ flight[k].file = x
               \/ x \in cleaning \/ x \in orphans
BY DEF Copies!Reserved

LEMMA ReservedAfter ==
    ASSUME NEW x
    PROVE  x \in Copies!Reserved' <=>
               \/ \E k \in Asset : Copies!Spooling(k)' /\ flight'[k].file = x
               \/ x \in cleaning' \/ x \in orphans'
BY DEF Copies!Reserved

LEMMA ReservedFinite ==
    ASSUME CopiesInv
    PROVE  /\ Copies!Reserved \subseteq Copies!File /\ IsFiniteSet(Copies!Reserved)
           /\ Cardinality(Copies!Reserved) \in Nat
           /\ Copies!Reserved \subseteq disk
<1>1. \A k \in Asset : Copies!Spooling(k) => flight[k].file \in Copies!File
    BY CopyNumbers DEF CopiesInv, FlightShape, FlightFine, Copies!Spooling
<1>2. Copies!Reserved \subseteq Copies!File BY <1>1, ReservedIs DEF CopiesInv, CopyShape
<1>3. Copies!Reserved \subseteq disk BY DEF CopiesInv, DiskBooks
<1> QED BY <1>2, <1>3, CopyNumbers, FS_Subset, FS_CardinalityType

FetchTypes ==
    /\ flight' \in [Asset -> Copies!Flight \cup {None}] /\ releasing' \in [Copies!File -> Nat]
    /\ cleaning' \subseteq Copies!File /\ orphans' \subseteq Copies!File
FetchSound == FetchTypes /\ FlightShape' /\ SpoolBooks'

Spools(fl) == fl # None /\ (fl.pc = "verify" \/ fl.owner = "spool")

\* One flight changes, but not what it has spooled.
LEMMA FlightMoves ==
    ASSUME CopiesInv, NEW k \in Asset, NEW v \in Copies!Flight \cup {None},
           flight' = [flight EXCEPT ![k] = v], UNCHANGED <<cleaning, orphans, spool>>,
           releasing' \in [Copies!File -> Nat],
           v # None => FlightFine(v),
           Spools(v) <=> Spools(flight[k]), Spools(v) => v.file = flight[k].file
    PROVE  FetchSound /\ Copies!Reserved' = Copies!Reserved
<1>1. /\ flight \in [Asset -> Copies!Flight \cup {None}] /\ cleaning' = cleaning /\ orphans' = orphans
      /\ spool' = spool
    BY DEF CopiesInv, CopyShape
<1>2. /\ flight' \in [Asset -> Copies!Flight \cup {None}] /\ flight'[k] = v
      /\ \A l \in Asset : l # k => flight'[l] = flight[l]
    BY <1>1
<1>3. FetchTypes BY <1>1, <1>2 DEF FetchTypes, CopiesInv, CopyShape
<1>4. FlightShape' BY <1>2 DEF CopiesInv, FlightShape, FlightFine
<1>5. \A l \in Asset : /\ Copies!Spooling(l)' <=> Copies!Spooling(l)
                       /\ Copies!Spooling(l) => flight'[l].file = flight[l].file
    BY <1>2 DEF Copies!Spooling, Spools
<1>6. Copies!Reserved' = Copies!Reserved BY <1>1, <1>5, ReservedIs, ReservedAfter
<1>7. SpoolBooks' BY <1>1, <1>5, <1>6 DEF CopiesInv, SpoolBooks
<1> QED BY <1>3, <1>4, <1>6, <1>7 DEF FetchSound

LEMMA FlightSame ==
    ASSUME CopiesInv, UNCHANGED Copies!fetchVars
    PROVE  /\ FetchSound /\ Copies!Reserved' = Copies!Reserved
           /\ \A f \in Copies!File : Owed(f)' = Owed(f)
           /\ \A k \in Asset : RefsOf(k)' = RefsOf(k)
<1>1. /\ flight' = flight /\ releasing' = releasing /\ cleaning' = cleaning /\ orphans' = orphans
      /\ spool' = spool
    BY DEF Copies!fetchVars
<1>2. Copies!Reserved' = Copies!Reserved BY <1>1 DEF Copies!Reserved, Copies!Spooling
<1>3. FetchTypes BY <1>1 DEF FetchTypes, CopiesInv, CopyShape
<1>4. FlightShape' /\ SpoolBooks'
    BY <1>1, <1>2 DEF CopiesInv, FlightShape, FlightFine, SpoolBooks, Copies!Spooling
<1>5. \A f \in Copies!File : Owed(f)' = Owed(f) BY <1>1 DEF Owed, Flying
<1>6. \A k \in Asset : RefsOf(k)' = RefsOf(k) BY <1>1 DEF RefsOf
<1> QED BY <1>2, <1>3, <1>4, <1>5, <1>6 DEF FetchSound

LEMMA FlyingFinite == ASSUME NEW f PROVE IsFiniteSet(Flying(f)) /\ Cardinality(Flying(f)) \in Nat
<1>1. Flying(f) \in SUBSET Asset BY DEF Flying
<1> QED BY <1>1, CopyNumbers, FS_Subset, FS_CardinalityType

\* A finished flight is taken down and leaves its pin or its spool to be cleaned up.
LEMMA LeftHolds ==
    ASSUME CopiesInv, NEW k \in Asset, flight[k] # None, flight[k].pc \in {"close", "done"},
           flight' = [flight EXCEPT ![k] = None], Copies!Left(flight[k]), UNCHANGED <<orphans, spool>>
    PROVE  /\ FetchSound /\ Copies!Reserved' = Copies!Reserved
           /\ \A f \in Copies!File : Owed(f)' = Owed(f)
<1>1. PICK fl : fl = flight[k] OBVIOUS
<1>2. fl \in Copies!Flight /\ FlightFine(fl) /\ fl # None
    BY <1>1 DEF CopiesInv, CopyShape, FlightShape
<1>3. /\ releasing' = IF fl.owner = "cache" THEN [releasing EXCEPT ![fl.file] = @ + 1] ELSE releasing
      /\ cleaning' = IF fl.owner = "spool" THEN cleaning \cup {fl.file} ELSE cleaning
      /\ orphans' = orphans /\ spool' = spool
    BY <1>1 DEF Copies!Left
<1>4. /\ flight \in [Asset -> Copies!Flight \cup {None}] /\ releasing \in [Copies!File -> Nat]
      /\ cleaning \subseteq Copies!File /\ orphans \subseteq Copies!File
    BY DEF CopiesInv, CopyShape
<1>5. /\ flight' \in [Asset -> Copies!Flight \cup {None}] /\ flight'[k] = None
      /\ \A l \in Asset : l # k => flight'[l] = flight[l]
    BY <1>4
<1>6. fl.owner \in {"cache", "spool"} => fl.file \in Copies!File BY <1>2, CopyNumbers DEF FlightFine
<1>7. releasing' \in [Copies!File -> Nat] /\ cleaning' \subseteq Copies!File BY <1>3, <1>4, <1>6
<1>8. Copies!Spooling(k) <=> fl.owner = "spool" BY <1>1 DEF Copies!Spooling
<1>9. /\ ~Copies!Spooling(k)'
      /\ \A l \in Asset : l # k => (Copies!Spooling(l)' <=> Copies!Spooling(l)) /\ flight'[l] = flight[l]
    BY <1>5 DEF Copies!Spooling
<1>10. ASSUME NEW x PROVE x \in Copies!Reserved' <=> x \in Copies!Reserved
  <2>1. x \in Copies!Reserved <=>
            \/ \E l \in Asset : l # k /\ Copies!Spooling(l) /\ flight[l].file = x
            \/ fl.owner = "spool" /\ fl.file = x
            \/ x \in cleaning \/ x \in orphans
      BY <1>1, <1>8, ReservedIs
  <2>2. x \in Copies!Reserved' <=>
            \/ \E l \in Asset : l # k /\ Copies!Spooling(l) /\ flight[l].file = x
            \/ x \in cleaning' \/ x \in orphans'
      BY <1>9, ReservedAfter
  <2> QED BY <1>3, <2>1, <2>2
<1>11. Copies!Reserved' = Copies!Reserved BY <1>10
<1>12. SpoolBooks'
  <2>1. \A i, j \in Asset : Copies!Spooling(i)' /\ Copies!Spooling(j)' /\ flight'[i].file = flight'[j].file => i = j
      BY <1>9 DEF CopiesInv, SpoolBooks
  <2>2. \A l \in Asset : Copies!Spooling(l)' => flight'[l].file \notin cleaning' \cup orphans'
      BY <1>1, <1>3, <1>8, <1>9 DEF CopiesInv, SpoolBooks
  <2>3. cleaning' \cap orphans' = {} BY <1>1, <1>3, <1>8 DEF CopiesInv, SpoolBooks
  <2> QED BY <1>3, <1>11, <2>1, <2>2, <2>3 DEF CopiesInv, SpoolBooks
<1>13. FlightShape' BY <1>5 DEF CopiesInv, FlightShape, FlightFine
<1>14. ASSUME NEW f \in Copies!File PROVE Owed(f)' = Owed(f)
  <2>1. CASE fl.owner = "cache" /\ fl.file = f
    <3>1. k \in Flying(f) BY <1>1, <1>2, <2>1 DEF Flying
    <3>2. Flying(f)' = Flying(f) \ {k} BY <1>5 DEF Flying
    <3>3. releasing'[f] = releasing[f] + 1 BY <1>3, <1>4, <2>1
    <3>4. Cardinality(Flying(f)') = Cardinality(Flying(f)) - 1 /\ Cardinality(Flying(f)) \in Nat
        BY <3>1, <3>2, FlyingFinite, OneLess
    <3> QED BY <1>4, <3>3, <3>4 DEF Owed
  <2>2. CASE ~(fl.owner = "cache" /\ fl.file = f)
    <3>1. Flying(f)' = Flying(f) BY <1>1, <1>5, <2>2 DEF Flying
    <3>2. releasing'[f] = releasing[f] BY <1>3, <1>4, <1>6, <2>2
    <3> QED BY <3>1, <3>2 DEF Owed
  <2> QED BY <2>1, <2>2
<1> QED BY <1>3, <1>4, <1>5, <1>7, <1>11, <1>12, <1>13, <1>14 DEF FetchSound, FetchTypes

-----------------------------------------------------------------------------
(* Requests *)

LEMMA RidersFinite == ASSUME NEW k PROVE IsFiniteSet(Riders(k)) /\ Cardinality(Riders(k)) \in Nat
<1>1. Riders(k) \in SUBSET Reader BY DEF Riders
<1> QED BY <1>1, CopyNumbers, FS_Subset, FS_CardinalityType

LEMMA HitsFinite == ASSUME NEW f PROVE IsFiniteSet(Hits(f)) /\ Cardinality(Hits(f)) \in Nat
<1>1. Hits(f) \in SUBSET Reader BY DEF Hits
<1> QED BY <1>1, CopyNumbers, FS_Subset, FS_CardinalityType

AskingFine(q) ==
    /\ q.pc # "away" => q.key \in Asset
    /\ q.pc \in {"missed", "waiting"} => q.via = "flight"
    /\ q.pc = "reading" => q.via \in {"hit", "flight"} /\ q.file \in Copies!File

\* One request moves.
LEMMA ReaderMoves ==
    ASSUME CopiesInv, NEW r \in Reader, NEW q \in Asking, AskingFine(q),
           reader' = [reader EXCEPT ![r] = q]
    PROVE  /\ reader' \in [Reader -> Asking] /\ ReaderShape'
           /\ reader'[r] = q /\ \A s \in Reader : s # r => reader'[s] = reader[s]
<1>1. reader \in [Reader -> Asking] BY DEF CopiesInv, CopyShape
<1>2. /\ reader' \in [Reader -> Asking] /\ reader'[r] = q
      /\ \A s \in Reader : s # r => reader'[s] = reader[s]
    BY <1>1
<1>3. ReaderShape' BY <1>2 DEF CopiesInv, ReaderShape, AskingFine
<1> QED BY <1>2, <1>3

LEMMA AwayFine == Copies!Away \in Asking /\ AskingFine(Copies!Away) /\ Copies!Away.pc = "away"
BY DEF Copies!Away, Asking, AskingFine

LEMMA ReaderSame ==
    ASSUME CopiesInv, reader' = reader
    PROVE  /\ reader' \in [Reader -> Asking] /\ ReaderShape'
           /\ \A f \in Copies!File : Hits(f)' = Hits(f)
           /\ \A k \in Asset : Riders(k)' = Riders(k)
BY DEF CopiesInv, CopyShape, ReaderShape, Hits, Riders, Rides

\* A rider has a flight.
LEMMA RiderFlies ==
    ASSUME CopiesInv, NEW r \in Reader, NEW k \in Asset, Rides(r, k)
    PROVE  /\ flight[k] # None /\ flight[k] \in Copies!Flight /\ flight[k].refs > 0
           /\ flight[k].refs = Cardinality(Riders(k))
<1>1. r \in Riders(k) BY DEF Riders
<1>2. Cardinality(Riders(k)) > 0 /\ Cardinality(Riders(k)) \in Nat BY <1>1, RidersFinite, OneLess
<1>3. RefsOf(k) = Cardinality(Riders(k)) BY DEF CopiesInv, RefsExact
<1> QED BY <1>2, <1>3 DEF RefsOf, CopiesInv, CopyShape

\* A rider leaves its flight.
LEMMA DroppedHolds ==
    ASSUME CopiesInv, NEW r \in Reader, NEW k \in Asset, Rides(r, k), Copies!Dropped(k),
           reader' = [reader EXCEPT ![r] = Copies!Away], UNCHANGED <<orphans, spool>>
    PROVE  /\ FetchSound /\ Copies!Reserved' = Copies!Reserved
           /\ reader' \in [Reader -> Asking] /\ ReaderShape'
           /\ RefsExact' /\ \A f \in Copies!File : Owed(f)' = Owed(f) /\ Hits(f)' = Hits(f)
<1>1. /\ reader' \in [Reader -> Asking] /\ ReaderShape'
      /\ reader'[r] = Copies!Away /\ \A s \in Reader : s # r => reader'[s] = reader[s]
    BY AwayFine, ReaderMoves
<1>2. /\ flight[k] # None /\ flight[k] \in Copies!Flight /\ flight[k].refs > 0
      /\ flight[k].refs = Cardinality(Riders(k)) /\ flight[k].refs \in Nat
    BY RiderFlies DEF Copies!Flight
<1>3. \A f \in Copies!File : Hits(f)' = Hits(f)
    BY <1>1, AwayFine DEF Hits, Rides
<1>4. Riders(k)' = Riders(k) \ {r} /\ \A l \in Asset : l # k => Riders(l)' = Riders(l)
    BY <1>1, AwayFine DEF Riders, Rides
<1>5. Cardinality(Riders(k)') = flight[k].refs - 1
  <2>1. r \in Riders(k) BY DEF Riders
  <2> QED BY <1>2, <1>4, <2>1, RidersFinite, OneLess
<1>6. \A l \in Asset : l # k => RefsOf(l) = Cardinality(Riders(l)') BY <1>4 DEF CopiesInv, RefsExact
<1>7. CASE flight[k].refs = 1 /\ flight[k].pc = "done"
  <2>1. flight' = [flight EXCEPT ![k] = None] /\ Copies!Left(flight[k]) BY <1>7 DEF Copies!Dropped
  <2>2. FetchSound /\ Copies!Reserved' = Copies!Reserved /\ \A f \in Copies!File : Owed(f)' = Owed(f)
      BY <1>2, <1>7, <2>1, LeftHolds
  <2>3. flight'[k] = None /\ \A l \in Asset : l # k => flight'[l] = flight[l]
      BY <2>1 DEF CopiesInv, CopyShape
  <2>4. RefsOf(k)' = 0 /\ \A l \in Asset : l # k => RefsOf(l)' = RefsOf(l) BY <2>3 DEF RefsOf
  <2>5. RefsExact' BY <1>5, <1>6, <1>7, <2>4 DEF RefsExact
  <2> QED BY <1>1, <1>3, <2>2, <2>5
<1>8. CASE ~(flight[k].refs = 1 /\ flight[k].pc = "done")
  <2> DEFINE v == [flight[k] EXCEPT !.refs = @ - 1]
  <2>1. flight' = [flight EXCEPT ![k] = v] /\ releasing' = releasing /\ cleaning' = cleaning
      BY <1>8 DEF Copies!Dropped
  <2>2. /\ v \in Copies!Flight /\ v.refs = flight[k].refs - 1 /\ v.pc = flight[k].pc /\ v.owner = flight[k].owner
        /\ v.file = flight[k].file /\ v.err = flight[k].err
      BY <1>2 DEF Copies!Flight
  <2>3. v # None BY <2>2, CopyNumbers
  <2>4. FlightFine(v) BY <1>2, <2>2 DEF CopiesInv, FlightShape, FlightFine
  <2>5. (Spools(v) <=> Spools(flight[k])) BY <1>2, <2>2, <2>3 DEF Spools
  <2> HIDE DEF v
  <2>6. FetchSound /\ Copies!Reserved' = Copies!Reserved
    <3>1. releasing' \in [Copies!File -> Nat] BY <2>1 DEF CopiesInv, CopyShape
    <3> QED BY <2>1, <2>2, <2>3, <2>4, <2>5, <3>1, FlightMoves
  <2>7. flight'[k] = v /\ \A l \in Asset : l # k => flight'[l] = flight[l]
      BY <2>1 DEF CopiesInv, CopyShape
  <2>8. RefsOf(k)' = v.refs /\ \A l \in Asset : l # k => RefsOf(l)' = RefsOf(l) BY <2>3, <2>7 DEF RefsOf
  <2>9. RefsExact' BY <1>5, <1>6, <2>2, <2>8 DEF RefsExact
  <2>10. \A f \in Copies!File : Flying(f)' = Flying(f) BY <1>2, <2>2, <2>3, <2>7 DEF Flying
  <2>11. \A f \in Copies!File : Owed(f)' = Owed(f) BY <2>1, <2>10 DEF Owed
  <2> QED BY <1>1, <1>3, <2>6, <2>9, <2>11
<1> QED BY <1>7, <1>8

-----------------------------------------------------------------------------
(* One lemma per action *)

LEMMA DisksKept ==
    ASSUME CopiesInv, CacheLoses, Copies!Reserved' = Copies!Reserved, created' = created
    PROVE  DiskBooks' /\ created' \in 0..MaxFile /\ disk' \subseteq 1..created'
<1>1. PICK G \in SUBSET Copies!Charged : Copies!Charged' = Copies!Charged \ G /\ disk' = disk \ G
    BY DEF CacheLoses
<1>2. disk = Copies!Charged \cup Copies!Reserved /\ Copies!Charged \cap Copies!Reserved = {}
    BY DEF CopiesInv, DiskBooks
<1>3. DiskBooks' BY <1>1, <1>2 DEF DiskBooks
<1> QED BY <1>1, <1>3 DEF CopiesInv, CopyShape

LEMMA Assembled ==
    ASSUME CacheSound, FetchSound, DiskBooks', created' \in 0..MaxFile, disk' \subseteq 1..created',
           reader' \in [Reader -> Asking], ReaderShape', RefsExact', PinsExact'
    PROVE  CopiesInv'
<1>1. CopyShape' BY DEF CopyShape, CacheSound, FetchSound, FetchTypes
<1> QED BY <1>1 DEF CopiesInv, CacheSound, FetchSound

\* Requests and flights hold what they held.
LEMMA PinsSame ==
    ASSUME CopiesInv, pins' = pins, \A f \in Copies!File : Hits(f)' = Hits(f) /\ Owed(f)' = Owed(f)
    PROVE  PinsExact'
BY DEF CopiesInv, PinsExact

LEMMA RefsSame ==
    ASSUME CopiesInv, \A k \in Asset : Riders(k)' = Riders(k) /\ RefsOf(k)' = RefsOf(k)
    PROVE  RefsExact'
BY DEF CopiesInv, RefsExact

LEMMA ServeInv == ASSUME CopiesInv, NEW r \in Reader, NEW k \in Asset, Copies!Serve(r, k) PROVE CopiesInv'
<1>1. reader[r] = Copies!Away /\ UNCHANGED <<handed, shut>> /\ UNCHANGED Copies!fetchVars /\ created' = created
    BY DEF Copies!Serve, Copies!envVars
<1>2. /\ FetchSound /\ Copies!Reserved' = Copies!Reserved /\ \A f \in Copies!File : Owed(f)' = Owed(f)
      /\ \A l \in Asset : RefsOf(l)' = RefsOf(l)
    BY <1>1, FlightSame
<1>3. CASE Copies!Intact(k)
  <2> DEFINE q == [pc |-> "reading", key |-> k, file |-> entries[k], via |-> "hit"]
  <2>1. Copies!Pinned(k) /\ reader' = [reader EXCEPT ![r] = q] BY <1>3 DEF Copies!Serve
  <2>2. CacheSound /\ CacheLoses /\ entries[k] \in Copies!File /\ pins' = [pins EXCEPT ![entries[k]] = @ + 1]
      BY <1>1, <1>3, <2>1, PinnedHolds
  <2>3. q \in Asking /\ AskingFine(q) BY <2>2 DEF Asking, AskingFine
  <2>4. /\ reader' \in [Reader -> Asking] /\ ReaderShape'
        /\ reader'[r] = q /\ \A s \in Reader : s # r => reader'[s] = reader[s]
      BY <2>1, <2>3, ReaderMoves
  <2>5. \A l \in Asset : Riders(l)' = Riders(l) BY <1>1, <2>4, AwayFine DEF Riders, Rides
  <2>6. RefsExact' BY <1>2, <2>5, RefsSame
  <2>7. ASSUME NEW f \in Copies!File PROVE pins'[f] = Cardinality(Hits(f)') + Owed(f)'
    <3>1. pins \in [Copies!File -> Nat] /\ pins[f] = Cardinality(Hits(f)) + Owed(f)
        BY DEF CopiesInv, CopyShape, PinsExact
    <3>2. CASE f = entries[k]
      <4>1. Hits(f)' = Hits(f) \cup {r} /\ r \notin Hits(f) BY <1>1, <2>4, <3>2, AwayFine DEF Hits
      <4>2. Cardinality(Hits(f)') = Cardinality(Hits(f)) + 1 /\ Cardinality(Hits(f)) \in Nat
          BY <4>1, HitsFinite, OneMore
      <4>3. pins'[f] = pins[f] + 1 /\ Owed(f) \in Int
        <5>1. releasing[f] \in Nat /\ Cardinality(Flying(f)) \in Nat BY FlyingFinite DEF CopiesInv, CopyShape
        <5> QED BY <2>2, <3>1, <3>2, <5>1 DEF Owed
      <4> QED BY <1>2, <3>1, <4>2, <4>3
    <3>3. CASE f # entries[k]
      <4>1. Hits(f)' = Hits(f) BY <1>1, <2>4, <3>3, AwayFine DEF Hits
      <4> QED BY <1>2, <2>2, <3>1, <3>3, <4>1
    <3> QED BY <3>2, <3>3
  <2>8. PinsExact' BY <2>7 DEF PinsExact
  <2> QED BY <1>1, <1>2, <2>2, <2>4, <2>6, <2>8, DisksKept, Assembled
<1>4. CASE ~Copies!Intact(k)
  <2> DEFINE q == [pc |-> "missed", key |-> k, file |-> 0, via |-> "flight"]
  <2>1. Copies!Missed(k) /\ reader' = [reader EXCEPT ![r] = q] BY <1>4 DEF Copies!Serve
  <2>2. CacheSound /\ CacheLoses /\ pins' = pins BY <1>1, <2>1, MissedHolds
  <2>3. q \in Asking /\ AskingFine(q) BY DEF Asking, AskingFine
  <2>4. /\ reader' \in [Reader -> Asking] /\ ReaderShape'
        /\ reader'[r] = q /\ \A s \in Reader : s # r => reader'[s] = reader[s]
      BY <2>1, <2>3, ReaderMoves
  <2>5. \A l \in Asset : Riders(l)' = Riders(l) BY <1>1, <2>4, AwayFine DEF Riders, Rides
  <2>6. \A f \in Copies!File : Hits(f)' = Hits(f) BY <1>1, <2>4, AwayFine DEF Hits
  <2>7. RefsExact' /\ PinsExact' BY <1>2, <2>2, <2>5, <2>6, RefsSame, PinsSame
  <2> QED BY <1>1, <1>2, <2>2, <2>4, <2>7, DisksKept, Assembled
<1> QED BY <1>3, <1>4

\* A step that leaves the cache and the disk alone.
LEMMA CacheRests ==
    ASSUME CopiesInv, UNCHANGED <<Copies!cacheVars, disk, pins, handed, created>>,
           shut' # "cache" => shut # "cache", Copies!Reserved' = Copies!Reserved
    PROVE  CacheSound /\ DiskBooks' /\ created' \in 0..MaxFile /\ disk' \subseteq 1..created'
<1>1. handed' \subseteq Copies!Charged BY DEF CopiesInv, CacheBooks
<1>2. CacheSound /\ CacheLoses BY <1>1, CacheSame
<1> QED BY <1>2, DisksKept

LEMMA CancelInv == ASSUME CopiesInv, NEW r \in Reader, Copies!Cancel(r) PROVE CopiesInv'
<1>1. /\ reader[r].pc = "waiting" /\ Copies!Dropped(reader[r].key) /\ reader' = [reader EXCEPT ![r] = Copies!Away]
      /\ UNCHANGED <<Copies!cacheVars, disk, pins, handed, spool, orphans, shut, created>>
    BY DEF Copies!Cancel, Copies!envVars
<1>2. reader[r].key \in Asset /\ Rides(r, reader[r].key) BY <1>1 DEF CopiesInv, ReaderShape, Rides
<1>3. /\ FetchSound /\ Copies!Reserved' = Copies!Reserved
      /\ reader' \in [Reader -> Asking] /\ ReaderShape'
      /\ RefsExact' /\ \A f \in Copies!File : Owed(f)' = Owed(f) /\ Hits(f)' = Hits(f)
    BY <1>1, <1>2, DroppedHolds
<1>4. CacheSound /\ DiskBooks' /\ created' \in 0..MaxFile /\ disk' \subseteq 1..created'
    BY <1>1, <1>3, CacheRests
<1>5. PinsExact' BY <1>1, <1>3, PinsSame
<1> QED BY <1>3, <1>4, <1>5, Assembled

LEMMA OpenInv == ASSUME CopiesInv, NEW r \in Reader, Copies!Open(r) PROVE CopiesInv'
<1>1. PICK k : k = reader[r].key OBVIOUS
<1>2. /\ reader[r].pc = "waiting" /\ flight[k].pc = "done"
      /\ UNCHANGED <<Copies!cacheVars, disk, pins, handed, spool, orphans, shut, created>>
    BY <1>1 DEF Copies!Open, Copies!envVars
<1>3. k \in Asset /\ Rides(r, k) BY <1>1, <1>2 DEF CopiesInv, ReaderShape, Rides
<1>4. CASE flight[k].err \/ flight[k].file \notin disk
  <2>1. Copies!Dropped(k) /\ reader' = [reader EXCEPT ![r] = Copies!Away] BY <1>1, <1>4 DEF Copies!Open
  <2>2. /\ FetchSound /\ Copies!Reserved' = Copies!Reserved
        /\ reader' \in [Reader -> Asking] /\ ReaderShape'
        /\ RefsExact' /\ \A f \in Copies!File : Owed(f)' = Owed(f) /\ Hits(f)' = Hits(f)
      BY <1>2, <1>3, <2>1, DroppedHolds
  <2>3. CacheSound /\ DiskBooks' /\ created' \in 0..MaxFile /\ disk' \subseteq 1..created'
      BY <1>2, <2>2, CacheRests
  <2>4. PinsExact' BY <1>2, <2>2, PinsSame
  <2> QED BY <2>2, <2>3, <2>4, Assembled
<1>5. CASE ~(flight[k].err \/ flight[k].file \notin disk)
  <2> DEFINE q == [reader[r] EXCEPT !.pc = "reading", !.file = flight[k].file]
  <2>1. reader' = [reader EXCEPT ![r] = q] /\ UNCHANGED Copies!fetchVars
      BY <1>1, <1>2, <1>5 DEF Copies!Open, Copies!fetchVars
  <2>2. flight[k].file \in Copies!File
    <3>1. flight[k] # None BY <1>3, RiderFlies
    <3> QED BY <1>2, <1>3, <1>5, <3>1 DEF CopiesInv, FlightShape, FlightFine
  <2>3. reader[r] \in Asking BY DEF CopiesInv, CopyShape
  <2>4. /\ q \in Asking /\ q.pc = "reading" /\ q.file = flight[k].file
        /\ q.via = reader[r].via /\ q.key = reader[r].key
      BY <2>2, <2>3 DEF Asking
  <2>5. q.via = "flight" /\ AskingFine(q)
      BY <1>2, <1>3, <2>2, <2>4 DEF AskingFine, Rides, CopiesInv, ReaderShape
  <2> HIDE DEF q
  <2>6. /\ reader' \in [Reader -> Asking] /\ ReaderShape'
        /\ reader'[r] = q /\ \A s \in Reader : s # r => reader'[s] = reader[s]
      BY <2>1, <2>4, <2>5, ReaderMoves
  <2>7. \A l \in Asset : Riders(l)' = Riders(l) BY <1>2, <1>3, <2>4, <2>5, <2>6 DEF Riders, Rides
  <2>8. \A f \in Copies!File : Hits(f)' = Hits(f) BY <1>2, <2>4, <2>5, <2>6 DEF Hits
  <2>9. /\ FetchSound /\ Copies!Reserved' = Copies!Reserved /\ \A f \in Copies!File : Owed(f)' = Owed(f)
        /\ \A l \in Asset : RefsOf(l)' = RefsOf(l)
      BY <2>1, FlightSame
  <2>10. RefsExact' /\ PinsExact' BY <1>2, <2>7, <2>8, <2>9, RefsSame, PinsSame
  <2>11. CacheSound /\ DiskBooks' /\ created' \in 0..MaxFile /\ disk' \subseteq 1..created'
      BY <1>2, <2>9, CacheRests
  <2> QED BY <2>6, <2>9, <2>10, <2>11, Assembled
<1> QED BY <1>4, <1>5

LEMMA JoinInv == ASSUME CopiesInv, NEW r \in Reader, Copies!Join(r) PROVE CopiesInv'
<1>1. PICK k : k = reader[r].key OBVIOUS
<1>2. /\ reader[r].pc = "missed"
      /\ UNCHANGED <<Copies!cacheVars, disk, pins, handed, releasing, cleaning, spool, orphans, shut, created>>
    BY DEF Copies!Join, Copies!envVars
<1>3. k \in Asset /\ reader[r].via = "flight" /\ reader[r] \in Asking
    BY <1>1, <1>2 DEF CopiesInv, CopyShape, ReaderShape
<1>4. CASE shut # "open" \/ Copies!Cardinality(Copies!Admitted) >= Admissions
  <2>1. reader' = [reader EXCEPT ![r] = Copies!Away] /\ UNCHANGED Copies!fetchVars
      BY <1>2, <1>4 DEF Copies!Join, Copies!fetchVars
  <2>2. /\ reader' \in [Reader -> Asking] /\ ReaderShape'
        /\ reader'[r] = Copies!Away /\ \A s \in Reader : s # r => reader'[s] = reader[s]
      BY <2>1, AwayFine, ReaderMoves
  <2>3. \A l \in Asset : Riders(l)' = Riders(l) BY <1>2, <2>2, AwayFine DEF Riders, Rides
  <2>4. \A f \in Copies!File : Hits(f)' = Hits(f) BY <1>2, <2>2, AwayFine DEF Hits
  <2>5. /\ FetchSound /\ Copies!Reserved' = Copies!Reserved /\ \A f \in Copies!File : Owed(f)' = Owed(f)
        /\ \A l \in Asset : RefsOf(l)' = RefsOf(l)
      BY <2>1, FlightSame
  <2>6. RefsExact' /\ PinsExact' BY <1>2, <2>3, <2>4, <2>5, RefsSame, PinsSame
  <2>7. CacheSound /\ DiskBooks' /\ created' \in 0..MaxFile /\ disk' \subseteq 1..created'
      BY <1>2, <2>5, CacheRests
  <2> QED BY <2>2, <2>5, <2>6, <2>7, Assembled
<1>5. CASE ~(shut # "open" \/ Copies!Cardinality(Copies!Admitted) >= Admissions)
  <2> DEFINE q == [reader[r] EXCEPT !.pc = "waiting"]
  <2> DEFINE v == Copies!Joined(flight[k])
  <2>1. reader' = [reader EXCEPT ![r] = q] BY <1>5 DEF Copies!Join
  <2>2. flight' = [flight EXCEPT ![k] = v] BY <1>1, <1>5 DEF Copies!Join
  <2>3. /\ q \in Asking /\ q.pc = "waiting" /\ q.via = "flight" /\ q.key = k
      BY <1>1, <1>3 DEF Asking
  <2>4. AskingFine(q) BY <1>3, <2>3 DEF AskingFine
  <2> HIDE DEF q
  <2>5. /\ reader' \in [Reader -> Asking] /\ ReaderShape'
        /\ reader'[r] = q /\ \A s \in Reader : s # r => reader'[s] = reader[s]
      BY <2>1, <2>3, <2>4, ReaderMoves
  <2>6. \A f \in Copies!File : Hits(f)' = Hits(f) BY <1>2, <2>3, <2>5 DEF Hits
  <2>7. /\ Riders(k)' = Riders(k) \cup {r} /\ r \notin Riders(k)
        /\ \A l \in Asset : l # k => Riders(l)' = Riders(l)
      BY <1>2, <1>3, <2>3, <2>5 DEF Riders, Rides
  <2>8. flight[k] \in Copies!Flight \cup {None} BY <1>3 DEF CopiesInv, CopyShape
  <2>9. /\ Copies!Start \in Copies!Flight /\ FlightFine(Copies!Start) /\ ~Spools(Copies!Start)
        /\ Copies!Start.refs = 1 /\ Copies!Start.owner = None
      BY CopyNumbers DEF Copies!Start, Copies!Flight, FlightFine, Spools
  <2>10. flight[k] # None =>
           /\ v \in Copies!Flight /\ v.refs = flight[k].refs + 1 /\ v.pc = flight[k].pc
           /\ v.owner = flight[k].owner /\ v.file = flight[k].file /\ v.err = flight[k].err
      BY <2>8 DEF Copies!Flight, Copies!Joined
  <2>11. v \in Copies!Flight /\ v # None /\ (flight[k] = None => v = Copies!Start)
      BY <2>9, <2>10, CopyNumbers DEF Copies!Joined
  <2>12. FlightFine(v) BY <1>3, <2>9, <2>10, <2>11 DEF CopiesInv, FlightShape, FlightFine
  <2>13. (Spools(v) <=> Spools(flight[k])) /\ (Spools(v) => v.file = flight[k].file)
      BY <2>9, <2>10, <2>11 DEF Spools
  <2>14. v.refs = RefsOf(k) + 1 /\ RefsOf(k) \in Nat
    <3>1. CASE flight[k] = None BY <2>9, <2>11, <3>1 DEF RefsOf
    <3>2. CASE flight[k] # None BY <2>8, <2>10, <3>2 DEF RefsOf, Copies!Flight
    <3> QED BY <3>1, <3>2
  <2>15. \A f : (v.owner = "cache" /\ v.file = f)
             <=> (flight[k] # None /\ flight[k].owner = "cache" /\ flight[k].file = f)
      BY <2>9, <2>10, <2>11, CopyNumbers
  <2> HIDE DEF v
  <2>16. FetchSound /\ Copies!Reserved' = Copies!Reserved
    <3>1. releasing' \in [Copies!File -> Nat] BY <1>2 DEF CopiesInv, CopyShape
    <3> QED BY <1>2, <1>3, <2>2, <2>11, <2>12, <2>13, <3>1, FlightMoves
  <2>17. flight'[k] = v /\ \A l \in Asset : l # k => flight'[l] = flight[l]
      BY <1>3, <2>2 DEF CopiesInv, CopyShape
  <2>18. RefsOf(k)' = v.refs /\ \A l \in Asset : l # k => RefsOf(l)' = RefsOf(l)
      BY <2>11, <2>17 DEF RefsOf
  <2>19. Cardinality(Riders(k)') = Cardinality(Riders(k)) + 1 BY <2>7, RidersFinite, OneMore
  <2>20. RefsExact' BY <1>3, <2>7, <2>14, <2>18, <2>19 DEF CopiesInv, RefsExact
  <2>21. \A f \in Copies!File : Flying(f)' = Flying(f) BY <2>11, <2>15, <2>17 DEF Flying
  <2>22. \A f \in Copies!File : Owed(f)' = Owed(f) BY <1>2, <2>21 DEF Owed
  <2>23. PinsExact' BY <1>2, <2>6, <2>22, PinsSame
  <2>24. CacheSound /\ DiskBooks' /\ created' \in 0..MaxFile /\ disk' \subseteq 1..created'
      BY <1>2, <2>16, CacheRests
  <2> QED BY <2>5, <2>16, <2>20, <2>23, <2>24, Assembled
<1> QED BY <1>4, <1>5

\* Surroundings that only concern the names.
LEMMA FetchRests ==
    ASSUME CopiesInv, CacheSound, CacheLoses, pins' = pins, reader' = reader, UNCHANGED Copies!fetchVars,
           created' = created
    PROVE  CopiesInv'
<1>1. /\ FetchSound /\ Copies!Reserved' = Copies!Reserved /\ \A f \in Copies!File : Owed(f)' = Owed(f)
      /\ \A l \in Asset : RefsOf(l)' = RefsOf(l)
    BY FlightSame
<1>2. /\ reader' \in [Reader -> Asking] /\ ReaderShape'
      /\ \A f \in Copies!File : Hits(f)' = Hits(f)
      /\ \A k \in Asset : Riders(k)' = Riders(k)
    BY ReaderSame
<1>3. RefsExact' /\ PinsExact' BY <1>1, <1>2, RefsSame, PinsSame
<1>4. DiskBooks' /\ created' \in 0..MaxFile /\ disk' \subseteq 1..created' BY <1>1, DisksKept
<1> QED BY <1>1, <1>2, <1>3, <1>4, Assembled

LEMMA HandoffInv == ASSUME CopiesInv, NEW r \in Reader, Copies!Handoff(r) PROVE CopiesInv'
<1>1. /\ reader[r].pc = "reading" /\ entries[reader[r].key] = reader[r].file
      /\ handed' = handed \cup {reader[r].file}
      /\ UNCHANGED <<Copies!cacheVars, disk, pins, reader, shut, created>> /\ UNCHANGED Copies!fetchVars
    BY DEF Copies!Handoff, Copies!envVars
<1>2. reader[r].key \in Asset /\ reader[r].file \in Copies!File BY <1>1 DEF CopiesInv, ReaderShape
<1>3. reader[r].file \in Copies!Entries
  <2>1. reader[r].file # 0 BY <1>2, CopyNumbers DEF Copies!File
  <2> QED BY <1>1, <1>2, <2>1 DEF Copies!Entries
<1>4. handed' \subseteq Copies!Charged BY <1>1, <1>3 DEF CopiesInv, CacheBooks, Copies!Charged
<1>5. CacheSound /\ CacheLoses BY <1>1, <1>4, CacheSame
<1> QED BY <1>1, <1>5, FetchRests

LEMMA NamesInv ==
    ASSUME CopiesInv, UNCHANGED <<Copies!cacheVars, disk, pins, reader, created>>, UNCHANGED Copies!fetchVars,
           handed' \subseteq handed, shut' # "cache" => shut # "cache"
    PROVE  CopiesInv'
<1>1. handed' \subseteq Copies!Charged BY DEF CopiesInv, CacheBooks
<1>2. CacheSound /\ CacheLoses BY <1>1, CacheSame
<1> QED BY <1>2, FetchRests

LEMMA PinsAre ==
    ASSUME CopiesInv, NEW f \in Copies!File
    PROVE  /\ pins \in [Copies!File -> Nat] /\ pins[f] \in Nat /\ releasing[f] \in Nat
           /\ Cardinality(Hits(f)) \in Nat /\ Cardinality(Flying(f)) \in Nat
           /\ pins[f] = Cardinality(Hits(f)) + (Cardinality(Flying(f)) + releasing[f])
           /\ Owed(f) = Cardinality(Flying(f)) + releasing[f]
BY HitsFinite, FlyingFinite DEF CopiesInv, CopyShape, PinsExact, Owed

LEMMA FinishReadInv == ASSUME CopiesInv, NEW r \in Reader, Copies!FinishRead(r) PROVE CopiesInv'
<1>1. /\ reader[r].pc = "reading" /\ reader' = [reader EXCEPT ![r] = Copies!Away]
      /\ UNCHANGED <<handed, spool, orphans, shut, created>>
    BY DEF Copies!FinishRead, Copies!envVars
<1>2. reader[r].key \in Asset /\ reader[r].via \in {"hit", "flight"} /\ reader[r].file \in Copies!File
    BY <1>1 DEF CopiesInv, ReaderShape
<1>3. CASE reader[r].via = "hit"
  <2>1. PICK f \in Copies!File : f = reader[r].file BY <1>2
  <2>2. Copies!Unpinned(f) /\ UNCHANGED Copies!fetchVars
      BY <1>1, <1>3, <2>1 DEF Copies!FinishRead, Copies!fetchVars
  <2>3. /\ reader' \in [Reader -> Asking] /\ ReaderShape'
        /\ reader'[r] = Copies!Away /\ \A s \in Reader : s # r => reader'[s] = reader[s]
      BY <1>1, AwayFine, ReaderMoves
  <2>4. /\ r \in Hits(f) /\ Hits(f)' = Hits(f) \ {r}
        /\ \A g \in Copies!File : g # f => Hits(g)' = Hits(g)
      BY <1>1, <1>3, <2>1, <2>3, AwayFine DEF Hits
  <2>5. \A l \in Asset : Riders(l)' = Riders(l) BY <1>3, <2>3, AwayFine DEF Riders, Rides
  <2>6. /\ Cardinality(Hits(f)') = Cardinality(Hits(f)) - 1
        /\ Cardinality(Hits(f)) > 0
      BY <2>4, HitsFinite, OneLess
  <2>7. pins[f] > 0 BY <2>6, PinsAre
  <2>8. CacheSound /\ CacheLoses /\ pins' = [pins EXCEPT ![f] = @ - 1] BY <1>1, <2>2, <2>7, UnpinnedHolds
  <2>9. /\ FetchSound /\ Copies!Reserved' = Copies!Reserved /\ \A g \in Copies!File : Owed(g)' = Owed(g)
        /\ \A l \in Asset : RefsOf(l)' = RefsOf(l)
      BY <2>2, FlightSame
  <2>10. ASSUME NEW g \in Copies!File PROVE pins'[g] = Cardinality(Hits(g)') + Owed(g)'
    <3>1. pins'[g] = IF g = f THEN pins[g] - 1 ELSE pins[g] BY <2>8, PinsAre
    <3>2. Cardinality(Hits(g)') = IF g = f THEN Cardinality(Hits(g)) - 1 ELSE Cardinality(Hits(g))
        BY <2>4, <2>6
    <3>3. Owed(g)' = Owed(g) BY <2>9
    <3> QED BY <3>1, <3>2, <3>3, PinsAre
  <2>11. PinsExact' BY <2>10 DEF PinsExact
  <2>12. RefsExact' BY <2>5, <2>9, RefsSame
  <2> QED BY <1>1, <2>3, <2>8, <2>9, <2>11, <2>12, DisksKept, Assembled
<1>4. CASE reader[r].via # "hit"
  <2>1. Copies!Dropped(reader[r].key) /\ UNCHANGED <<Copies!cacheVars, disk, pins>>
      BY <1>4 DEF Copies!FinishRead
  <2>2. Rides(r, reader[r].key) BY <1>1, <1>2, <1>4 DEF Rides
  <2>3. /\ FetchSound /\ Copies!Reserved' = Copies!Reserved
        /\ reader' \in [Reader -> Asking] /\ ReaderShape'
        /\ RefsExact' /\ \A f \in Copies!File : Owed(f)' = Owed(f) /\ Hits(f)' = Hits(f)
      BY <1>1, <1>2, <2>1, <2>2, DroppedHolds
  <2>4. CacheSound /\ DiskBooks' /\ created' \in 0..MaxFile /\ disk' \subseteq 1..created'
      BY <1>1, <2>1, <2>3, CacheRests
  <2>5. PinsExact' BY <2>1, <2>3, PinsSame
  <2> QED BY <2>3, <2>4, <2>5, Assembled
<1> QED BY <1>3, <1>4

\* The worker moves its flight, with the same references.
LEMMA WorkerMoves ==
    ASSUME CopiesInv, NEW k \in Asset, flight[k] # None, NEW v \in Copies!Flight,
           flight' = [flight EXCEPT ![k] = v], v.refs = flight[k].refs, reader' = reader
    PROVE  /\ flight'[k] = v /\ v # None /\ \A l \in Asset : l # k => flight'[l] = flight[l]
           /\ reader' \in [Reader -> Asking] /\ ReaderShape' /\ RefsExact'
           /\ \A f \in Copies!File : Hits(f)' = Hits(f)
<1>1. v # None BY CopyNumbers
<1>2. flight'[k] = v /\ \A l \in Asset : l # k => flight'[l] = flight[l] BY DEF CopiesInv, CopyShape
<1>3. \A l \in Asset : RefsOf(l)' = RefsOf(l) BY <1>1, <1>2 DEF RefsOf
<1>4. /\ reader' \in [Reader -> Asking] /\ ReaderShape'
      /\ \A f \in Copies!File : Hits(f)' = Hits(f)
      /\ \A l \in Asset : Riders(l)' = Riders(l)
    BY ReaderSame
<1>5. RefsExact' BY <1>3, <1>4, RefsSame
<1> QED BY <1>1, <1>2, <1>4, <1>5

LEMMA AdmitInv == ASSUME CopiesInv, NEW k \in Asset, Copies!Admit(k) PROVE CopiesInv'
<1>1. /\ flight[k] # None /\ flight[k].pc = "admit"
      /\ UNCHANGED <<handed, releasing, cleaning, spool, orphans, reader, shut, created>>
    BY DEF Copies!Admit, Copies!envVars
<1>2. flight[k] \in Copies!Flight /\ flight[k].owner = None
    BY <1>1 DEF CopiesInv, CopyShape, FlightShape, FlightFine
<1>3. releasing' \in [Copies!File -> Nat] BY <1>1 DEF CopiesInv, CopyShape
<1>4. CASE Copies!Intact(k)
  <2> DEFINE v == [flight[k] EXCEPT !.pc = "close", !.file = entries[k], !.owner = "cache"]
  <2>1. Copies!Pinned(k) /\ flight' = [flight EXCEPT ![k] = v] BY <1>4 DEF Copies!Admit
  <2>2. CacheSound /\ CacheLoses /\ entries[k] \in Copies!File /\ pins' = [pins EXCEPT ![entries[k]] = @ + 1]
      BY <1>1, <1>4, <2>1, PinnedHolds
  <2>3. /\ v \in Copies!Flight /\ v.pc = "close" /\ v.file = entries[k] /\ v.owner = "cache"
        /\ v.refs = flight[k].refs
      BY <1>2, <2>2 DEF Copies!Flight
  <2> HIDE DEF v
  <2>4. FlightFine(v) /\ ~Spools(v) /\ ~Spools(flight[k])
      BY <1>1, <1>2, <2>2, <2>3, CopyNumbers DEF FlightFine, Spools
  <2>5. FetchSound /\ Copies!Reserved' = Copies!Reserved BY <1>1, <1>3, <2>1, <2>3, <2>4, FlightMoves
  <2>6. /\ flight'[k] = v /\ v # None /\ \A l \in Asset : l # k => flight'[l] = flight[l]
        /\ reader' \in [Reader -> Asking] /\ ReaderShape' /\ RefsExact'
        /\ \A f \in Copies!File : Hits(f)' = Hits(f)
      BY <1>1, <2>1, <2>3, WorkerMoves
  <2>7. ASSUME NEW f \in Copies!File PROVE pins'[f] = Cardinality(Hits(f)') + Owed(f)'
    <3>1. CASE f = entries[k]
      <4>1. Flying(f)' = Flying(f) \cup {k} /\ k \notin Flying(f)
          BY <1>2, <2>3, <2>6, <3>1, CopyNumbers DEF Flying
      <4>2. Cardinality(Flying(f)') = Cardinality(Flying(f)) + 1 BY <4>1, FlyingFinite, OneMore
      <4>3. Owed(f)' = Cardinality(Flying(f)') + releasing[f] BY <1>1 DEF Owed
      <4>4. pins'[f] = pins[f] + 1 BY <2>2, <3>1, PinsAre
      <4> QED BY <2>6, <4>2, <4>3, <4>4, PinsAre
    <3>2. CASE f # entries[k]
      <4>1. Flying(f)' = Flying(f) BY <1>2, <2>3, <2>6, <3>2, CopyNumbers DEF Flying
      <4>2. Owed(f)' = Owed(f) BY <1>1, <4>1 DEF Owed
      <4>3. pins'[f] = pins[f] BY <2>2, <3>2, PinsAre
      <4> QED BY <2>6, <4>2, <4>3, PinsAre
    <3> QED BY <3>1, <3>2
  <2>8. PinsExact' BY <2>7 DEF PinsExact
  <2> QED BY <1>1, <2>2, <2>5, <2>6, <2>8, DisksKept, Assembled
<1>5. CASE ~Copies!Intact(k)
  <2> DEFINE v == [flight[k] EXCEPT !.pc = "fetch"]
  <2>1. Copies!Missed(k) /\ flight' = [flight EXCEPT ![k] = v] BY <1>5 DEF Copies!Admit
  <2>2. CacheSound /\ CacheLoses /\ pins' = pins BY <1>1, <2>1, MissedHolds
  <2>3. v \in Copies!Flight /\ v.pc = "fetch" /\ v.owner = None /\ v.refs = flight[k].refs
      BY <1>2 DEF Copies!Flight
  <2> HIDE DEF v
  <2>4. FlightFine(v) /\ ~Spools(v) /\ ~Spools(flight[k])
      BY <1>1, <1>2, <2>3, CopyNumbers DEF FlightFine, Spools
  <2>5. FetchSound /\ Copies!Reserved' = Copies!Reserved BY <1>1, <1>3, <2>1, <2>3, <2>4, FlightMoves
  <2>6. /\ flight'[k] = v /\ v # None /\ \A l \in Asset : l # k => flight'[l] = flight[l]
        /\ reader' \in [Reader -> Asking] /\ ReaderShape' /\ RefsExact'
        /\ \A f \in Copies!File : Hits(f)' = Hits(f)
      BY <1>1, <2>1, <2>3, WorkerMoves
  <2>7. \A f \in Copies!File : Flying(f)' = Flying(f) BY <1>2, <2>3, <2>6, CopyNumbers DEF Flying
  <2>8. \A f \in Copies!File : Owed(f)' = Owed(f) BY <1>1, <2>7 DEF Owed
  <2>9. PinsExact' BY <2>2, <2>6, <2>8, PinsSame
  <2> QED BY <1>1, <2>2, <2>5, <2>6, <2>9, DisksKept, Assembled
<1> QED BY <1>4, <1>5

LEMMA GiveUpFetchInv == ASSUME CopiesInv, NEW k \in Asset, Copies!GiveUp(k) PROVE CopiesInv'
<1> DEFINE v == [flight[k] EXCEPT !.pc = "close", !.err = TRUE]
<1>1. /\ flight[k] # None /\ flight[k].pc \in {"admit", "fetch"} /\ flight' = [flight EXCEPT ![k] = v]
      /\ UNCHANGED <<Copies!cacheVars, disk, pins, handed, releasing, cleaning, spool, orphans, reader, shut, created>>
    BY DEF Copies!GiveUp, Copies!envVars
<1>2. flight[k] \in Copies!Flight /\ flight[k].owner = None
    BY <1>1 DEF CopiesInv, CopyShape, FlightShape, FlightFine
<1>3. releasing' \in [Copies!File -> Nat] BY <1>1 DEF CopiesInv, CopyShape
<1>4. v \in Copies!Flight /\ v.pc = "close" /\ v.err /\ v.owner = None /\ v.refs = flight[k].refs
    BY <1>2 DEF Copies!Flight
<1> HIDE DEF v
<1>5. FlightFine(v) /\ ~Spools(v) /\ ~Spools(flight[k])
    BY <1>1, <1>2, <1>4, CopyNumbers DEF FlightFine, Spools
<1>6. FetchSound /\ Copies!Reserved' = Copies!Reserved BY <1>1, <1>3, <1>4, <1>5, FlightMoves
<1>7. /\ flight'[k] = v /\ v # None /\ \A l \in Asset : l # k => flight'[l] = flight[l]
      /\ reader' \in [Reader -> Asking] /\ ReaderShape' /\ RefsExact'
      /\ \A f \in Copies!File : Hits(f)' = Hits(f)
    BY <1>1, <1>4, WorkerMoves
<1>8. \A f \in Copies!File : Flying(f)' = Flying(f) BY <1>2, <1>4, <1>7, CopyNumbers DEF Flying
<1>9. \A f \in Copies!File : Owed(f)' = Owed(f) BY <1>1, <1>8 DEF Owed
<1>10. PinsExact' BY <1>1, <1>7, <1>9, PinsSame
<1>11. CacheSound /\ DiskBooks' /\ created' \in 0..MaxFile /\ disk' \subseteq 1..created'
    BY <1>1, <1>6, CacheRests
<1> QED BY <1>6, <1>7, <1>10, <1>11, Assembled

LEMMA CloseFlightInv == ASSUME CopiesInv, NEW k \in Asset, Copies!CloseFlight(k) PROVE CopiesInv'
<1>1. /\ flight[k] # None /\ flight[k].pc = "close"
      /\ UNCHANGED <<Copies!cacheVars, disk, pins, handed, spool, orphans, reader, shut, created>>
    BY DEF Copies!CloseFlight, Copies!envVars
<1>2. flight[k] \in Copies!Flight /\ FlightFine(flight[k]) BY <1>1 DEF CopiesInv, CopyShape, FlightShape
<1>3. CASE flight[k].refs = 0
  <2>1. flight' = [flight EXCEPT ![k] = None] /\ Copies!Left(flight[k]) BY <1>3 DEF Copies!CloseFlight
  <2>2. FetchSound /\ Copies!Reserved' = Copies!Reserved /\ \A f \in Copies!File : Owed(f)' = Owed(f)
      BY <1>1, <2>1, LeftHolds
  <2>3. flight'[k] = None /\ \A l \in Asset : l # k => flight'[l] = flight[l]
      BY <2>1 DEF CopiesInv, CopyShape
  <2>4. \A l \in Asset : RefsOf(l)' = RefsOf(l) BY <1>3, <2>3 DEF RefsOf
  <2>5. /\ reader' \in [Reader -> Asking] /\ ReaderShape'
        /\ \A f \in Copies!File : Hits(f)' = Hits(f)
        /\ \A l \in Asset : Riders(l)' = Riders(l)
      BY <1>1, ReaderSame
  <2>6. RefsExact' /\ PinsExact' BY <1>1, <2>2, <2>4, <2>5, RefsSame, PinsSame
  <2>7. CacheSound /\ DiskBooks' /\ created' \in 0..MaxFile /\ disk' \subseteq 1..created'
      BY <1>1, <2>2, CacheRests
  <2> QED BY <2>2, <2>5, <2>6, <2>7, Assembled
<1>4. CASE flight[k].refs # 0
  <2> DEFINE v == [flight[k] EXCEPT !.pc = "done"]
  <2>1. flight' = [flight EXCEPT ![k] = v] /\ releasing' = releasing /\ cleaning' = cleaning
      BY <1>4 DEF Copies!CloseFlight
  <2>2. /\ v \in Copies!Flight /\ v.pc = "done" /\ v.owner = flight[k].owner /\ v.refs = flight[k].refs
        /\ v.file = flight[k].file /\ v.err = flight[k].err
      BY <1>2 DEF Copies!Flight
  <2> HIDE DEF v
  <2>3. v # None BY <2>2, CopyNumbers
  <2>4. FlightFine(v) /\ (Spools(v) <=> Spools(flight[k]))
      BY <1>1, <1>2, <2>2, <2>3 DEF FlightFine, Spools
  <2>5. releasing' \in [Copies!File -> Nat] BY <2>1 DEF CopiesInv, CopyShape
  <2>6. FetchSound /\ Copies!Reserved' = Copies!Reserved BY <1>1, <2>1, <2>2, <2>4, <2>5, FlightMoves
  <2>7. /\ flight'[k] = v /\ v # None /\ \A l \in Asset : l # k => flight'[l] = flight[l]
        /\ reader' \in [Reader -> Asking] /\ ReaderShape' /\ RefsExact'
        /\ \A f \in Copies!File : Hits(f)' = Hits(f)
      BY <1>1, <2>1, <2>2, WorkerMoves
  <2>8. \A f \in Copies!File : Flying(f)' = Flying(f) BY <1>1, <2>2, <2>7 DEF Flying
  <2>9. \A f \in Copies!File : Owed(f)' = Owed(f) BY <2>1, <2>8 DEF Owed
  <2>10. PinsExact' BY <1>1, <2>7, <2>9, PinsSame
  <2>11. CacheSound /\ DiskBooks' /\ created' \in 0..MaxFile /\ disk' \subseteq 1..created'
      BY <1>1, <2>6, CacheRests
  <2> QED BY <2>6, <2>7, <2>10, <2>11, Assembled
<1> QED BY <1>3, <1>4

LEMMA ReleaseInv == ASSUME CopiesInv, NEW f \in Copies!File, Copies!Release(f) PROVE CopiesInv'
<1>1. /\ releasing[f] > 0 /\ releasing' = [releasing EXCEPT ![f] = @ - 1] /\ Copies!Unpinned(f)
      /\ UNCHANGED <<handed, flight, cleaning, spool, orphans, reader, shut, created>>
    BY DEF Copies!Release, Copies!envVars
<1>2. pins[f] > 0 BY <1>1, PinsAre
<1>3. CacheSound /\ CacheLoses /\ pins' = [pins EXCEPT ![f] = @ - 1] BY <1>1, <1>2, UnpinnedHolds
<1>4. releasing \in [Copies!File -> Nat] BY DEF CopiesInv, CopyShape
<1>5. /\ releasing' \in [Copies!File -> Nat] /\ releasing'[f] = releasing[f] - 1
      /\ \A g \in Copies!File : g # f => releasing'[g] = releasing[g]
    BY <1>1, <1>4
<1>6. Copies!Reserved' = Copies!Reserved BY <1>1 DEF Copies!Reserved, Copies!Spooling
<1>7. FetchTypes BY <1>1, <1>5 DEF FetchTypes, CopiesInv, CopyShape
<1>8. FlightShape' /\ SpoolBooks'
    BY <1>1, <1>6 DEF CopiesInv, FlightShape, FlightFine, SpoolBooks, Copies!Spooling
<1>9. /\ reader' \in [Reader -> Asking] /\ ReaderShape'
      /\ \A g \in Copies!File : Hits(g)' = Hits(g)
      /\ \A l \in Asset : Riders(l)' = Riders(l)
    BY <1>1, ReaderSame
<1>10. \A l \in Asset : RefsOf(l)' = RefsOf(l) BY <1>1 DEF RefsOf
<1>11. RefsExact' BY <1>9, <1>10, RefsSame
<1>12. ASSUME NEW g \in Copies!File PROVE pins'[g] = Cardinality(Hits(g)') + Owed(g)'
  <2>1. Owed(g)' = Cardinality(Flying(g)) + releasing'[g] BY <1>1 DEF Owed, Flying
  <2>2. pins'[g] = IF g = f THEN pins[g] - 1 ELSE pins[g] BY <1>3, PinsAre
  <2> QED BY <1>5, <1>9, <2>1, <2>2, PinsAre
<1>13. PinsExact' BY <1>12 DEF PinsExact
<1> QED BY <1>1, <1>3, <1>6, <1>7, <1>8, <1>9, <1>11, <1>13, DisksKept, Assembled DEF FetchSound

\* One flight changes what it has spooled: for the apartness of spools it is enough to look at it.
LEMMA SpoolsApart ==
    ASSUME CopiesInv, NEW k \in Asset, \A l \in Asset : l # k => flight'[l] = flight[l],
           Copies!Spooling(k)' =>
               /\ flight'[k].file \notin cleaning' \cup orphans'
               /\ \A l \in Asset : l # k /\ Copies!Spooling(l) => flight[l].file # flight'[k].file,
           \A l \in Asset : l # k /\ Copies!Spooling(l) => flight[l].file \notin cleaning' \cup orphans'
    PROVE  /\ \A i, j \in Asset : Copies!Spooling(i)' /\ Copies!Spooling(j)' /\ flight'[i].file = flight'[j].file => i = j
           /\ \A l \in Asset : Copies!Spooling(l)' => flight'[l].file \notin cleaning' \cup orphans'
<1>1. \A l \in Asset : l # k => (Copies!Spooling(l)' <=> Copies!Spooling(l)) BY DEF Copies!Spooling
<1>2. \A i, j \in Asset : Copies!Spooling(i) /\ Copies!Spooling(j) /\ flight[i].file = flight[j].file => i = j
    BY DEF CopiesInv, SpoolBooks
<1> QED BY <1>1, <1>2

LEMMA DownloadInv == ASSUME CopiesInv, NEW k \in Asset, Copies!Download(k) PROVE CopiesInv'
<1>0. PICK swept, f : swept = orphans \ stuck /\ f = created + 1 OBVIOUS
<1> DEFINE v == [flight[k] EXCEPT !.pc = "verify", !.file = f]
<1>1. /\ flight[k] # None /\ flight[k].pc = "fetch" /\ f <= MaxFile
      /\ orphans' = orphans \ swept
      /\ spool - Cardinality(swept) < SpoolLimit
      /\ spool' = spool - Cardinality(swept) + 1
      /\ disk' = (disk \ swept) \cup {f} /\ created' = f
      /\ flight' = [flight EXCEPT ![k] = v]
      /\ UNCHANGED <<Copies!cacheVars, pins, handed, releasing, cleaning, reader, shut>>
    BY <1>0, SameCount DEF Copies!Download
<1>2. /\ created \in 0..MaxFile /\ f \in Copies!File /\ f \notin disk /\ created' \in 0..MaxFile
      /\ disk' \subseteq 1..created'
  <2>1. created \in 0..MaxFile /\ disk \subseteq 1..created BY DEF CopiesInv, CopyShape
  <2>2. f \in Copies!File /\ f \notin disk /\ f \in 0..MaxFile BY <1>0, <1>1, <2>1, CopyNumbers DEF Copies!File
  <2>3. 1..created \subseteq 1..f /\ f \in 1..f BY <1>0, <2>1, CopyNumbers
  <2> QED BY <1>1, <2>1, <2>2, <2>3
<1>3. flight[k] \in Copies!Flight /\ flight[k].owner = None
    BY <1>1 DEF CopiesInv, CopyShape, FlightShape, FlightFine
<1>4. v \in Copies!Flight /\ v.pc = "verify" /\ v.file = f /\ v.owner = None /\ v.refs = flight[k].refs
    BY <1>2, <1>3 DEF Copies!Flight
<1> HIDE DEF v
<1>5. /\ flight'[k] = v /\ v # None /\ \A l \in Asset : l # k => flight'[l] = flight[l]
      /\ reader' \in [Reader -> Asking] /\ ReaderShape' /\ RefsExact'
      /\ \A g \in Copies!File : Hits(g)' = Hits(g)
    BY <1>1, <1>4, WorkerMoves
<1>6. \A g \in Copies!File : Flying(g)' = Flying(g) BY <1>3, <1>4, <1>5, CopyNumbers DEF Flying
<1>7. \A g \in Copies!File : Owed(g)' = Owed(g) BY <1>1, <1>6 DEF Owed
<1>8. PinsExact' BY <1>1, <1>5, <1>7, PinsSame
<1>9. /\ ~Copies!Spooling(k) /\ Copies!Spooling(k)'
      /\ \A l \in Asset : l # k => (Copies!Spooling(l)' <=> Copies!Spooling(l))
    BY <1>1, <1>3, <1>4, <1>5, CopyNumbers DEF Copies!Spooling
<1>10. /\ swept \subseteq orphans /\ cleaning' = cleaning
       /\ cleaning \cap orphans = {}
       /\ \A l \in Asset : Copies!Spooling(l) => flight[l].file \notin cleaning \cup orphans
    BY <1>0, <1>1 DEF CopiesInv, SpoolBooks
<1>11. /\ f \notin Copies!Reserved /\ Copies!Reserved \subseteq Copies!File /\ IsFiniteSet(Copies!Reserved)
       /\ swept \subseteq Copies!Reserved
    BY <1>2, <1>10, ReservedFinite, ReservedIs
<1>12. Copies!Reserved' = (Copies!Reserved \ swept) \cup {f}
  <2>1. ASSUME NEW x PROVE x \in Copies!Reserved' <=> x \in (Copies!Reserved \ swept) \cup {f}
    <3>1. x \in Copies!Reserved <=>
              \/ \E l \in Asset : l # k /\ Copies!Spooling(l) /\ flight[l].file = x
              \/ x \in cleaning \/ x \in orphans
        BY <1>9, ReservedIs
    <3>2. x \in Copies!Reserved' <=>
              \/ \E l \in Asset : l # k /\ Copies!Spooling(l) /\ flight[l].file = x
              \/ x = f \/ x \in cleaning \/ x \in orphans \ swept
        BY <1>1, <1>4, <1>5, <1>9, ReservedAfter
    <3> QED BY <1>10, <3>1, <3>2
  <2> QED BY <2>1
<1>13. spool' = Cardinality(Copies!Reserved') /\ spool' <= SpoolLimit
  <2>1. /\ Cardinality(Copies!Reserved \ swept) = Cardinality(Copies!Reserved) - Cardinality(swept)
        /\ Cardinality(Copies!Reserved) \in Nat /\ Cardinality(swept) \in Nat /\ IsFiniteSet(Copies!Reserved \ swept)
      BY <1>11, Fewer
  <2>2. Cardinality(Copies!Reserved') = Cardinality(Copies!Reserved \ swept) + 1 BY <1>11, <1>12, <2>1, OneMore
  <2>3. spool = Cardinality(Copies!Reserved) BY DEF CopiesInv, SpoolBooks
  <2> QED BY <1>1, <2>1, <2>2, <2>3, CopyNumbers
<1>14. SpoolBooks'
  <2>1. f \notin cleaning' \cup orphans'
      BY <1>1, <1>10, <1>11, ReservedIs
  <2>2. \A l \in Asset : l # k /\ Copies!Spooling(l) => flight[l].file # f BY <1>11, ReservedIs
  <2>3. \A l \in Asset : l # k /\ Copies!Spooling(l) => flight[l].file \notin cleaning' \cup orphans'
      BY <1>1, <1>10
  <2>4. /\ \A i, j \in Asset : Copies!Spooling(i)' /\ Copies!Spooling(j)' /\ flight'[i].file = flight'[j].file => i = j
        /\ \A l \in Asset : Copies!Spooling(l)' => flight'[l].file \notin cleaning' \cup orphans'
      BY <1>4, <1>5, <2>1, <2>2, <2>3, SpoolsApart
  <2>5. cleaning' \cap orphans' = {} BY <1>1, <1>10
  <2> QED BY <1>13, <2>4, <2>5 DEF SpoolBooks
<1>15. FlightFine(v) BY <1>2, <1>4 DEF FlightFine
<1>16. FlightShape' BY <1>5, <1>15 DEF CopiesInv, FlightShape
<1>17. FetchTypes
  <2>1. flight' \in [Asset -> Copies!Flight \cup {None}] BY <1>1, <1>4 DEF CopiesInv, CopyShape
  <2> QED BY <1>1, <2>1 DEF FetchTypes, CopiesInv, CopyShape
<1>18. Copies!Charged' = Copies!Charged BY <1>1 DEF Copies!Charged, Copies!Entries, Copies!cacheVars
<1>19. CacheBooks' /\ IdleExact'
  <2>1. Copies!Entries' = Copies!Entries BY <1>1 DEF Copies!Entries, Copies!cacheVars
  <2> QED BY <1>1, <1>18, <2>1 DEF CopiesInv, CacheBooks, IdleExact, Copies!cacheVars
<1>20. CacheSound BY <1>1, <1>19 DEF CacheSound, CopiesInv, CopyShape, Copies!cacheVars
<1>21. DiskBooks'
  <2>1. disk = Copies!Charged \cup Copies!Reserved /\ Copies!Charged \cap Copies!Reserved = {}
      BY DEF CopiesInv, DiskBooks
  <2>2. swept \cap Copies!Charged = {} /\ f \notin Copies!Charged BY <1>2, <1>11, <2>1
  <2> QED BY <1>1, <1>12, <1>18, <2>1, <2>2 DEF DiskBooks
<1> QED BY <1>2, <1>5, <1>8, <1>14, <1>16, <1>17, <1>20, <1>21, Assembled DEF FetchSound

\* A spool is unlinked and its reservation freed.
LEMMA SpoolFreed ==
    ASSUME CopiesInv, NEW f \in Copies!Reserved, Copies!Reserved' = Copies!Reserved \ {f},
           disk' = disk \ {f}, spool' = spool - 1,
           UNCHANGED <<Copies!cacheVars, pins, handed, shut, created>>
    PROVE  /\ spool' = Cardinality(Copies!Reserved') /\ spool' <= SpoolLimit
           /\ CacheSound /\ DiskBooks' /\ created' \in 0..MaxFile /\ disk' \subseteq 1..created'
<1>1. IsFiniteSet(Copies!Reserved) BY ReservedFinite
<1>2. Cardinality(Copies!Reserved') = Cardinality(Copies!Reserved) - 1 /\ Cardinality(Copies!Reserved) \in Nat
    BY <1>1, OneLess
<1>3. spool = Cardinality(Copies!Reserved) /\ spool <= SpoolLimit BY DEF CopiesInv, SpoolBooks
<1>4. Copies!Entries' = Copies!Entries /\ Copies!Charged' = Copies!Charged
    BY DEF Copies!Charged, Copies!Entries, Copies!cacheVars
<1>5. CacheBooks' /\ IdleExact' BY <1>4 DEF CopiesInv, CacheBooks, IdleExact, Copies!cacheVars
<1>6. CacheSound BY <1>5 DEF CacheSound, CopiesInv, CopyShape, Copies!cacheVars
<1>7. DiskBooks' BY <1>4 DEF CopiesInv, DiskBooks
<1>8. created' \in 0..MaxFile /\ disk' \subseteq 1..created' BY DEF CopiesInv, CopyShape
<1>9. spool' = Cardinality(Copies!Reserved') /\ spool' <= SpoolLimit BY <1>2, <1>3, CopyNumbers
<1> QED BY <1>6, <1>7, <1>8, <1>9

LEMMA RejectInv == ASSUME CopiesInv, NEW k \in Asset, Copies!Reject(k) PROVE CopiesInv'
<1>0. PICK f : f = flight[k].file OBVIOUS
<1> DEFINE v == [flight[k] EXCEPT !.pc = "fetch", !.file = 0]
<1>1. /\ flight[k] # None /\ flight[k].pc = "verify" /\ flight' = [flight EXCEPT ![k] = v]
      /\ UNCHANGED <<Copies!cacheVars, pins, handed, releasing, cleaning, reader, shut, created>>
    BY DEF Copies!Reject, Copies!envVars
<1>2. flight[k] \in Copies!Flight /\ flight[k].owner = None /\ f \in Copies!File
    BY <1>0, <1>1 DEF CopiesInv, CopyShape, FlightShape, FlightFine
<1>3. v \in Copies!Flight /\ v.pc = "fetch" /\ v.owner = None /\ v.refs = flight[k].refs
    BY <1>2 DEF Copies!Flight
<1> HIDE DEF v
<1>4. /\ flight'[k] = v /\ v # None /\ \A l \in Asset : l # k => flight'[l] = flight[l]
      /\ reader' \in [Reader -> Asking] /\ ReaderShape' /\ RefsExact'
      /\ \A g \in Copies!File : Hits(g)' = Hits(g)
    BY <1>1, <1>3, WorkerMoves
<1>5. \A g \in Copies!File : Flying(g)' = Flying(g) BY <1>2, <1>3, <1>4, CopyNumbers DEF Flying
<1>6. \A g \in Copies!File : Owed(g)' = Owed(g) BY <1>1, <1>5 DEF Owed
<1>7. PinsExact' BY <1>1, <1>4, <1>6, PinsSame
<1>8. /\ Copies!Spooling(k) /\ ~Copies!Spooling(k)'
      /\ \A l \in Asset : l # k => (Copies!Spooling(l)' <=> Copies!Spooling(l))
    BY <1>1, <1>3, <1>4, CopyNumbers DEF Copies!Spooling
<1>9. /\ cleaning \cap orphans = {}
      /\ \A l \in Asset : Copies!Spooling(l) => flight[l].file \notin cleaning \cup orphans
      /\ \A l \in Asset : Copies!Spooling(l) /\ l # k => flight[l].file # f
    BY <1>0, <1>8 DEF CopiesInv, SpoolBooks
<1>10. f \in Copies!Reserved /\ f \notin cleaning \cup orphans BY <1>0, <1>8, <1>9, ReservedIs
<1>11. ASSUME NEW x
       PROVE  /\ x \in Copies!Reserved <=>
                     \/ \E l \in Asset : l # k /\ Copies!Spooling(l) /\ flight[l].file = x
                     \/ x = f \/ x \in cleaning \/ x \in orphans
              /\ x \in Copies!Reserved' <=>
                     \/ \E l \in Asset : l # k /\ Copies!Spooling(l) /\ flight[l].file = x
                     \/ x \in cleaning \/ x \in orphans'
    BY <1>0, <1>1, <1>4, <1>8, ReservedIs, ReservedAfter
<1>12. FlightFine(v) BY <1>2, <1>3 DEF FlightFine
<1>13. FlightShape' BY <1>4, <1>12 DEF CopiesInv, FlightShape
<1>14. flight' \in [Asset -> Copies!Flight \cup {None}] BY <1>1, <1>3 DEF CopiesInv, CopyShape
<1>15. CASE f \in stuck
  <2>1. orphans' = orphans \cup {f} /\ disk' = disk /\ spool' = spool BY <1>0, <1>15 DEF Copies!Reject
  <2>2. Copies!Reserved' = Copies!Reserved BY <1>11, <2>1
  <2>3. CacheSound /\ DiskBooks' /\ created' \in 0..MaxFile /\ disk' \subseteq 1..created'
      BY <1>1, <2>1, <2>2, CacheRests
  <2>4. SpoolBooks'
    <3>1. \A l \in Asset : l # k /\ Copies!Spooling(l) => flight[l].file \notin cleaning' \cup orphans'
        BY <1>1, <1>9, <2>1
    <3>2. /\ \A i, j \in Asset : Copies!Spooling(i)' /\ Copies!Spooling(j)' /\ flight'[i].file = flight'[j].file => i = j
          /\ \A l \in Asset : Copies!Spooling(l)' => flight'[l].file \notin cleaning' \cup orphans'
        BY <1>4, <1>8, <3>1, SpoolsApart
    <3>3. cleaning' \cap orphans' = {} BY <1>1, <1>9, <1>10, <2>1
    <3> QED BY <2>1, <2>2, <3>2, <3>3 DEF CopiesInv, SpoolBooks
  <2>5. FetchSound BY <1>1, <1>2, <1>13, <1>14, <2>1, <2>4 DEF FetchSound, FetchTypes, CopiesInv, CopyShape
  <2> QED BY <1>4, <1>7, <2>3, <2>5, Assembled
<1>16. CASE f \notin stuck
  <2>1. orphans' = orphans /\ disk' = disk \ {f} /\ spool' = spool - 1 BY <1>0, <1>16 DEF Copies!Reject
  <2>2. Copies!Reserved' = Copies!Reserved \ {f} BY <1>9, <1>10, <1>11, <2>1
  <2>3. /\ spool' = Cardinality(Copies!Reserved') /\ spool' <= SpoolLimit
        /\ CacheSound /\ DiskBooks' /\ created' \in 0..MaxFile /\ disk' \subseteq 1..created'
      BY <1>1, <1>10, <2>1, <2>2, SpoolFreed
  <2>4. SpoolBooks'
    <3>1. \A l \in Asset : l # k /\ Copies!Spooling(l) => flight[l].file \notin cleaning' \cup orphans'
        BY <1>1, <1>9, <2>1
    <3>2. /\ \A i, j \in Asset : Copies!Spooling(i)' /\ Copies!Spooling(j)' /\ flight'[i].file = flight'[j].file => i = j
          /\ \A l \in Asset : Copies!Spooling(l)' => flight'[l].file \notin cleaning' \cup orphans'
        BY <1>4, <1>8, <3>1, SpoolsApart
    <3>3. cleaning' \cap orphans' = {} BY <1>1, <1>9, <2>1
    <3> QED BY <2>3, <3>2, <3>3 DEF SpoolBooks
  <2>5. FetchSound BY <1>1, <1>13, <1>14, <2>1, <2>4 DEF FetchSound, FetchTypes, CopiesInv, CopyShape
  <2> QED BY <1>4, <1>7, <2>3, <2>5, Assembled
<1> QED BY <1>15, <1>16

LEMMA CleanupInv == ASSUME CopiesInv, NEW f \in Copies!File, Copies!Cleanup(f) PROVE CopiesInv'
<1>1. /\ f \in cleaning /\ cleaning' = cleaning \ {f}
      /\ UNCHANGED <<Copies!cacheVars, pins, handed, flight, releasing, reader, shut, created>>
    BY DEF Copies!Cleanup, Copies!envVars
<1>2. /\ cleaning \cap orphans = {}
      /\ \A l \in Asset : Copies!Spooling(l) => flight[l].file \notin cleaning \cup orphans
      /\ \A i, j \in Asset : Copies!Spooling(i) /\ Copies!Spooling(j) /\ flight[i].file = flight[j].file => i = j
    BY DEF CopiesInv, SpoolBooks
<1>3. /\ reader' \in [Reader -> Asking] /\ ReaderShape'
      /\ \A g \in Copies!File : Hits(g)' = Hits(g)
      /\ \A l \in Asset : Riders(l)' = Riders(l)
    BY <1>1, ReaderSame
<1>4. \A l \in Asset : RefsOf(l)' = RefsOf(l) BY <1>1 DEF RefsOf
<1>5. \A g \in Copies!File : Owed(g)' = Owed(g) BY <1>1 DEF Owed, Flying
<1>6. RefsExact' /\ PinsExact' BY <1>1, <1>3, <1>4, <1>5, RefsSame, PinsSame
<1>7. FlightShape' BY <1>1 DEF CopiesInv, FlightShape
<1>8. \A l \in Asset : Copies!Spooling(l)' <=> Copies!Spooling(l) BY <1>1 DEF Copies!Spooling
<1>9. f \in Copies!Reserved BY <1>1, ReservedIs
<1>10. CASE f \in stuck
  <2>1. orphans' = orphans \cup {f} /\ disk' = disk /\ spool' = spool BY <1>10 DEF Copies!Cleanup
  <2>2. Copies!Reserved' = Copies!Reserved BY <1>1, <1>8, <2>1, ReservedIs, ReservedAfter
  <2>3. CacheSound /\ DiskBooks' /\ created' \in 0..MaxFile /\ disk' \subseteq 1..created'
      BY <1>1, <2>1, <2>2, CacheRests
  <2>4. SpoolBooks' BY <1>1, <1>2, <1>8, <2>1, <2>2 DEF CopiesInv, SpoolBooks
  <2>5. FetchSound BY <1>1, <1>7, <2>1, <2>4 DEF FetchSound, FetchTypes, CopiesInv, CopyShape
  <2> QED BY <1>3, <1>6, <2>3, <2>5, Assembled
<1>11. CASE f \notin stuck
  <2>1. orphans' = orphans /\ disk' = disk \ {f} /\ spool' = spool - 1 BY <1>11 DEF Copies!Cleanup
  <2>2. ASSUME NEW x PROVE x \in Copies!Reserved' <=> x \in Copies!Reserved \ {f}
      BY <1>1, <1>2, <1>8, <2>1, ReservedIs, ReservedAfter
  <2>3. Copies!Reserved' = Copies!Reserved \ {f} BY <2>2
  <2>4. /\ spool' = Cardinality(Copies!Reserved') /\ spool' <= SpoolLimit
        /\ CacheSound /\ DiskBooks' /\ created' \in 0..MaxFile /\ disk' \subseteq 1..created'
      BY <1>1, <1>9, <2>1, <2>3, SpoolFreed
  <2>5. SpoolBooks' BY <1>1, <1>2, <1>8, <2>1, <2>4 DEF SpoolBooks
  <2>6. FetchSound BY <1>1, <1>7, <2>1, <2>5 DEF FetchSound, FetchTypes, CopiesInv, CopyShape
  <2> QED BY <1>3, <1>6, <2>4, <2>6, Assembled
<1> QED BY <1>10, <1>11

\* What put takes out of the cache to make room.
LEMMA RoomMade ==
    ASSUME CopiesInv, shut # "cache", NEW n \in 0..Len(idle)
    PROVE  /\ Copies!Taken(n) \subseteq Copies!Entries /\ Copies!Taken(n) \subseteq Range(idle)
           /\ \A g \in Copies!Taken(n) : pins[g] = 0
           /\ Copies!Freed(n) \subseteq Copies!Charged /\ \A g \in Copies!Freed(n) : g \notin handed /\ pins[g] = 0
           /\ idle \in Seq(Copies!File) /\ Once(idle) /\ Range(idle) = {g \in Copies!Entries : pins[g] = 0}
           /\ Copies!Freed(n) \subseteq retired \cup Copies!Taken(n)
           /\ 0 \notin Copies!Taken(n) /\ Copies!Taken(n) \subseteq Copies!File
<1>1. idle \in Seq(Copies!File) /\ Once(idle) /\ Range(idle) = {g \in Copies!Entries : pins[g] = 0}
    BY DEF CopiesInv, IdleExact, Once
<1>2. Copies!Taken(n) \subseteq Range(idle) BY <1>1, ListCut DEF Copies!Taken
<1>3. Copies!Taken(n) \subseteq Copies!Entries /\ \A g \in Copies!Taken(n) : pins[g] = 0 BY <1>1, <1>2
<1>4. Copies!Freed(n) \subseteq Copies!Charged /\ Copies!Freed(n) \subseteq retired \cup Copies!Taken(n)
    BY <1>3 DEF Copies!Freed, Copies!Unlinked, Copies!Charged
<1>5. \A g \in Copies!Freed(n) : g \notin handed /\ pins[g] = 0
    BY DEF Copies!Freed, Copies!Unlinked, Copies!Removable
<1>6. 0 \notin Copies!Taken(n) /\ Copies!Taken(n) \subseteq Copies!File
  <2>1. Copies!Taken(n) \subseteq Copies!File BY <1>3, EntriesAre DEF CopiesInv
  <2> QED BY <2>1, CopyNumbers DEF Copies!File
<1> QED BY <1>1, <1>2, <1>3, <1>4, <1>5, <1>6

\* The idle list after that.
LEMMA IdleCut ==
    ASSUME CopiesInv, shut # "cache", NEW n \in 0..Len(idle), idle' = SubSeq(idle, 1, Len(idle) - n),
           {g \in Copies!Entries' : pins'[g] = 0} = {g \in Copies!Entries \ Copies!Taken(n) : pins[g] = 0}
    PROVE  IdleExact'
<1>1. idle \in Seq(Copies!File) /\ Once(idle) /\ Range(idle) = {g \in Copies!Entries : pins[g] = 0} BY RoomMade
<1>2. idle' \in Seq(Copies!File) /\ Once(idle') /\ Range(idle') = Range(idle) \ Copies!Taken(n)
    BY <1>1, ListCut DEF Copies!Taken
<1>3. Range(idle') = {g \in Copies!Entries' : pins'[g] = 0} BY <1>1, <1>2
<1> QED BY <1>2, <1>3 DEF IdleExact, Once

\* What is freed is no longer charged.
LEMMA ChargedFreed ==
    ASSUME CopiesInv, shut # "cache", NEW n \in 0..Len(idle)
    PROVE  /\ IsFiniteSet(Copies!Charged \ Copies!Freed(n)) /\ Cardinality(Copies!Charged \ Copies!Freed(n)) \in Nat
           /\ Cardinality(Copies!Charged \ Copies!Freed(n)) = allocated - Cardinality(Copies!Freed(n))
           /\ Cardinality(Copies!Charged \ Copies!Freed(n)) <= allocated
<1>1. Copies!Freed(n) \subseteq Copies!Charged BY RoomMade
<1>2. IsFiniteSet(Copies!Charged) /\ Cardinality(Copies!Charged) \in Nat BY EntriesAre DEF CopiesInv
<1>3. allocated = Cardinality(Copies!Charged) BY DEF CopiesInv, CacheBooks
<1>4. /\ Cardinality(Copies!Freed(n)) \in Nat /\ Cardinality(Copies!Charged \ Copies!Freed(n)) \in Nat
      /\ IsFiniteSet(Copies!Charged \ Copies!Freed(n))
      /\ Cardinality(Copies!Charged \ Copies!Freed(n)) = Cardinality(Copies!Charged) - Cardinality(Copies!Freed(n))
    BY <1>1, <1>2, Fewer
<1> QED BY <1>2, <1>3, <1>4

\* put keeps the spool: room was made in vain, or none was asked for.
LEMMA PutSpools ==
    ASSUME CopiesInv, NEW k \in Asset, flight[k] # None, flight[k].pc = "verify",
           flight' = [flight EXCEPT ![k].pc = "close", ![k].owner = "spool"],
           UNCHANGED <<pins, releasing, cleaning, spool, orphans, reader, created>>,
           CacheSound, CacheLoses
    PROVE  CopiesInv'
<1> DEFINE v == [flight[k] EXCEPT !.pc = "close", !.owner = "spool"]
<1>1. flight' = [flight EXCEPT ![k] = v] OBVIOUS
<1>2. flight[k] \in Copies!Flight /\ flight[k].owner = None /\ flight[k].file \in Copies!File
    BY DEF CopiesInv, CopyShape, FlightShape, FlightFine
<1>3. /\ v \in Copies!Flight /\ v.pc = "close" /\ v.owner = "spool" /\ v.refs = flight[k].refs
      /\ v.file = flight[k].file
    BY <1>2 DEF Copies!Flight
<1> HIDE DEF v
<1>4. v # None BY <1>3, CopyNumbers
<1>5. FlightFine(v) /\ Spools(v) /\ Spools(flight[k]) BY <1>2, <1>3, <1>4, CopyNumbers DEF FlightFine, Spools
<1>6. releasing' \in [Copies!File -> Nat] BY DEF CopiesInv, CopyShape
<1>7. FetchSound /\ Copies!Reserved' = Copies!Reserved BY <1>1, <1>3, <1>5, <1>6, FlightMoves
<1>8. /\ flight'[k] = v /\ v # None /\ \A l \in Asset : l # k => flight'[l] = flight[l]
      /\ reader' \in [Reader -> Asking] /\ ReaderShape' /\ RefsExact'
      /\ \A f \in Copies!File : Hits(f)' = Hits(f)
    BY <1>1, <1>3, WorkerMoves
<1>9. \A f \in Copies!File : Flying(f)' = Flying(f) BY <1>2, <1>3, <1>8, CopyNumbers DEF Flying
<1>10. \A f \in Copies!File : Owed(f)' = Owed(f) BY <1>9 DEF Owed
<1>11. PinsExact' BY <1>8, <1>10, PinsSame
<1> QED BY <1>7, <1>8, <1>11, DisksKept, Assembled

LEMMA RoomInVain ==
    ASSUME CopiesInv, shut # "cache", NEW n \in 0..Len(idle),
           disk' = disk \ Copies!Freed(n), retired' = (retired \cup Copies!Taken(n)) \ Copies!Freed(n),
           idle' = SubSeq(idle, 1, Len(idle) - n), entries' = Copies!Without(Copies!Taken(n)),
           allocated' = allocated - Cardinality(Copies!Freed(n)), UNCHANGED <<pins, handed>>
    PROVE  CacheSound /\ CacheLoses
<1>1. /\ Copies!Taken(n) \subseteq Copies!Entries /\ \A g \in Copies!Taken(n) : pins[g] = 0
      /\ Copies!Freed(n) \subseteq Copies!Charged /\ \A g \in Copies!Freed(n) : g \notin handed /\ pins[g] = 0
      /\ Copies!Freed(n) \subseteq retired \cup Copies!Taken(n) /\ 0 \notin Copies!Taken(n)
      /\ Copies!Taken(n) \subseteq Copies!File
    BY RoomMade
<1>2. entries' \in [Asset -> {0} \cup Copies!File] /\ Copies!Entries' = Copies!Entries \ Copies!Taken(n)
  <2>1. CopyShape BY DEF CopiesInv
  <2>2. /\ Copies!Without(Copies!Taken(n)) \in [Asset -> {0} \cup Copies!File]
        /\ {Copies!Without(Copies!Taken(n))[k] : k \in Asset} \ {0} = Copies!Entries \ Copies!Taken(n)
      BY <1>1, <2>1, EntriesWithout
  <2>3. Copies!Entries' = {entries'[k] : k \in Asset} \ {0} BY DEF Copies!Entries
  <2> QED BY <2>2, <2>3
<1>3. /\ Copies!Entries \cap retired = {} /\ handed \subseteq Copies!Charged
      /\ \A f \in Copies!File : pins[f] > 0 => f \in Copies!Entries
    BY DEF CopiesInv, CacheBooks
<1>4. Copies!Charged' = Copies!Charged \ Copies!Freed(n)
  <2>1. ASSUME NEW x PROVE x \in Copies!Charged' <=> x \in Copies!Charged \ Copies!Freed(n)
      BY <1>1, <1>2, <1>3 DEF Copies!Charged
  <2> QED BY <2>1
<1>5. allocated' = Cardinality(Copies!Charged') /\ allocated' <= Limit /\ allocated' <= MaxEntries
  <2>1. allocated \in Nat /\ allocated <= Limit /\ allocated <= MaxEntries
      BY EntriesAre DEF CopiesInv, CacheBooks
  <2>2. /\ Cardinality(Copies!Charged \ Copies!Freed(n)) \in Nat
        /\ Cardinality(Copies!Charged \ Copies!Freed(n)) = allocated - Cardinality(Copies!Freed(n))
        /\ Cardinality(Copies!Charged \ Copies!Freed(n)) <= allocated
      BY ChargedFreed
  <2> QED BY <1>4, <2>1, <2>2, CopyNumbers
<1>6. CacheBooks'
  <2>1. Copies!Entries' \cap retired' = {} BY <1>2, <1>3
  <2>2. pins \in [Copies!File -> Nat] BY DEF CopiesInv, CopyShape
  <2>3. \A f \in Copies!File : pins'[f] > 0 => f \in Copies!Entries' BY <1>1, <1>2, <1>3, <2>2
  <2>4. handed' \subseteq Copies!Charged' BY <1>1, <1>3, <1>4
  <2> QED BY <1>5, <2>1, <2>3, <2>4 DEF CacheBooks
<1>7. IdleExact' BY <1>2, IdleCut
<1>8. CacheLoses BY <1>1, <1>4 DEF CacheLoses
<1>9. retired' \subseteq Copies!File BY <1>1 DEF CopiesInv, CopyShape
<1> QED BY <1>2, <1>6, <1>7, <1>8, <1>9 DEF CacheSound, CopiesInv, CopyShape

\* put takes the file into the cache: its reservation is freed, and the flight holds a pin.
LEMMA PutCaches ==
    ASSUME CopiesInv, shut # "cache", NEW k \in Asset, flight[k] # None, flight[k].pc = "verify",
           entries[k] = 0, NEW n \in 0..Len(idle), ~Copies!Full(n), NEW f, f = flight[k].file,
           flight' = [flight EXCEPT ![k].pc = "close", ![k].owner = "cache"],
           disk' = disk \ Copies!Freed(n), retired' = (retired \cup Copies!Taken(n)) \ Copies!Freed(n),
           idle' = SubSeq(idle, 1, Len(idle) - n), entries' = [Copies!Without(Copies!Taken(n)) EXCEPT ![k] = f],
           allocated' = allocated - Cardinality(Copies!Freed(n)) + 1, pins' = [pins EXCEPT ![f] = 1],
           spool' = spool - 1, UNCHANGED <<handed, releasing, cleaning, orphans, reader, created>>
    PROVE  CopiesInv'
<1> DEFINE v == [flight[k] EXCEPT !.pc = "close", !.owner = "cache"]
<1>1. flight' = [flight EXCEPT ![k] = v] OBVIOUS
<1>2. flight[k] \in Copies!Flight /\ flight[k].owner = None /\ f \in Copies!File
    BY DEF CopiesInv, CopyShape, FlightShape, FlightFine
<1>3. /\ v \in Copies!Flight /\ v.pc = "close" /\ v.owner = "cache" /\ v.refs = flight[k].refs
      /\ v.file = f
    BY <1>2 DEF Copies!Flight
<1> HIDE DEF v
<1>4. /\ flight'[k] = v /\ v # None /\ \A l \in Asset : l # k => flight'[l] = flight[l]
      /\ reader' \in [Reader -> Asking] /\ ReaderShape' /\ RefsExact'
      /\ \A g \in Copies!File : Hits(g)' = Hits(g)
    BY <1>1, <1>3, WorkerMoves
<1>5. /\ Copies!Spooling(k) /\ ~Copies!Spooling(k)'
      /\ \A l \in Asset : l # k => (Copies!Spooling(l)' <=> Copies!Spooling(l))
    BY <1>3, <1>4, CopyNumbers DEF Copies!Spooling
<1>6. /\ f \in Copies!Reserved /\ f \notin Copies!Charged /\ disk = Copies!Charged \cup Copies!Reserved
      /\ Copies!Charged \cap Copies!Reserved = {}
    BY <1>5, ReservedIs DEF CopiesInv, DiskBooks
<1>7. pins[f] = 0 /\ f \notin Copies!Entries
  <2>1. f \notin Copies!Entries BY <1>6 DEF Copies!Charged
  <2>2. pins[f] \in Nat BY <1>2, PinsAre
  <2>3. ~(pins[f] > 0) BY <1>2, <2>1 DEF CopiesInv, CacheBooks
  <2> QED BY <2>1, <2>2, <2>3
<1>8. PinsExact'
  <2>1. ASSUME NEW g \in Copies!File PROVE pins'[g] = Cardinality(Hits(g)') + Owed(g)'
    <3>1. Owed(g)' = Cardinality(Flying(g)') + releasing[g] BY DEF Owed
    <3>2. CASE g = f
      <4>1. Flying(g)' = Flying(g) \cup {k} /\ k \notin Flying(g)
          BY <1>2, <1>3, <1>4, <3>2, CopyNumbers DEF Flying
      <4>2. Cardinality(Flying(g)') = Cardinality(Flying(g)) + 1 BY <4>1, FlyingFinite, OneMore
      <4>3. pins'[g] = 1 BY <1>2, <3>2, PinsAre
      <4> QED BY <1>4, <1>7, <3>1, <3>2, <4>2, <4>3, PinsAre
    <3>3. CASE g # f
      <4>1. Flying(g)' = Flying(g) BY <1>2, <1>3, <1>4, <3>3, CopyNumbers DEF Flying
      <4>2. pins'[g] = pins[g] BY <3>3, PinsAre
      <4> QED BY <1>4, <3>1, <4>1, <4>2, PinsAre
    <3> QED BY <3>2, <3>3
  <2> QED BY <2>1 DEF PinsExact
<1>9. /\ cleaning \cap orphans = {}
      /\ \A l \in Asset : Copies!Spooling(l) => flight[l].file \notin cleaning \cup orphans
      /\ \A l \in Asset : Copies!Spooling(l) /\ l # k => flight[l].file # f
    BY <1>5 DEF CopiesInv, SpoolBooks
<1>10. Copies!Reserved' = Copies!Reserved \ {f}
  <2>1. ASSUME NEW x PROVE x \in Copies!Reserved' <=> x \in Copies!Reserved \ {f}
    <3>1. x \in Copies!Reserved <=>
              \/ \E l \in Asset : l # k /\ Copies!Spooling(l) /\ flight[l].file = x
              \/ x = f \/ x \in cleaning \/ x \in orphans
        BY <1>5, ReservedIs
    <3>2. x \in Copies!Reserved' <=>
              \/ \E l \in Asset : l # k /\ Copies!Spooling(l) /\ flight[l].file = x
              \/ x \in cleaning \/ x \in orphans
        BY <1>4, <1>5, ReservedAfter
    <3>3. f \notin cleaning \cup orphans BY <1>5, <1>9
    <3> QED BY <1>9, <3>1, <3>2, <3>3
  <2> QED BY <2>1
<1>11. spool' = Cardinality(Copies!Reserved') /\ spool' <= SpoolLimit
  <2>1. Cardinality(Copies!Reserved') = Cardinality(Copies!Reserved) - 1 /\ Cardinality(Copies!Reserved) \in Nat
      BY <1>6, <1>10, ReservedFinite, OneLess
  <2>2. spool = Cardinality(Copies!Reserved) /\ spool <= SpoolLimit BY DEF CopiesInv, SpoolBooks
  <2> QED BY <2>1, <2>2, CopyNumbers
<1>12. SpoolBooks'
  <2>1. /\ \A i, j \in Asset : Copies!Spooling(i)' /\ Copies!Spooling(j)' /\ flight'[i].file = flight'[j].file => i = j
        /\ \A l \in Asset : Copies!Spooling(l)' => flight'[l].file \notin cleaning' \cup orphans'
      BY <1>4, <1>5, <1>9, SpoolsApart
  <2> QED BY <1>9, <1>11, <2>1 DEF SpoolBooks
<1>13. FlightFine(v) BY <1>2, <1>3, CopyNumbers DEF FlightFine
<1>14. FlightShape' BY <1>4, <1>13 DEF CopiesInv, FlightShape
<1>15. FetchSound
  <2>1. flight' \in [Asset -> Copies!Flight \cup {None}] BY <1>1, <1>3 DEF CopiesInv, CopyShape
  <2> QED BY <1>12, <1>14, <2>1 DEF FetchSound, FetchTypes, CopiesInv, CopyShape
<1>16. /\ Copies!Taken(n) \subseteq Copies!Entries /\ \A g \in Copies!Taken(n) : pins[g] = 0
       /\ Copies!Freed(n) \subseteq Copies!Charged /\ \A g \in Copies!Freed(n) : g \notin handed /\ pins[g] = 0
       /\ Copies!Freed(n) \subseteq retired \cup Copies!Taken(n) /\ 0 \notin Copies!Taken(n)
       /\ Copies!Taken(n) \subseteq Copies!File
    BY RoomMade
<1>17. entries' \in [Asset -> {0} \cup Copies!File] /\ Copies!Entries' = (Copies!Entries \ Copies!Taken(n)) \cup {f}
  <2>1. PICK w : w = Copies!Without(Copies!Taken(n)) OBVIOUS
  <2>2. w \in [Asset -> {0} \cup Copies!File] /\ {w[l] : l \in Asset} \ {0} = Copies!Entries \ Copies!Taken(n)
      BY <1>16, <2>1, EntriesWithout DEF CopiesInv
  <2>3. w[k] = 0 BY <2>1 DEF Copies!Without
  <2>4. entries' = [w EXCEPT ![k] = f] BY <2>1
  <2>5. entries' \in [Asset -> {0} \cup Copies!File] BY <1>2, <2>2, <2>4
  <2>6. entries'[k] = f /\ \A l \in Asset : l # k => entries'[l] = w[l] BY <2>2, <2>4
  <2>7. f # 0 BY <1>2, CopyNumbers DEF Copies!File
  <2>8. ASSUME NEW x PROVE x \in Copies!Entries' <=> x \in ({w[l] : l \in Asset} \ {0}) \cup {f}
    <3>1. x \in Copies!Entries' <=> x # 0 /\ \E l \in Asset : x = entries'[l] BY DEF Copies!Entries
    <3>2. ASSUME NEW l \in Asset, x = entries'[l], x # f PROVE x \in {w[j] : j \in Asset} BY <2>6, <3>2
    <3>3. ASSUME NEW l \in Asset, x = w[l], x # 0 PROVE x = entries'[l] BY <2>3, <2>6, <3>3
    <3> QED BY <2>6, <2>7, <3>1, <3>2, <3>3
  <2> QED BY <2>2, <2>5, <2>8
<1>18. /\ Copies!Entries \cap retired = {} /\ handed \subseteq Copies!Charged
       /\ \A g \in Copies!File : pins[g] > 0 => g \in Copies!Entries
    BY DEF CopiesInv, CacheBooks
<1>19. Copies!Charged' = (Copies!Charged \ Copies!Freed(n)) \cup {f}
  <2>1. ASSUME NEW x PROVE x \in Copies!Charged' <=> x \in (Copies!Charged \ Copies!Freed(n)) \cup {f}
      BY <1>16, <1>17, <1>18 DEF Copies!Charged
  <2> QED BY <2>1
<1>20. allocated' = Cardinality(Copies!Charged') /\ allocated' <= Limit /\ allocated' <= MaxEntries
  <2>1. /\ IsFiniteSet(Copies!Charged \ Copies!Freed(n)) /\ Cardinality(Copies!Charged \ Copies!Freed(n)) \in Nat
        /\ Cardinality(Copies!Charged \ Copies!Freed(n)) = allocated - Cardinality(Copies!Freed(n))
      BY ChargedFreed
  <2>2. f \notin Copies!Charged \ Copies!Freed(n) BY <1>6
  <2>3. Cardinality(Copies!Charged') = Cardinality(Copies!Charged \ Copies!Freed(n)) + 1
      BY <1>19, <2>1, <2>2, OneMore
  <2>4. /\ ~(Cardinality(Copies!Charged \ Copies!Freed(n)) + 1 > Limit)
        /\ ~(Cardinality(Copies!Charged \ Copies!Freed(n)) >= MaxEntries)
      BY <2>1, SameCount DEF Copies!Full
  <2> QED BY <2>1, <2>3, <2>4, CopyNumbers
<1>21. pins' \in [Copies!File -> Nat] /\ pins'[f] = 1 /\ \A g \in Copies!File : g # f => pins'[g] = pins[g]
    BY <1>2 DEF CopiesInv, CopyShape
<1>22. CacheBooks'
  <2>1. Copies!Entries' \cap retired' = {} BY <1>6, <1>16, <1>17, <1>18 DEF Copies!Charged
  <2>2. pins \in [Copies!File -> Nat] BY DEF CopiesInv, CopyShape
  <2>3. \A g \in Copies!File : pins'[g] > 0 => g \in Copies!Entries' BY <1>16, <1>17, <1>18, <1>21, <2>2
  <2>4. handed' \subseteq Copies!Charged' BY <1>16, <1>18, <1>19
  <2> QED BY <1>20, <2>1, <2>3, <2>4 DEF CacheBooks
<1>23. IdleExact'
  <2>1. Copies!Entries \subseteq Copies!File BY EntriesAre DEF CopiesInv
  <2>2. {g \in Copies!Entries' : pins'[g] = 0} = {g \in Copies!Entries \ Copies!Taken(n) : pins[g] = 0}
      BY <1>7, <1>17, <1>21, <2>1
  <2> QED BY <2>2, IdleCut
<1>24. CacheSound
  <2>1. retired' \subseteq Copies!File BY <1>16 DEF CopiesInv, CopyShape
  <2> QED BY <1>17, <1>21, <1>22, <1>23, <2>1 DEF CacheSound
<1>25. DiskBooks' BY <1>6, <1>10, <1>16, <1>19 DEF DiskBooks
<1>26. created' \in 0..MaxFile /\ disk' \subseteq 1..created' BY DEF CopiesInv, CopyShape
<1> QED BY <1>4, <1>8, <1>15, <1>24, <1>25, <1>26, Assembled

LEMMA PutInv == ASSUME CopiesInv, NEW k \in Asset, Copies!Put(k) PROVE CopiesInv'
<1>1. /\ flight[k] # None /\ flight[k].pc = "verify"
      /\ UNCHANGED <<handed, releasing, cleaning, orphans, reader, shut, created>>
    BY DEF Copies!Put, Copies!envVars
<1>2. CASE shut = "cache" \/ entries[k] # 0 \/ Limit = 0
  <2>1. /\ flight' = [flight EXCEPT ![k].pc = "close", ![k].owner = "spool"]
        /\ UNCHANGED <<Copies!cacheVars, disk, pins, spool>>
      BY <1>2 DEF Copies!Put
  <2>2. handed' \subseteq Copies!Charged BY <1>1 DEF CopiesInv, CacheBooks
  <2>3. CacheSound /\ CacheLoses BY <1>1, <2>1, <2>2, CacheSame
  <2> QED BY <1>1, <2>1, <2>3, PutSpools
<1>3. CASE ~(shut = "cache" \/ entries[k] # 0 \/ Limit = 0)
  <2>1. PICK n \in 0..Len(idle) :
            /\ disk' = disk \ Copies!Freed(n)
            /\ retired' = (retired \cup Copies!Taken(n)) \ Copies!Freed(n)
            /\ idle' = SubSeq(idle, 1, Len(idle) - n)
            /\ IF Copies!Full(n)
               THEN /\ flight' = [flight EXCEPT ![k].pc = "close", ![k].owner = "spool"]
                    /\ entries' = Copies!Without(Copies!Taken(n))
                    /\ allocated' = allocated - Cardinality(Copies!Freed(n))
                    /\ UNCHANGED <<pins, spool>>
               ELSE /\ flight' = [flight EXCEPT ![k].pc = "close", ![k].owner = "cache"]
                    /\ entries' = [Copies!Without(Copies!Taken(n)) EXCEPT ![k] = flight[k].file]
                    /\ allocated' = allocated - Cardinality(Copies!Freed(n)) + 1
                    /\ pins' = [pins EXCEPT ![flight[k].file] = 1]
                    /\ spool' = spool - 1
      BY <1>3, SameCount DEF Copies!Put
  <2>2. CASE Copies!Full(n)
    <3>1. CacheSound /\ CacheLoses BY <1>1, <1>3, <2>1, <2>2, RoomInVain
    <3> QED BY <1>1, <2>1, <2>2, <3>1, PutSpools
  <2>3. CASE ~Copies!Full(n) BY <1>1, <1>3, <2>1, <2>3, PutCaches
  <2> QED BY <2>2, <2>3
<1> QED BY <1>2, <1>3

LEMMA CloseCacheInv == ASSUME CopiesInv, Copies!CloseCache PROVE CopiesInv'
<1>0. PICK swept, gone : swept = orphans \ stuck /\ gone = Copies!Unlinked(Copies!Charged) OBVIOUS
<1>1. /\ shut' = "cache" /\ orphans' = orphans \ swept /\ spool' = spool - Cardinality(swept)
      /\ entries' = Copies!Without(gone) /\ retired' = retired \ Copies!Unlinked(retired)
      /\ allocated' = allocated - Cardinality(gone) /\ disk' = disk \ (swept \cup gone)
      /\ UNCHANGED <<pins, handed, flight, releasing, cleaning, reader, created>>
    BY <1>0, SameCount DEF Copies!CloseCache, Copies!envVars
<1>2. /\ gone \subseteq Copies!Charged /\ \A g \in gone : g \notin handed /\ pins[g] = 0
      /\ retired' = retired \ gone
    BY <1>0, <1>1 DEF Copies!Unlinked, Copies!Removable, Copies!Charged
<1>3. Copies!Charged \subseteq Copies!File /\ IsFiniteSet(Copies!Charged) /\ Copies!Entries \subseteq Copies!File
    BY EntriesAre DEF CopiesInv
<1>4. 0 \notin gone BY <1>2, <1>3, CopyNumbers DEF Copies!File
<1>5. entries' \in [Asset -> {0} \cup Copies!File] /\ Copies!Entries' = Copies!Entries \ gone
  <2>1. CopyShape BY DEF CopiesInv
  <2> QED BY <1>1, <1>4, <2>1, EntriesWithout DEF Copies!Entries
<1>6. Copies!Charged' = Copies!Charged \ gone BY <1>2, <1>5 DEF Copies!Charged
<1>7. allocated' = Cardinality(Copies!Charged') /\ allocated' <= Limit /\ allocated' <= MaxEntries
  <2>1. /\ Cardinality(Copies!Charged) \in Nat /\ Cardinality(gone) \in Nat
        /\ Cardinality(Copies!Charged \ gone) = Cardinality(Copies!Charged) - Cardinality(gone)
      BY <1>2, <1>3, Fewer
  <2>2. allocated = Cardinality(Copies!Charged) /\ allocated <= Limit /\ allocated <= MaxEntries
      BY DEF CopiesInv, CacheBooks
  <2> QED BY <1>1, <1>6, <2>1, <2>2, CopyNumbers
<1>8. CacheBooks'
  <2>1. Copies!Entries' \cap retired' = {} BY <1>2, <1>5 DEF CopiesInv, CacheBooks
  <2>2. pins \in [Copies!File -> Nat] BY DEF CopiesInv, CopyShape
  <2>3. \A g \in Copies!File : pins'[g] > 0 => g \in Copies!Entries'
      BY <1>1, <1>2, <1>5, <2>2 DEF CopiesInv, CacheBooks
  <2>4. handed' \subseteq Copies!Charged' BY <1>1, <1>2, <1>6 DEF CopiesInv, CacheBooks
  <2> QED BY <1>7, <2>1, <2>3, <2>4 DEF CacheBooks
<1>9. IdleExact' BY <1>1 DEF IdleExact
<1>10. CacheSound BY <1>1, <1>2, <1>5, <1>8, <1>9 DEF CacheSound, CopiesInv, CopyShape
<1>11. /\ cleaning \cap orphans = {} /\ swept \subseteq orphans
       /\ \A l \in Asset : Copies!Spooling(l) => flight[l].file \notin cleaning \cup orphans
       /\ \A i, j \in Asset : Copies!Spooling(i) /\ Copies!Spooling(j) /\ flight[i].file = flight[j].file => i = j
    BY <1>0 DEF CopiesInv, SpoolBooks
<1>12. \A l \in Asset : Copies!Spooling(l)' <=> Copies!Spooling(l) BY <1>1 DEF Copies!Spooling
<1>13. ASSUME NEW x PROVE x \in Copies!Reserved' <=> x \in Copies!Reserved \ swept
    BY <1>1, <1>11, <1>12, ReservedIs, ReservedAfter
<1>14. Copies!Reserved' = Copies!Reserved \ swept /\ swept \subseteq Copies!Reserved BY <1>11, <1>13, ReservedIs
<1>15. spool' = Cardinality(Copies!Reserved') /\ spool' <= SpoolLimit
  <2>1. /\ Cardinality(Copies!Reserved) \in Nat /\ Cardinality(swept) \in Nat
        /\ Cardinality(Copies!Reserved \ swept) = Cardinality(Copies!Reserved) - Cardinality(swept)
      BY <1>14, ReservedFinite, Fewer
  <2>2. spool = Cardinality(Copies!Reserved) /\ spool <= SpoolLimit BY DEF CopiesInv, SpoolBooks
  <2> QED BY <1>1, <1>14, <2>1, <2>2, CopyNumbers
<1>16. SpoolBooks' BY <1>1, <1>11, <1>12, <1>15 DEF SpoolBooks
<1>17. FetchSound BY <1>1, <1>16 DEF FetchSound, FetchTypes, CopiesInv, CopyShape, FlightShape
<1>18. DiskBooks'
  <2>1. disk = Copies!Charged \cup Copies!Reserved /\ Copies!Charged \cap Copies!Reserved = {}
      BY DEF CopiesInv, DiskBooks
  <2> QED BY <1>1, <1>2, <1>6, <1>14, <2>1 DEF DiskBooks
<1>19. created' \in 0..MaxFile /\ disk' \subseteq 1..created' BY <1>1 DEF CopiesInv, CopyShape
<1>20. /\ reader' \in [Reader -> Asking] /\ ReaderShape'
       /\ \A g \in Copies!File : Hits(g)' = Hits(g)
       /\ \A l \in Asset : Riders(l)' = Riders(l)
    BY <1>1, ReaderSame
<1>21. \A l \in Asset : RefsOf(l)' = RefsOf(l) BY <1>1 DEF RefsOf
<1>22. \A g \in Copies!File : Owed(g)' = Owed(g) BY <1>1 DEF Owed, Flying
<1>23. RefsExact' /\ PinsExact' BY <1>1, <1>20, <1>21, <1>22, RefsSame, PinsSame
<1> QED BY <1>10, <1>17, <1>18, <1>19, <1>20, <1>23, Assembled

-----------------------------------------------------------------------------
LEMMA CopiesInvInit == Copies!Init => CopiesInv
<1> SUFFICES ASSUME Copies!Init PROVE CopiesInv OBVIOUS
<1>1. /\ entries = [k \in Asset |-> 0] /\ retired = {} /\ idle = <<>> /\ allocated = 0
      /\ disk = {} /\ pins = [f \in Copies!File |-> 0] /\ handed = {}
      /\ flight = [k \in Asset |-> None] /\ releasing = [f \in Copies!File |-> 0] /\ cleaning = {}
      /\ spool = 0 /\ orphans = {} /\ reader = [r \in Reader |-> Copies!Away] /\ shut = "open" /\ created = 0
    BY DEF Copies!Init
<1>2. CopyShape BY <1>1, AwayFine, CopyNumbers DEF CopyShape
<1>3. \A r \in Reader : reader[r] = Copies!Away BY <1>1
<1>4. ReaderShape BY <1>3, AwayFine DEF ReaderShape, AskingFine
<1>5. FlightShape BY <1>1 DEF FlightShape
<1>6. \A k \in Asset : Riders(k) = {} /\ RefsOf(k) = 0 BY <1>1, <1>3, AwayFine DEF Riders, Rides, RefsOf
<1>7. RefsExact BY <1>6, FS_EmptySet DEF RefsExact
<1>8. \A f \in Copies!File : Hits(f) = {} /\ Flying(f) = {} BY <1>1, <1>3, AwayFine DEF Hits, Flying
<1>9. PinsExact
  <2> SUFFICES ASSUME NEW f \in Copies!File PROVE pins[f] = Cardinality(Hits(f)) + Owed(f) BY DEF PinsExact
  <2>1. Cardinality(Hits(f)) = 0 /\ Cardinality(Flying(f)) = 0 BY <1>8, FS_EmptySet
  <2>2. pins[f] = 0 /\ releasing[f] = 0 BY <1>1
  <2> QED BY <2>1, <2>2 DEF Owed
<1>10. Copies!Entries = {} BY <1>1 DEF Copies!Entries
<1>11. Copies!Charged = {} BY <1>1, <1>10 DEF Copies!Charged
<1>12. CacheBooks BY <1>1, <1>10, <1>11, FS_EmptySet, CopyNumbers DEF CacheBooks
<1>13. IdleExact
  <2>1. idle \in Seq(Copies!File) /\ Len(idle) = 0 BY <1>1
  <2>2. Range(idle) = {idle[i] : i \in 1..Len(idle)} BY <2>1, RangeIs
  <2>3. Range(idle) = {} BY <2>1, <2>2
  <2> QED BY <1>10, <2>1, <2>3 DEF IdleExact
<1>14. \A k \in Asset : ~Copies!Spooling(k) BY <1>1 DEF Copies!Spooling
<1>15. Copies!Reserved = {} BY <1>1, <1>14, ReservedIs
<1>16. SpoolBooks BY <1>1, <1>14, <1>15, FS_EmptySet, CopyNumbers DEF SpoolBooks
<1>17. DiskBooks BY <1>1, <1>11, <1>15 DEF DiskBooks
<1> QED BY <1>2, <1>4, <1>5, <1>7, <1>9, <1>12, <1>13, <1>16, <1>17 DEF CopiesInv

LEMMA CopiesInvNext == CopiesInv /\ [Copies!Next]_(Copies!vars) => CopiesInv'
<1> SUFFICES ASSUME CopiesInv, [Copies!Next]_(Copies!vars) PROVE CopiesInv' OBVIOUS
<1>1. CASE UNCHANGED Copies!vars
    BY <1>1, NamesInv DEF Copies!vars, Copies!envVars
<1>2. ASSUME NEW r \in Reader, NEW k \in Asset, Copies!Serve(r, k) PROVE CopiesInv' BY <1>2, ServeInv
<1>3. ASSUME NEW r \in Reader, Copies!Join(r) \/ Copies!Cancel(r) \/ Copies!Open(r) \/ Copies!Handoff(r) \/ Copies!FinishRead(r)
      PROVE  CopiesInv'
    BY <1>3, JoinInv, CancelInv, OpenInv, HandoffInv, FinishReadInv
<1>4. ASSUME NEW k \in Asset,
             Copies!Admit(k) \/ Copies!GiveUp(k) \/ Copies!Download(k)
             \/ Copies!Reject(k) \/ Copies!Put(k) \/ Copies!CloseFlight(k)
      PROVE  CopiesInv'
    BY <1>4, AdmitInv, GiveUpFetchInv, DownloadInv, RejectInv, PutInv, CloseFlightInv
<1>5. CASE Copies!CloseFetch BY <1>5, NamesInv DEF Copies!CloseFetch, Copies!envVars
<1>6. CASE Copies!CloseCache BY <1>6, CloseCacheInv
<1>7. ASSUME NEW f \in Copies!File, Copies!Release(f) \/ Copies!Cleanup(f) PROVE CopiesInv'
    BY <1>7, ReleaseInv, CleanupInv
<1>8. ASSUME NEW f \in Copies!File, Copies!GraceEnds(f) \/ Copies!Trouble(f) \/ Copies!Repaired(f) PROVE CopiesInv'
  <2>1. /\ UNCHANGED <<Copies!cacheVars, disk, pins, reader, created, shut>> /\ UNCHANGED Copies!fetchVars
        /\ handed' \subseteq handed
      BY <1>8 DEF Copies!GraceEnds, Copies!Trouble, Copies!Repaired, Copies!envVars
  <2> QED BY <2>1, NamesInv
<1> QED BY <1>1, <1>2, <1>3, <1>4, <1>5, <1>6, <1>7, <1>8 DEF Copies!Next

LEMMA CopiesAreExact == CopiesInv => CacheExact
<1> SUFFICES ASSUME CopiesInv PROVE CacheExact OBVIOUS
<1>1. disk = Copies!Charged \cup Copies!Reserved /\ Copies!Charged \cap Copies!Reserved = {}
    BY DEF CopiesInv, DiskBooks
<1>2. ASSUME NEW k \in Asset, flight[k] # None, flight[k].pc = "done", ~flight[k].err
      PROVE  flight[k].file \in disk
  <2>1. flight[k] \in Copies!Flight /\ flight[k].owner \in {"cache", "spool"} /\ flight[k].file \in Copies!File
      BY <1>2 DEF CopiesInv, CopyShape, FlightShape, FlightFine, Copies!Flight
  <2>2. CASE flight[k].owner = "cache"
    <3>1. PICK f \in Copies!File : f = flight[k].file BY <2>1
    <3>2. k \in Flying(f) BY <1>2, <2>2, <3>1 DEF Flying
    <3>3. Cardinality(Flying(f)) > 0 BY <3>2, FlyingFinite, OneLess
    <3>4. pins[f] > 0 BY <3>3, PinsAre
    <3>5. f \in Copies!Entries BY <3>4 DEF CopiesInv, CacheBooks
    <3> QED BY <1>1, <3>1, <3>5 DEF Copies!Charged
  <2>3. CASE flight[k].owner = "spool"
    <3>1. Copies!Spooling(k) BY <1>2, <2>3 DEF Copies!Spooling
    <3> QED BY <1>1, <3>1, ReservedIs
  <2> QED BY <2>1, <2>2, <2>3
<1>3. Copies!NamesOpenable BY <1>1, <1>2 DEF Copies!NamesOpenable, CopiesInv, CacheBooks
<1>4. Copies!DiskCharged
    BY <1>1, SameCount, SameRange DEF Copies!DiskCharged, CopiesInv, CacheBooks, SpoolBooks, IdleExact
<1> QED BY <1>3, <1>4 DEF CacheExact, Copies!CacheExact

\* The names that a request or Nginx will still open exist, every file on disk is charged to exactly
\* one budget and no budget is exceeded, through evictions, failed unlinks, damage and shutdown.
THEOREM CopiesStayExact == Copies!Spec => []CacheExact
<1>1. Copies!Init => CopiesInv BY CopiesInvInit
<1>2. CopiesInv /\ [Copies!Next]_(Copies!vars) => CopiesInv' BY CopiesInvNext
<1>3. CopiesInv => CacheExact BY CopiesAreExact
<1> QED BY <1>1, <1>2, <1>3, PTL DEF Copies!Spec

=============================================================================
