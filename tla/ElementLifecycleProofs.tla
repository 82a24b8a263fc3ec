----------------------- MODULE ElementLifecycleProofs -----------------------
(***************************************************************************)
(* Facts about the operators of GraphLifecycle and the safety of           *)
(* ElementLifecycle, for every set of contributors, attributes and values, *)
(* every TTL and every timer resolution.                                   *)
(***************************************************************************)
EXTENDS ElementLifecycle, TLAPS, FiniteSetTheorems, WellFoundedInduction

-----------------------------------------------------------------------------
(* The operators of GraphLifecycle *)

(* A nonempty set of naturals has a least element. *)
LEMMA LeastNatural ==
    ASSUME NEW T \in SUBSET Nat, T # {}
    PROVE  \E m \in T : \A n \in T : m <= n
<1> DEFINE R == {ss \in Nat \X Nat : ss[1] < ss[2]}
<1>1. IsWellFoundedOn(R, Nat)
    BY NatLessThanWellFounded DEF OpToRel
<1> HIDE DEF R
<1>2. PICK m \in T : \A n \in T : ~(<<n, m>> \in R)
    BY <1>1, WFMin
<1>3. ASSUME NEW n \in T PROVE m <= n
    <2>1. ~(n < m)
        BY <1>2 DEF R
    <2>2. QED
        BY <2>1
<1>4. QED
    BY <1>2, <1>3

(* Min picks the least element of a nonempty set of naturals. *)
LEMMA MinOfNaturals ==
    ASSUME NEW T \in SUBSET Nat, T # {}
    PROVE  Min(T) \in T /\ \A n \in T : Min(T) <= n
BY LeastNatural DEF Min

(* Rounding a deadline up to the second never moves it earlier. *)
LEMMA CoalescedTimerRoundsUp ==
    ASSUME NEW t \in Nat
    PROVE  CoalescedTimer(t) \in Nat /\ CoalescedTimer(t) >= t
<1>1. TicksPerSecond \in Nat \ {0}
    BY TimeAssumption
<1> DEFINE q == t \div TicksPerSecond
           r == t % TicksPerSecond
<1>2. q \in Nat /\ r \in 0 .. (TicksPerSecond - 1) /\ t = TicksPerSecond * q + r
    BY <1>1, SMTT(30)
<1>3. CASE r = 0
    <2>1. CoalescedTimer(t) = q * TicksPerSecond
        BY <1>2, <1>3 DEF CoalescedTimer
    <2>2. QED
        BY <1>1, <1>2, <1>3, <2>1
<1>4. CASE r # 0
    <2>1. CoalescedTimer(t) = (q + 1) * TicksPerSecond
        BY <1>2, <1>4 DEF CoalescedTimer
    <2> HIDE DEF q, r
    <2>2. (q + 1) * TicksPerSecond = TicksPerSecond * q + TicksPerSecond
        BY <1>1, <1>2
    <2>3. TicksPerSecond * q \in Nat
        BY <1>1, <1>2
    <2>4. QED
        BY <1>1, <1>2, <2>1, <2>2, <2>3
<1>5. QED
    BY <1>3, <1>4

-----------------------------------------------------------------------------
(* Attribute winners *)

(* Beats: c carries the attribute and wins against every other holder. *)
Beats(s, a, c) ==
    /\ c \in Holders(s, a)
    /\ \A d \in Holders(s, a) \ {c} : Wins(c, s[c], d, s[d])

(* Every attribute that some contributor carries has a winner. *)
LEMMA WinnerExists ==
    ASSUME NEW s \in ContributorMap, NEW a \in Attributes, Holders(s, a) # {}
    PROVE  \E c \in Contributors : Beats(s, a, c)
<1> DEFINE H == Holders(s, a)
           age(c) == MaxEventTime - s[c].observedAt
           Ages == {age(c) : c \in H}
<1>1. /\ H \subseteq Contributors
      /\ \A c \in H : s[c] \in Snapshot
    BY DEF Holders, Present, ContributorMap
<1>2. \A c \in H : s[c].observedAt \in 0 .. MaxEventTime
    BY <1>1 DEF Snapshot
<1>3. Ages \in SUBSET Nat /\ Ages # {}
    BY <1>2, TimeAssumption
<1>4. PICK m \in Ages : \A n \in Ages : m <= n
    BY <1>3, LeastNatural
<1> DEFINE Newest == {c \in H : age(c) = m}
<1>5. Newest \in SUBSET Nat /\ Newest # {}
    BY <1>1, <1>4, ContributorsAssumption
<1>6. PICK c \in Newest : \A d \in Newest : c <= d
    BY <1>5, LeastNatural
<1>7. c \in H /\ c \in Contributors
    BY <1>1, <1>6
<1>8. ASSUME NEW d \in H \ {c} PROVE Wins(c, s[c], d, s[d])
    <2>1. s[c].observedAt \in Int /\ s[d].observedAt \in Int
        BY <1>2, <1>7
    <2>2. age(c) <= age(d)
        BY <1>4, <1>6
    <2>3. c \in Nat /\ d \in Nat /\ c # d
        BY <1>1, <1>7, ContributorsAssumption
    <2>4. age(d) = m => c <= d
        BY <1>6
    <2>5. age(c) = m
        BY <1>6
    <2>6. MaxEventTime \in Int
        BY TimeAssumption
    <2>7. s[c].observedAt = s[d].observedAt => c < d
        BY <2>3, <2>4, <2>5
    <2>8. s[c].observedAt >= s[d].observedAt
        BY <2>1, <2>2, <2>6
    <2>9. QED
        BY <2>1, <2>7, <2>8 DEF Wins
<1>9. QED
    BY <1>7, <1>8 DEF Beats

(* Winning is antisymmetric: an attribute has only one winner. *)
LEMMA WinnerUnique ==
    ASSUME NEW s \in ContributorMap, NEW a \in Attributes,
           NEW c, Beats(s, a, c), NEW d, Beats(s, a, d)
    PROVE  c = d
<1>1. /\ c \in Contributors /\ d \in Contributors
      /\ s[c] \in Snapshot /\ s[d] \in Snapshot
    BY DEF Beats, Holders, Present, ContributorMap
<1>2. c \in Nat /\ d \in Nat
    BY <1>1, ContributorsAssumption
<1>3. s[c].observedAt \in Int /\ s[d].observedAt \in Int
    BY <1>1 DEF Snapshot
<1>4. c # d => Wins(c, s[c], d, s[d]) /\ Wins(d, s[d], c, s[c])
    BY DEF Beats
<1>5. QED
    BY <1>2, <1>3, <1>4 DEF Wins

(* Winner returns that contributor. *)
LEMMA WinnerBeats ==
    ASSUME NEW s \in ContributorMap, NEW a \in Attributes, Holders(s, a) # {}
    PROVE  Beats(s, a, Winner(s, a))
BY WinnerExists DEF Beats, Winner

LEMMA WinnerIs ==
    ASSUME NEW s \in ContributorMap, NEW a \in Attributes,
           NEW c, Beats(s, a, c)
    PROVE  /\ Winner(s, a) = c
           /\ Owners(s)[a] = c
           /\ Merge(s)[a] = s[c].element[a]
<1>1. Holders(s, a) # {}
    BY DEF Beats
<1>2. Winner(s, a) = c
    BY <1>1, WinnerBeats, WinnerUnique
<1>3. QED
    BY <1>1, <1>2 DEF Owners, Merge

(* An attribute nobody carries is absent from the merge. *)
LEMMA NoHolder ==
    ASSUME NEW s, NEW a \in Attributes, Holders(s, a) = {}
    PROVE  Owners(s)[a] = Null /\ Merge(s)[a] = Null
BY DEF Owners, Merge

(* What Owners and Merge give for an attribute that somebody carries. *)
LEMMA OwnerFacts ==
    ASSUME NEW s \in ContributorMap, NEW a \in Attributes, Holders(s, a) # {}
    PROVE  /\ Beats(s, a, Owners(s)[a])
           /\ Owners(s)[a] \in Contributors
           /\ s[Owners(s)[a]] \in Snapshot
           /\ Merge(s)[a] = s[Owners(s)[a]].element[a]
           /\ Merge(s)[a] \in Values
<1>1. Beats(s, a, Winner(s, a))
    BY WinnerBeats
<1>2. Owners(s)[a] = Winner(s, a) /\ Merge(s)[a] = s[Winner(s, a)].element[a]
    BY DEF Owners, Merge
<1>3. /\ Winner(s, a) \in Contributors
      /\ s[Winner(s, a)] \in Snapshot
      /\ s[Winner(s, a)].element[a] # Null
    BY <1>1 DEF Beats, Holders, Present, ContributorMap
<1>4. s[Winner(s, a)].element[a] \in Values
    BY <1>3 DEF Snapshot, Element
<1>5. QED
    BY <1>1, <1>2, <1>3, <1>4

LEMMA MergeType ==
    ASSUME NEW s \in ContributorMap
    PROVE  Merge(s) \in Element /\ Owners(s) \in [Attributes -> Contributors \cup {Null}]
<1>1. ASSUME NEW a \in Attributes
      PROVE  Merge(s)[a] \in Values \cup {Null} /\ Owners(s)[a] \in Contributors \cup {Null}
    BY OwnerFacts, NoHolder
<1>2. /\ Merge(s) = [a \in Attributes |-> Merge(s)[a]]
      /\ Owners(s) = [a \in Attributes |-> Owners(s)[a]]
    BY DEF Merge, Owners
<1>3. QED
    BY <1>1, <1>2 DEF Element

(* The set of present contributors is finite. *)
LEMMA PresentFinite ==
    ASSUME NEW s
    PROVE  IsFiniteSet(Present(s)) /\ Cardinality(Present(s)) \in Nat
<1>1. Present(s) \in SUBSET Contributors
    BY DEF Present
<1>2. QED
    BY <1>1, ContributorsAssumption, FS_Subset, FS_CardinalityType

(* A rebuilt index is well typed, and AttributeWinners accepts it. *)
LEMMA RebuildType ==
    ASSUME NEW s \in ContributorMap
    PROVE  Rebuild(s) \in AttributeWinners
BY MergeType, PresentFinite DEF Rebuild, AttributeWinners

LEMMA RebuildValid ==
    ASSUME NEW s \in ContributorMap, Present(s) # {}
    PROVE  ValidIndex(Rebuild(s))
<1>1. Cardinality(Present(s)) > 0
    BY PresentFinite, FS_EmptySet
<1>2. ASSUME NEW a \in Attributes
      PROVE  Owners(s)[a] = Null <=> Merge(s)[a] = Null
    BY OwnerFacts, NoHolder, NullAssumption
<1>3. QED
    BY <1>1, <1>2 DEF ValidIndex, Rebuild

(* Every owner that observe reads has a snapshot. *)
LEMMA OwnersReadPresent ==
    ASSUME NEW s \in ContributorMap, NEW c, NEW snapshot,
           NEW d \in OwnersRead(Rebuild(s), c, snapshot)
    PROVE  s[d] # Null
<1>1. PICK a \in Attributes : d = Owners(s)[a] /\ d # Null
    BY DEF OwnersRead, Rebuild
<1>2. Holders(s, a) # {}
    BY <1>1, NoHolder
<1>3. QED
    BY <1>1, <1>2, OwnerFacts DEF Beats, Holders, Present

(***************************************************************************)
(* The incremental update is a rebuild.  If the contributor does not give  *)
(* up an attribute it owns, and its observation is not older than the one  *)
(* it replaces, then observe's index, computed from the old index and the  *)
(* snapshots of the challenged owners alone, is the index a rebuild from   *)
(* all the contributors gives.                                             *)
(***************************************************************************)
THEOREM ObserveIndexIsRebuild ==
    ASSUME NEW s \in ContributorMap, NEW c \in Contributors,
           NEW snapshot \in Snapshot,
           s[c] # Null => snapshot.observedAt >= s[c].observedAt,
           ~LosesAttribute(Rebuild(s), c, snapshot.element)
    PROVE  ObserveIndex(Rebuild(s), c, snapshot, s)
                = Rebuild([s EXCEPT ![c] = snapshot])
<1> DEFINE t == [s EXCEPT ![c] = snapshot]
           takes(a) == Takes(Rebuild(s), c, snapshot, s, a)
<1>1. /\ t \in ContributorMap
      /\ t[c] = snapshot
      /\ \A d \in Contributors \ {c} : t[d] = s[d]
      /\ snapshot # Null
    BY NullAssumption DEF ContributorMap
<1> HIDE DEF t
<1>2. ASSUME NEW a \in Attributes
      PROVE  /\ Owners(t)[a] = IF takes(a) THEN c ELSE Owners(s)[a]
             /\ Merge(t)[a] = IF takes(a) THEN snapshot.element[a] ELSE Merge(s)[a]
    <2>1. \A d \in Contributors \ {c} : d \in Holders(t, a) <=> d \in Holders(s, a)
        BY <1>1 DEF Holders, Present
    <2>2. c \in Holders(t, a) <=> snapshot.element[a] # Null
        BY <1>1 DEF Holders, Present
    <2>3. Holders(t, a) \subseteq Contributors /\ Holders(s, a) \subseteq Contributors
        BY DEF Holders, Present
    <2>4. Rebuild(s).owners = Owners(s)
        BY DEF Rebuild
    <2>5. takes(a) <=> /\ snapshot.element[a] # Null
                       /\ \/ Owners(s)[a] = Null
                          \/ Owners(s)[a] = c
                          \/ Wins(c, snapshot, Owners(s)[a], s[Owners(s)[a]])
        BY <2>4 DEF Takes
    <2>6. Owners(s)[a] = c => snapshot.element[a] # Null
        BY <2>4 DEF LosesAttribute
    <2>7. Holders(s, a) = {} <=> Owners(s)[a] = Null
        BY NoHolder, OwnerFacts, NullAssumption
    <2> HIDE DEF takes
    <2>8. CASE takes(a)
        <3>1. ASSUME NEW d \in Holders(t, a) \ {c}
              PROVE  Wins(c, t[c], d, t[d])
            <4>1. d \in Holders(s, a) /\ d \in Contributors /\ d # c
                BY <2>1, <2>3
            <4>2. t[d] = s[d] /\ t[c] = snapshot /\ s[d] \in Snapshot
                BY <1>1, <4>1 DEF Holders, Present, ContributorMap
            <4> DEFINE o == Owners(s)[a]
            <4>3. /\ o \in Contributors
                  /\ s[o] \in Snapshot
                  /\ Beats(s, a, o)
                BY <4>1, OwnerFacts
            <4>4. d = o \/ Wins(o, s[o], d, s[d])
                BY <4>1, <4>3 DEF Beats
            <4>5. o = c \/ Wins(c, snapshot, o, s[o])
                BY <2>5, <2>7, <2>8, <4>1
            <4>6. s[c] # Null \/ o # c
                BY <4>3 DEF Beats, Holders, Present
            <4>7. /\ s[o].observedAt \in Int
                  /\ s[d].observedAt \in Int
                  /\ snapshot.observedAt \in Int
                BY <4>2, <4>3 DEF Snapshot
            <4>8. o = c => snapshot.observedAt >= s[o].observedAt
                BY <4>6
            <4>9. c \in Nat /\ d \in Nat /\ o \in Nat
                BY <4>1, <4>3, ContributorsAssumption
            <4> HIDE DEF o
            <4>10. Wins(c, snapshot, d, s[d])
                BY <4>1, <4>4, <4>5, <4>7, <4>8, <4>9 DEF Wins
            <4>11. QED
                BY <4>2, <4>10
        <3>2. Beats(t, a, c)
            BY <2>2, <2>5, <2>8, <3>1 DEF Beats
        <3>3. QED
            BY <1>1, <2>8, <3>2, WinnerIs
    <2>9. CASE ~takes(a) /\ Holders(s, a) = {}
        <3>1. Holders(t, a) = {}
            BY <2>1, <2>2, <2>3, <2>5, <2>7, <2>9
        <3>2. QED
            BY <2>9, <3>1, NoHolder
    <2>10. CASE ~takes(a) /\ Holders(s, a) # {}
        <3> DEFINE o == Owners(s)[a]
        <3>1. /\ o \in Contributors
              /\ s[o] \in Snapshot
              /\ Beats(s, a, o)
              /\ Merge(s)[a] = s[o].element[a]
            BY <2>10, OwnerFacts
        <3>2. o # c
            BY <2>5, <2>6, <2>10
        <3> HIDE DEF o
        <3>3. o \in Holders(t, a) /\ t[o] = s[o]
            BY <1>1, <2>1, <3>1, <3>2 DEF Beats
        <3>4. ASSUME NEW d \in Holders(t, a) \ {o}
              PROVE  Wins(o, t[o], d, t[d])
            <4>1. CASE d = c
                <5>1. ~Wins(c, snapshot, o, s[o])
                    BY <2>2, <2>5, <2>10, <4>1 DEF o
                <5>2. s[o].observedAt \in Int /\ snapshot.observedAt \in Int
                    BY <3>1 DEF Snapshot
                <5>3. c \in Nat /\ o \in Nat
                    BY <3>1, ContributorsAssumption
                <5>4. Wins(o, s[o], c, snapshot)
                    BY <3>2, <5>1, <5>2, <5>3 DEF Wins
                <5>5. QED
                    BY <1>1, <3>3, <4>1, <5>4
            <4>2. CASE d # c
                <5>1. d \in Holders(s, a) \ {o} /\ t[d] = s[d]
                    BY <1>1, <2>1, <2>3, <4>2
                <5>2. QED
                    BY <3>1, <3>3, <5>1 DEF Beats
            <4>3. QED
                BY <4>1, <4>2
        <3>5. Beats(t, a, o)
            BY <3>3, <3>4 DEF Beats
        <3>6. Owners(t)[a] = o /\ Merge(t)[a] = t[o].element[a]
            BY <1>1, <3>5, WinnerIs
        <3>7. QED
            BY <2>10, <3>1, <3>3, <3>6 DEF o
    <2>11. QED
        BY <2>8, <2>9, <2>10
<1>3. Cardinality(Present(t)) =
        Cardinality(Present(s)) + (IF s[c] = Null THEN 1 ELSE 0)
    <2>1. Present(t) = Present(s) \cup {c}
        BY <1>1 DEF Present
    <2>2. c \in Present(s) <=> s[c] # Null
        BY DEF Present
    <2>3. Cardinality(Present(s) \cup {c}) =
            IF c \in Present(s) THEN Cardinality(Present(s))
                               ELSE Cardinality(Present(s)) + 1
        BY PresentFinite, FS_AddElement
    <2>4. QED
        BY <2>1, <2>2, <2>3, PresentFinite
<1>4. Owners(t) = [a \in Attributes |-> IF takes(a) THEN c ELSE Owners(s)[a]]
    BY <1>2 DEF Owners
<1>5. Merge(t) = [a \in Attributes |->
                    IF takes(a) THEN snapshot.element[a] ELSE Merge(s)[a]]
    BY <1>2 DEF Merge
<1>6. QED
    BY <1>3, <1>4, <1>5 DEF ObserveIndex, Rebuild, t

-----------------------------------------------------------------------------
(* Deadlines and timers *)

(* The snapshot of an observation outlives the watermark and the clock. *)
LEMMA SnapshotOfFacts ==
    ASSUME NEW o \in Contribution, NEW w \in Nat, NEW n \in Nat
    PROVE  /\ SnapshotOf(o, w, n) \in Snapshot
           /\ SnapshotOf(o, w, n).observedAt = o.observedAt
           /\ SnapshotOf(o, w, n).element = o.element
           /\ SnapshotOf(o, w, n).eventExpiresAt >= w + Ttl
           /\ SnapshotOf(o, w, n).eventExpiresAt >= o.observedAt + Ttl
           /\ SnapshotOf(o, w, n).processingExpiresAt = n + Ttl
<1>1. /\ o.observedAt \in 1 .. MaxEventTime
      /\ o.element \in Element
    BY DEF Contribution
<1>2. Ttl \in Nat /\ MaxEventTime \in Nat
    BY TimeAssumption
<1>3. QED
    BY <1>1, <1>2 DEF SnapshotOf, Snapshot

(* scheduleTimers asks for a wake-up no later than any rounded deadline. *)
LEMMA NextEventTimerFacts ==
    ASSUME NEW s \in ContributorMap, Present(s) # {}
    PROVE  /\ NextEventTimer(s) \in Nat
           /\ NextEventTimer(s) \in
                {CoalescedTimer(s[c].eventExpiresAt) : c \in Present(s)}
           /\ \A c \in Present(s) :
                NextEventTimer(s) <= CoalescedTimer(s[c].eventExpiresAt)
<1> DEFINE T == {CoalescedTimer(s[c].eventExpiresAt) : c \in Present(s)}
<1>1. \A c \in Present(s) : s[c].eventExpiresAt \in Nat
    BY DEF Present, ContributorMap, Snapshot
<1>2. T \in SUBSET Nat /\ T # {}
    BY <1>1, CoalescedTimerRoundsUp
<1>3. Min(T) \in T /\ \A n \in T : Min(T) <= n
    BY <1>2, MinOfNaturals
<1>4. NextEventTimer(s) = Min(T)
    BY DEF NextEventTimer
<1>5. QED
    BY <1>2, <1>3, <1>4

LEMMA NextProcessingTimerFacts ==
    ASSUME NEW s \in ContributorMap, Present(s) # {}
    PROVE  /\ NextProcessingTimer(s) \in Nat
           /\ \A c \in Present(s) :
                NextProcessingTimer(s) <= CoalescedTimer(s[c].processingExpiresAt)
<1> DEFINE T == {CoalescedTimer(s[c].processingExpiresAt) : c \in Present(s)}
<1>1. \A c \in Present(s) : s[c].processingExpiresAt \in Nat
    BY DEF Present, ContributorMap, Snapshot
<1>2. T \in SUBSET Nat /\ T # {}
    BY <1>1, CoalescedTimerRoundsUp
<1>3. Min(T) \in T /\ \A n \in T : Min(T) <= n
    BY <1>2, MinOfNaturals
<1>4. NextProcessingTimer(s) = Min(T)
    BY DEF NextProcessingTimer
<1>5. QED
    BY <1>2, <1>3, <1>4

LEMMA WithoutFacts ==
    ASSUME NEW s \in ContributorMap, NEW gone
    PROVE  /\ Without(s, gone) \in ContributorMap
           /\ Present(Without(s, gone)) = Present(s) \ gone
           /\ \A c \in Present(Without(s, gone)) : Without(s, gone)[c] = s[c]
BY DEF Without, ContributorMap, Present

-----------------------------------------------------------------------------
(* The operator ElementLifecycle *)

(***************************************************************************)
(* The inductive invariant.  None of its parts is inductive alone: the     *)
(* published element is compared through the hash in aggregate, the hash   *)
(* is kept or recomputed from the index, and the index is only right if it *)
(* was a rebuild before.                                                   *)
(***************************************************************************)
IInv == TypeOK /\ IndexIsRebuild /\ PublishedIsMerge /\ TimersArmed

-----------------------------------------------------------------------------
(* The pieces that several callbacks share *)

(* replaceTimer keeps the stored timer the only registered one. *)
LEMMA ReplacedIsStored ==
    ASSUME NEW previous, NEW deadline, NEW registered,
           registered = {previous} \ {Null}
    PROVE  Replaced(registered, previous, deadline) = {deadline} \ {Null}
BY DEF Replaced

(* An observation of Next is a contribution. *)
LEMMA ObservationIsContribution ==
    ASSUME NEW o \in Observations
    PROVE  o \in Contribution /\ o.contributorId \in Contributors
BY InputAssumption DEF Observations, Contribution

(* The merged element of a nonempty map is never mistaken for no hash. *)
LEMMA HashFacts ==
    ASSUME NEW s \in ContributorMap
    PROVE  /\ PayloadHash(Merge(s)) # Null
           /\ PayloadHash(Merge(s)) \in {PayloadHash(e) : e \in Element}
           /\ Upsert(Merge(s)) \in Event
           /\ Upsert(Merge(s)) # Null
BY MergeType, NullAssumption, NullEventAssumption DEF Event

LEMMA HashInjective ==
    ASSUME NEW e, NEW f, PayloadHash(e) = PayloadHash(f)
    PROVE  e = f
BY DEF PayloadHash

(* persistState leaves an index and a hash that agree with its argument. *)
LEMMA PersistStateFacts ==
    ASSUME NEW s \in ContributorMap, PersistState(s)
    PROVE  /\ contributors' = s
           /\ contributors' \in ContributorMap
           /\ aggregate' \in {PayloadHash(e) : e \in Element} \cup {Null}
           /\ winners' \in AttributeWinners \cup {Null}
           /\ IndexIsRebuild'
<1>1. contributors' = s
    BY DEF PersistState
<1>2. CASE Present(s) = {}
    BY <1>1, <1>2 DEF PersistState, IndexIsRebuild
<1>3. CASE Present(s) # {}
    BY <1>1, <1>3, HashFacts, RebuildType DEF PersistState, IndexIsRebuild
<1>4. QED
    BY <1>2, <1>3

(* scheduleTimers arms the timers of its argument. *)
LEMMA ScheduleTimersFacts ==
    ASSUME NEW s \in ContributorMap, contributors' = s,
           NEW event, NEW processing,
           ScheduleTimers(s, event, {event} \ {Null},
                          processing, {processing} \ {Null})
    PROVE  /\ eventTimer' = NextEventTimer(s)
           /\ eventTimer' \in Nat \cup {Null}
           /\ processingTimer' \in Nat \cup {Null}
           /\ eventTimers' \in SUBSET Nat
           /\ processingTimers' \in SUBSET Nat
           /\ TimersArmed'
<1>1. /\ eventTimer' = NextEventTimer(s)
      /\ processingTimer' = NextProcessingTimer(s)
      /\ eventTimers' = {eventTimer'} \ {Null}
      /\ processingTimers' = {processingTimer'} \ {Null}
    BY ReplacedIsStored DEF ScheduleTimers
<1>2. CASE Present(s) = {}
    <2>1. eventTimer' = Null /\ processingTimer' = Null
        BY <1>1, <1>2 DEF NextEventTimer, NextProcessingTimer
    <2>2. QED
        BY <1>1, <1>2, <2>1 DEF TimersArmed
<1>3. CASE Present(s) # {}
    <2>1. /\ eventTimer' \in Nat /\ processingTimer' \in Nat
          /\ \A c \in Present(s) :
                /\ eventTimer' <= CoalescedTimer(s[c].eventExpiresAt)
                /\ processingTimer' <= CoalescedTimer(s[c].processingExpiresAt)
        BY <1>1, <1>3, NextEventTimerFacts, NextProcessingTimerFacts
    <2>2. eventTimer' # Null /\ processingTimer' # Null
        BY <2>1, NullAssumption
    <2>3. QED
        BY <1>1, <1>3, <2>1, <2>2 DEF TimersArmed
<1>4. QED
    BY <1>2, <1>3

(* An upsert is collected exactly if the merge differs from the last one. *)
LEMMA CollectIfChangedFacts ==
    ASSUME IInv, Present(contributors) # {},
           NEW s \in ContributorMap, Present(s) # {}, contributors' = s,
           CollectIfChanged(Merge(s), aggregate)
    PROVE  /\ PublishedIsMerge'
           /\ published' \in Event \cup {Null}
           /\ output' \in Event \cup {Null}
<1>1. /\ published = Upsert(Merge(contributors))
      /\ aggregate = PayloadHash(Merge(contributors))
    BY DEF IInv, PublishedIsMerge, IndexIsRebuild
<1>2. CASE PayloadHash(Merge(s)) = aggregate
    <2>1. Merge(s) = Merge(contributors)
        BY <1>1, <1>2, HashInjective
    <2>2. published' = published /\ output' = Null
        BY <1>2 DEF CollectIfChanged, CollectNothing
    <2>3. QED
        BY <1>1, <2>1, <2>2, HashFacts DEF PublishedIsMerge
<1>3. CASE PayloadHash(Merge(s)) # aggregate
    <2>1. published' = Upsert(Merge(s)) /\ output' = Upsert(Merge(s))
        BY <1>3 DEF CollectIfChanged, Collect
    <2>2. QED
        BY <2>1, HashFacts DEF PublishedIsMerge
<1>4. QED
    BY <1>2, <1>3

-----------------------------------------------------------------------------
(* Initial states *)

LEMMA InitEstablishes == Init => IInv
<1> SUFFICES ASSUME Init PROVE IInv
    OBVIOUS
<1>1. contributors \in ContributorMap
    BY InputAssumption DEF Init, ContributorMap, NoContributors
<1>2. /\ MaxEventTime \in Nat
      /\ MaxProcessingTime \in Nat
    BY TimeAssumption, ClockAssumption
<1>3. IndexIsRebuild /\ PublishedIsMerge
    BY <1>1, HashFacts DEF Init, IndexIsRebuild, PublishedIsMerge
<1>4. CASE Present(contributors) = {}
    <2>1. eventTimer = Null /\ processingTimer = Null
        BY <1>4 DEF Init, NextEventTimer, NextProcessingTimer
    <2>2. TimersArmed
        BY <1>4, <2>1 DEF Init, TimersArmed
    <2>3. TypeOK
        BY <1>1, <1>2, <1>4, <2>1 DEF Init, TypeOK
    <2>4. QED
        BY <1>3, <2>2, <2>3 DEF IInv
<1>5. CASE Present(contributors) # {}
    <2>1. /\ eventTimer \in Nat /\ processingTimer \in Nat
          /\ \A c \in Present(contributors) :
                /\ eventTimer <= CoalescedTimer(contributors[c].eventExpiresAt)
                /\ processingTimer <=
                        CoalescedTimer(contributors[c].processingExpiresAt)
        BY <1>1, <1>5, NextEventTimerFacts, NextProcessingTimerFacts DEF Init
    <2>2. eventTimer # Null /\ processingTimer # Null
        BY <2>1, NullAssumption
    <2>3. eventTimers = {eventTimer} \ {Null} /\ processingTimers = {processingTimer} \ {Null}
        BY DEF Init
    <2>4. TimersArmed
        BY <1>5, <2>1, <2>2, <2>3 DEF TimersArmed
    <2>5. /\ aggregate \in {PayloadHash(e) : e \in Element}
          /\ published \in Event
        BY <1>1, <1>5, HashFacts DEF Init
    <2>6. /\ winners = Null /\ output = Null
          /\ watermark = 0 /\ now = 0
        BY DEF Init
    <2>7. TypeOK
        BY <1>1, <1>2, <2>1, <2>3, <2>5, <2>6 DEF TypeOK
    <2>8. QED
        BY <1>3, <2>4, <2>7 DEF IInv
<1>6. QED
    BY <1>4, <1>5

-----------------------------------------------------------------------------
(* processElement *)

(* The index that observe starts from, and the one it arrives at. *)
LEMMA NextIndexIsRebuild ==
    ASSUME IInv, NEW o \in Observations,
           ~IsOlder(o), ~Loses(o),
           NEW snapshot \in Snapshot,
           snapshot.observedAt = o.observedAt, snapshot.element = o.element
    PROVE  NextIndex(o, snapshot) =
                Rebuild([contributors EXCEPT ![o.contributorId] = snapshot])
<1> DEFINE c == o.contributorId
<1>1. c \in Contributors /\ contributors \in ContributorMap
      /\ o.observedAt \in Int
    BY ObservationIsContribution DEF IInv, TypeOK, Contribution
<1>2. CASE Present(contributors) = {}
    <2>1. Index = Null
        BY <1>2 DEF IInv, IndexIsRebuild, Index
    <2>2. contributors = NoContributors
        BY <1>1, <1>2 DEF Present, NoContributors, ContributorMap
    <2>3. QED
        BY <2>1, <2>2 DEF NextIndex
<1>3. CASE Present(contributors) # {}
    <2>1. Index = Rebuild(contributors)
        BY <1>1, <1>3, HashFacts DEF IInv, IndexIsRebuild, Index
    <2>2. Index # Null
        BY <1>1, <2>1, RebuildType, NullAssumption
    <2>3. ~LosesAttribute(Rebuild(contributors), c, snapshot.element)
        BY <2>1, <2>2 DEF Loses
    <2>4. contributors[c] # Null =>
            snapshot.observedAt >= contributors[c].observedAt
        <3>1. contributors[c] # Null => contributors[c].observedAt \in Int
            BY <1>1 DEF ContributorMap, Snapshot
        <3>2. QED
            BY <1>1, <3>1 DEF IsOlder
    <2>5. ObserveIndex(Rebuild(contributors), c, snapshot, contributors)
            = Rebuild([contributors EXCEPT ![c] = snapshot])
        BY <1>1, <2>3, <2>4, ObserveIndexIsRebuild
    <2>6. QED
        BY <2>1, <2>2, <2>5 DEF NextIndex
<1>4. QED
    BY <1>2, <1>3

(* advanceTimer: the result is no later than the old timer or the deadline. *)
LEMMA AdvancedFacts ==
    ASSUME NEW previous \in Nat \cup {Null}, NEW deadline \in Nat
    PROVE  /\ Advanced(previous, deadline) \in Nat
           /\ Advanced(previous, deadline) # Null
           /\ Advanced(previous, deadline) <= deadline
           /\ previous # Null => Advanced(previous, deadline) <= previous
           /\ \/ Advanced(previous, deadline) = deadline
              \/ previous # Null /\ Advanced(previous, deadline) = previous
BY NullAssumption DEF Advanced

(* The new snapshot's wake-up is armed and no other one is put off. *)
LEMMA AdvanceTimersFacts ==
    ASSUME IInv, NEW c \in Contributors, NEW snapshot \in Snapshot,
           contributors' = [contributors EXCEPT ![c] = snapshot],
           AdvanceTimers(snapshot)
    PROVE  /\ eventTimer' \in Nat
           /\ processingTimer' \in Nat
           /\ eventTimers' \in SUBSET Nat
           /\ processingTimers' \in SUBSET Nat
           /\ TimersArmed'
<1> DEFINE de == CoalescedTimer(snapshot.eventExpiresAt)
           dp == CoalescedTimer(snapshot.processingExpiresAt)
<1>1. /\ de \in Nat /\ dp \in Nat
      /\ eventTimer \in Nat \cup {Null} /\ processingTimer \in Nat \cup {Null}
      /\ contributors \in ContributorMap
    BY CoalescedTimerRoundsUp DEF Snapshot, IInv, TypeOK
<1>2. /\ eventTimer' = Advanced(eventTimer, de)
      /\ processingTimer' = Advanced(processingTimer, dp)
      /\ eventTimers' = Replaced(eventTimers, eventTimer, eventTimer')
      /\ processingTimers' =
            Replaced(processingTimers, processingTimer, processingTimer')
    BY DEF AdvanceTimers
<1>3. /\ eventTimers' = {eventTimer'} \ {Null}
      /\ processingTimers' = {processingTimer'} \ {Null}
    BY <1>2, ReplacedIsStored DEF IInv, TimersArmed
<1>4. /\ eventTimer' \in Nat /\ eventTimer' # Null /\ eventTimer' <= de
      /\ eventTimer # Null => eventTimer' <= eventTimer
      /\ processingTimer' \in Nat /\ processingTimer' # Null /\ processingTimer' <= dp
      /\ processingTimer # Null => processingTimer' <= processingTimer
    BY <1>1, <1>2, AdvancedFacts
<1>5. ASSUME NEW d \in Present(contributors')
      PROVE  /\ eventTimer' <= CoalescedTimer(contributors'[d].eventExpiresAt)
             /\ processingTimer' <=
                    CoalescedTimer(contributors'[d].processingExpiresAt)
    <2>1. CASE d = c
        <3>1. contributors'[d] = snapshot
            BY <1>1, <2>1 DEF ContributorMap
        <3>2. QED
            BY <1>4, <3>1
    <2>2. CASE d # c
        <3>1. d \in Present(contributors) /\ contributors'[d] = contributors[d]
              /\ contributors[d] \in Snapshot
            BY <1>1, <2>2 DEF Present, ContributorMap
        <3>2. /\ CoalescedTimer(contributors[d].eventExpiresAt) \in Nat
              /\ CoalescedTimer(contributors[d].processingExpiresAt) \in Nat
            BY <3>1, CoalescedTimerRoundsUp DEF Snapshot
        <3>3. /\ eventTimer # Null /\ processingTimer # Null
              /\ eventTimer <= CoalescedTimer(contributors[d].eventExpiresAt)
              /\ processingTimer <=
                    CoalescedTimer(contributors[d].processingExpiresAt)
            BY <3>1 DEF IInv, TimersArmed
        <3>4. QED
            BY <1>1, <1>4, <3>1, <3>2, <3>3
    <2>3. QED
        BY <2>1, <2>2
<1>6. c \in Present(contributors')
    BY <1>1, NullAssumption DEF Present, ContributorMap
<1>7. TimersArmed'
    BY <1>3, <1>4, <1>5, <1>6 DEF TimersArmed
<1>8. QED
    BY <1>3, <1>4, <1>7

LEMMA IncrementalPreserves ==
    ASSUME IInv, NEW o \in Observations, NEW snapshot \in Snapshot,
           snapshot.observedAt = o.observedAt, snapshot.element = o.element,
           ObserveIncrementally(o, snapshot)
    PROVE  IInv'
<1> DEFINE c == o.contributorId
           t == [contributors EXCEPT ![c] = snapshot]
           index == NextIndex(o, snapshot)
           hash == IF winners # Null /\ index.element = winners.element
                    THEN aggregate ELSE PayloadHash(index.element)
<1>1. /\ c \in Contributors
      /\ contributors \in ContributorMap
      /\ t \in ContributorMap
      /\ Present(t) # {}
    BY ObservationIsContribution, NullAssumption
       DEF IInv, TypeOK, ContributorMap, Present
<1>2. /\ ~IsOlder(o) /\ ~Loses(o)
      /\ contributors' = t
      /\ winners' = index
      /\ aggregate' = hash
      /\ AdvanceTimers(snapshot)
      /\ IF hash = aggregate THEN CollectNothing
                             ELSE Collect(Upsert(index.element))
      /\ UNCHANGED clocks
    BY DEF ObserveIncrementally
<1>3. index = Rebuild(t)
    BY <1>2, NextIndexIsRebuild
<1>4. index.element = Merge(t)
    BY <1>3 DEF Rebuild
<1> HIDE DEF index
<1>5. hash = PayloadHash(Merge(t))
    <2>1. CASE winners # Null /\ index.element = winners.element
        <3>1. winners.element = Merge(contributors)
            BY <2>1 DEF IInv, IndexIsRebuild, Rebuild
        <3>2. aggregate = PayloadHash(Merge(contributors))
            BY <2>1 DEF IInv, IndexIsRebuild
        <3>3. QED
            BY <1>4, <2>1, <3>1, <3>2
    <2>2. CASE ~(winners # Null /\ index.element = winners.element)
        BY <1>4, <2>2
    <2>3. QED
        BY <2>1, <2>2
<1> HIDE DEF hash, t
<1>6. IndexIsRebuild'
    BY <1>1, <1>2, <1>3, <1>5 DEF IndexIsRebuild
<1>7. PublishedIsMerge' /\ published' \in Event \cup {Null} /\ output' \in Event \cup {Null}
    <2>1. CASE hash = aggregate
        <3>1. Present(contributors) # {}
            BY <1>1, <1>5, <2>1, HashFacts DEF IInv, IndexIsRebuild
        <3>2. /\ published = Upsert(Merge(contributors))
              /\ aggregate = PayloadHash(Merge(contributors))
            BY <3>1 DEF IInv, IndexIsRebuild, PublishedIsMerge
        <3>3. Merge(t) = Merge(contributors)
            BY <1>5, <2>1, <3>2, HashInjective
        <3>4. published' = published /\ output' = Null
            BY <1>2, <2>1 DEF CollectNothing
        <3>5. published \in Event \cup {Null}
            BY DEF IInv, TypeOK
        <3>6. QED
            BY <1>1, <1>2, <3>2, <3>3, <3>4, <3>5 DEF PublishedIsMerge
    <2>2. CASE hash # aggregate
        <3>1. published' = Upsert(Merge(t)) /\ output' = Upsert(Merge(t))
            BY <1>2, <1>4, <2>2 DEF Collect
        <3>2. QED
            BY <1>1, <1>2, <3>1, HashFacts DEF PublishedIsMerge
    <2>3. QED
        BY <2>1, <2>2
<1>8. /\ eventTimer' \in Nat
      /\ processingTimer' \in Nat
      /\ eventTimers' \in SUBSET Nat
      /\ processingTimers' \in SUBSET Nat
      /\ TimersArmed'
    BY <1>1, <1>2, AdvanceTimersFacts DEF t
<1>9. TypeOK'
    <2>1. /\ aggregate' \in {PayloadHash(e) : e \in Element}
          /\ winners' \in AttributeWinners
        BY <1>1, <1>2, <1>3, <1>5, HashFacts, RebuildType
    <2>2. /\ watermark' \in 0 .. MaxEventTime
          /\ now' \in 0 .. MaxProcessingTime
        BY <1>2 DEF clocks, IInv, TypeOK
    <2>3. QED
        BY <1>1, <1>2, <1>7, <1>8, <2>1, <2>2 DEF TypeOK
<1>10. QED
    BY <1>6, <1>7, <1>8, <1>9 DEF IInv

LEMMA RebuildPreserves ==
    ASSUME IInv, NEW o \in Observations, NEW snapshot \in Snapshot,
           ObserveWithRebuild(o, snapshot)
    PROVE  IInv'
<1> DEFINE t == [contributors EXCEPT ![o.contributorId] = snapshot]
<1>1. /\ contributors \in ContributorMap
      /\ t \in ContributorMap
      /\ Present(t) # {}
    BY ObservationIsContribution, NullAssumption
       DEF IInv, TypeOK, ContributorMap, Present
<1>2. /\ Loses(o)
      /\ PersistState(t)
      /\ ScheduleTimers(t, eventTimer, eventTimers,
                        processingTimer, processingTimers)
      /\ CollectIfChanged(Merge(t), aggregate)
      /\ UNCHANGED clocks
    BY DEF ObserveWithRebuild
<1> HIDE DEF t
<1>3. Present(contributors) # {}
    BY <1>2 DEF Loses, Index, IInv, IndexIsRebuild
<1>4. /\ contributors' = t
      /\ contributors' \in ContributorMap
      /\ aggregate' \in {PayloadHash(e) : e \in Element} \cup {Null}
      /\ winners' \in AttributeWinners \cup {Null}
      /\ IndexIsRebuild'
    BY <1>1, <1>2, PersistStateFacts
<1>5. eventTimers = {eventTimer} \ {Null} /\ processingTimers = {processingTimer} \ {Null}
    BY DEF IInv, TimersArmed
<1>6. /\ eventTimer' \in Nat \cup {Null}
      /\ processingTimer' \in Nat \cup {Null}
      /\ eventTimers' \in SUBSET Nat
      /\ processingTimers' \in SUBSET Nat
      /\ TimersArmed'
    BY <1>1, <1>2, <1>4, <1>5, ScheduleTimersFacts
<1>7. /\ PublishedIsMerge'
      /\ published' \in Event \cup {Null}
      /\ output' \in Event \cup {Null}
    BY <1>1, <1>2, <1>3, <1>4, CollectIfChangedFacts
<1>8. /\ watermark' \in 0 .. MaxEventTime
      /\ now' \in 0 .. MaxProcessingTime
    BY <1>2 DEF clocks, IInv, TypeOK
<1>9. QED
    BY <1>4, <1>6, <1>7, <1>8 DEF IInv, TypeOK

LEMMA ProcessElementPreserves ==
    ASSUME IInv, NEW o \in Observations, ProcessElement(o)
    PROVE  IInv'
<1> DEFINE snapshot == SnapshotOf(o, watermark, now)
<1>1. /\ snapshot \in Snapshot
      /\ snapshot.observedAt = o.observedAt
      /\ snapshot.element = o.element
    <2>1. watermark \in Nat /\ now \in Nat
        BY TimeAssumption, ClockAssumption DEF IInv, TypeOK
    <2>2. o \in Contribution
        BY ObservationIsContribution
    <2>3. QED
        BY <2>1, <2>2, SnapshotOfFacts
<1>2. \/ IgnoreOlder(o)
      \/ ObserveIncrementally(o, snapshot)
      \/ ObserveWithRebuild(o, snapshot)
    BY DEF ProcessElement
<1> HIDE DEF snapshot
<1>3. CASE IgnoreOlder(o)
    BY <1>3, NullEventAssumption
       DEF IgnoreOlder, CollectNothing, state, timers, clocks, IInv, TypeOK,
           IndexIsRebuild, PublishedIsMerge, TimersArmed
<1>4. CASE ObserveIncrementally(o, snapshot)
    BY <1>1, <1>4, IncrementalPreserves
<1>5. CASE ObserveWithRebuild(o, snapshot)
    BY <1>1, <1>5, RebuildPreserves
<1>6. QED
    BY <1>2, <1>3, <1>4, <1>5

-----------------------------------------------------------------------------
(* onTimer *)

LEMMA ExpirePreserves ==
    ASSUME IInv, Present(contributors) # {},
           NEW gone \in SUBSET Present(contributors),
           NEW event, NEW processing,
           ExpireContributors(gone, event, {event} \ {Null},
                              processing, {processing} \ {Null})
    PROVE  IInv'
<1> DEFINE s == Without(contributors, gone)
<1>1. /\ contributors \in ContributorMap
      /\ s \in ContributorMap
      /\ Present(s) = Present(contributors) \ gone
    BY WithoutFacts DEF IInv, TypeOK
<1>2. /\ ScheduleTimers(s, event, {event} \ {Null},
                        processing, {processing} \ {Null})
      /\ IF gone = {}
            THEN CollectNothing /\ UNCHANGED state
            ELSE /\ PersistState(s)
                 /\ IF Present(s) = {}
                        THEN Collect(Delete)
                        ELSE CollectIfChanged(Merge(s), aggregate)
      /\ UNCHANGED clocks
    BY DEF ExpireContributors
<1>3. gone = {} => s = contributors
    BY <1>1 DEF Without, ContributorMap
<1> HIDE DEF s
<1>4. contributors' = s
    BY <1>1, <1>2, <1>3, PersistStateFacts DEF state
<1>5. /\ eventTimer' \in Nat \cup {Null}
      /\ processingTimer' \in Nat \cup {Null}
      /\ eventTimers' \in SUBSET Nat
      /\ processingTimers' \in SUBSET Nat
      /\ TimersArmed'
    BY <1>1, <1>2, <1>4, ScheduleTimersFacts
<1>6. /\ watermark' \in 0 .. MaxEventTime
      /\ now' \in 0 .. MaxProcessingTime
    BY <1>2 DEF clocks, IInv, TypeOK
<1>7. CASE gone = {}
    <2>1. /\ aggregate' = aggregate /\ winners' = winners
          /\ contributors' = contributors
          /\ published' = published /\ output' = Null
        BY <1>2, <1>7 DEF state, CollectNothing
    <2>2. QED
        BY <1>5, <1>6, <2>1
           DEF IInv, TypeOK, IndexIsRebuild, PublishedIsMerge
<1>8. CASE gone # {}
    <2>1. /\ contributors' \in ContributorMap
          /\ aggregate' \in {PayloadHash(e) : e \in Element} \cup {Null}
          /\ winners' \in AttributeWinners \cup {Null}
          /\ IndexIsRebuild'
        BY <1>1, <1>2, <1>8, PersistStateFacts
    <2>2. /\ PublishedIsMerge'
          /\ published' \in Event \cup {Null}
          /\ output' \in Event \cup {Null}
        <3>1. CASE Present(s) = {}
            <4>1. published' = Delete /\ output' = Delete
                BY <1>2, <1>8, <3>1 DEF Collect
            <4>2. QED
                BY <1>4, <3>1, <4>1 DEF PublishedIsMerge, Event
        <3>2. CASE Present(s) # {}
            BY <1>1, <1>2, <1>4, <1>8, <3>2, CollectIfChangedFacts
        <3>3. QED
            BY <3>1, <3>2
    <2>3. QED
        BY <1>5, <1>6, <2>1, <2>2 DEF IInv, TypeOK
<1>9. QED
    BY <1>7, <1>8

LEMMA OnEventTimerPreserves ==
    ASSUME IInv, NEW timestamp \in eventTimers, OnEventTimer(timestamp)
    PROVE  IInv'
<1>1. /\ eventTimers = {eventTimer} \ {Null}
      /\ processingTimers = {processingTimer} \ {Null}
      /\ Present(contributors) = {} => eventTimer = Null
    BY DEF IInv, TimersArmed
<1>2. Present(contributors) # {}
    BY <1>1
<1>3. aggregate # Null
    BY <1>2 DEF OnEventTimer, LoadStateThrows
<1>4. eventTimers \ {timestamp} = {Null} \ {Null}
    BY <1>1
<1>5. EventExpired(contributors, timestamp) \in SUBSET Present(contributors)
    BY DEF EventExpired
<1>6. ExpireContributors(EventExpired(contributors, timestamp),
            Null, {Null} \ {Null}, processingTimer, {processingTimer} \ {Null})
    BY <1>1, <1>3, <1>4 DEF OnEventTimer
<1>7. QED
    BY <1>2, <1>5, <1>6, ExpirePreserves

LEMMA OnProcessingTimerPreserves ==
    ASSUME IInv, NEW timestamp \in processingTimers, OnProcessingTimer(timestamp)
    PROVE  IInv'
<1>1. /\ eventTimers = {eventTimer} \ {Null}
      /\ processingTimers = {processingTimer} \ {Null}
      /\ Present(contributors) = {} => processingTimer = Null
    BY DEF IInv, TimersArmed
<1>2. Present(contributors) # {}
    BY <1>1
<1>3. aggregate # Null
    BY <1>2 DEF OnProcessingTimer, LoadStateThrows
<1>4. processingTimers \ {timestamp} = {Null} \ {Null}
    BY <1>1
<1>5. ProcessingExpired(contributors, timestamp) \in SUBSET Present(contributors)
    BY DEF ProcessingExpired
<1>6. ExpireContributors(ProcessingExpired(contributors, timestamp),
            eventTimer, {eventTimer} \ {Null}, Null, {Null} \ {Null})
    BY <1>1, <1>3, <1>4 DEF OnProcessingTimer
<1>7. QED
    BY <1>2, <1>5, <1>6, ExpirePreserves

-----------------------------------------------------------------------------
(* The invariant *)

LEMMA StepPreserves == IInv /\ [Next]_vars => IInv'
<1> SUFFICES ASSUME IInv, [Next]_vars PROVE IInv'
    OBVIOUS
<1>1. ASSUME NEW o \in Observations, ProcessElement(o) PROVE IInv'
    BY <1>1, ProcessElementPreserves
<1>2. ASSUME OnTimer PROVE IInv'
    BY <1>2, OnEventTimerPreserves DEF OnTimer
<1>3. ASSUME OnFallbackTimer PROVE IInv'
    BY <1>3, OnProcessingTimerPreserves DEF OnFallbackTimer
<1>4. ASSUME AdvanceWatermark PROVE IInv'
    BY <1>4, TimeAssumption
       DEF AdvanceWatermark, state, timers, IInv, TypeOK, IndexIsRebuild,
           PublishedIsMerge, TimersArmed
<1>5. ASSUME Tick PROVE IInv'
    BY <1>5, ClockAssumption
       DEF Tick, state, timers, IInv, TypeOK, IndexIsRebuild,
           PublishedIsMerge, TimersArmed
<1>6. ASSUME UNCHANGED vars PROVE IInv'
    BY <1>6 DEF vars, IInv, TypeOK, IndexIsRebuild, PublishedIsMerge, TimersArmed
<1>7. QED
    BY <1>1, <1>2, <1>3, <1>4, <1>5, <1>6 DEF Next, Quiescent

(* The whole invariant holds in every reachable state. *)
THEOREM Invariance == Spec => []IInv
BY InitEstablishes, StepPreserves, PTL DEF Spec

(* Every variable keeps its type. *)
THEOREM TypeCorrect == Spec => []TypeOK
<1>1. IInv => TypeOK
    BY DEF IInv
<1>2. QED
    BY <1>1, Invariance, PTL

(* AttributeWinners, updated from point reads, is always a full rebuild. *)
THEOREM IndexCorrect == Spec => []IndexIsRebuild
<1>1. IInv => IndexIsRebuild
    BY DEF IInv
<1>2. QED
    BY <1>1, Invariance, PTL

(* The last event of the element carries the merge of its contributors. *)
THEOREM PublishedCorrect == Spec => []PublishedIsMerge
<1>1. IInv => PublishedIsMerge
    BY DEF IInv
<1>2. QED
    BY <1>1, Invariance, PTL

(* One registered timer per domain, early enough for every contributor. *)
THEOREM TimersCorrect == Spec => []TimersArmed
<1>1. IInv => TimersArmed
    BY DEF IInv
<1>2. QED
    BY <1>1, Invariance, PTL

-----------------------------------------------------------------------------
(* Consequences of the invariant *)

LEMMA NothingOverdue == IInv => NoOverdueContributor
<1> SUFFICES ASSUME IInv, ~EventTimerDue, NEW c \in Present(contributors)
             PROVE  CoalescedTimer(contributors[c].eventExpiresAt) > watermark
    BY DEF NoOverdueContributor
<1>1. /\ eventTimer # Null
      /\ eventTimers = {eventTimer} \ {Null}
      /\ eventTimer <= CoalescedTimer(contributors[c].eventExpiresAt)
    BY DEF IInv, TimersArmed
<1>2. eventTimer \in Nat /\ watermark \in Nat
    BY <1>1, TimeAssumption DEF IInv, TypeOK
<1>3. CoalescedTimer(contributors[c].eventExpiresAt) \in Nat
    BY CoalescedTimerRoundsUp
       DEF IInv, TypeOK, Present, ContributorMap, Snapshot
<1>4. eventTimer > watermark
    BY <1>1, <1>2 DEF EventTimerDue
<1>5. QED
    BY <1>1, <1>2, <1>3, <1>4

(* No contributor outlives a watermark beyond its rounded deadline. *)
THEOREM OverdueCorrect == Spec => []NoOverdueContributor
BY NothingOverdue, Invariance, PTL

LEMMA NothingThrown == IInv => NeverThrows
<1> SUFFICES ASSUME IInv PROVE NeverThrows
    OBVIOUS
<1>1. contributors \in ContributorMap
    BY DEF IInv, TypeOK
<1>2. ~LoadStateThrows
    BY <1>1, HashFacts DEF LoadStateThrows, IInv, IndexIsRebuild
<1>3. winners # Null => aggregate # Null
    BY <1>1, HashFacts DEF IInv, IndexIsRebuild
<1>4. ASSUME NEW o \in Observations, ~IsOlder(o)
      PROVE  ~ObserveThrows(o, SnapshotOf(o, watermark, now))
    <2> DEFINE snapshot == SnapshotOf(o, watermark, now)
               t == [contributors EXCEPT ![o.contributorId] = snapshot]
    <2>1. /\ snapshot \in Snapshot
          /\ snapshot.observedAt = o.observedAt
          /\ snapshot.element = o.element
        <3>1. watermark \in Nat /\ now \in Nat
            BY TimeAssumption, ClockAssumption DEF IInv, TypeOK
        <3>2. QED
            BY <3>1, ObservationIsContribution, SnapshotOfFacts
    <2> HIDE DEF snapshot
    <2>2. t \in ContributorMap /\ Present(t) # {}
        BY <1>1, <2>1, ObservationIsContribution, NullAssumption
           DEF ContributorMap, Present
    <2>3. ~Loses(o) => ValidIndex(NextIndex(o, snapshot))
        BY <1>4, <2>1, <2>2, NextIndexIsRebuild, RebuildValid
    <2>4. ~MissingOwner(o, snapshot)
        <3>1. Index # Null => Index = Rebuild(contributors)
            BY DEF Index, IInv, IndexIsRebuild
        <3>2. QED
            BY <1>1, <3>1, OwnersReadPresent DEF MissingOwner
    <2>5. QED
        BY <1>2, <1>3, <2>3, <2>4 DEF ObserveThrows, snapshot
<1>5. QED
    BY <1>2, <1>4 DEF NeverThrows

(* No callback of the operator raises an exception. *)
THEOREM NoException == Spec => []NeverThrows
BY NothingThrown, Invariance, PTL

-----------------------------------------------------------------------------
(* Timers are registered ahead of the watermark *)

(* scheduleTimers after every present deadline is ahead of the watermark. *)
LEMMA ScheduledAhead ==
    ASSUME IInv, NEW s \in ContributorMap,
           \A c \in Present(s) :
                CoalescedTimer(s[c].eventExpiresAt) > watermark,
           NEW eventSet, \A t \in eventSet : ~(t <= watermark),
           NEW event, NEW processing, NEW processingSet,
           ScheduleTimers(s, event, eventSet, processing, processingSet),
           watermark' = watermark
    PROVE  ~EventTimerDue'
<1>1. eventTimers' \subseteq eventSet \cup ({NextEventTimer(s)} \ {Null})
    BY DEF ScheduleTimers, Replaced
<1>2. watermark \in Nat
    BY TimeAssumption DEF IInv, TypeOK
<1>3. ASSUME NextEventTimer(s) # Null PROVE ~(NextEventTimer(s) <= watermark)
    <2>1. Present(s) # {}
        BY <1>3 DEF NextEventTimer
    <2>2. /\ NextEventTimer(s) \in Nat
          /\ NextEventTimer(s) \in
                {CoalescedTimer(s[c].eventExpiresAt) : c \in Present(s)}
        BY <2>1, NextEventTimerFacts
    <2>3. QED
        BY <1>2, <2>2
<1>4. QED
    BY <1>1, <1>3 DEF EventTimerDue

(* A snapshot taken now has its event deadline ahead of the watermark. *)
LEMMA SnapshotAhead ==
    ASSUME IInv, NEW o \in Observations
    PROVE  /\ SnapshotOf(o, watermark, now) \in Snapshot
           /\ CoalescedTimer(SnapshotOf(o, watermark, now).eventExpiresAt) \in Nat
           /\ CoalescedTimer(SnapshotOf(o, watermark, now).eventExpiresAt) > watermark
<1> DEFINE e == SnapshotOf(o, watermark, now).eventExpiresAt
<1>1. watermark \in Nat /\ now \in Nat
    BY TimeAssumption, ClockAssumption DEF IInv, TypeOK
<1>2. SnapshotOf(o, watermark, now) \in Snapshot /\ e >= watermark + Ttl
    BY <1>1, ObservationIsContribution, SnapshotOfFacts
<1>3. e \in Nat
    BY <1>2 DEF Snapshot
<1>4. CoalescedTimer(e) \in Nat /\ CoalescedTimer(e) >= e
    BY <1>3, CoalescedTimerRoundsUp
<1>5. Ttl \in Nat \ {0}
    BY TimeAssumption
<1> HIDE DEF e
<1>6. CoalescedTimer(e) > watermark
    BY <1>1, <1>2, <1>3, <1>4, <1>5
<1>7. QED
    BY <1>2, <1>4, <1>6 DEF e

LEMMA StepKeepsTimersAhead ==
    ASSUME IInv, [Next]_vars, ~EventTimerDue, watermark' = watermark
    PROVE  ~EventTimerDue'
<1>1. /\ contributors \in ContributorMap
      /\ watermark \in Nat
      /\ \A t \in eventTimers : ~(t <= watermark)
      /\ \A c \in Present(contributors) :
            CoalescedTimer(contributors[c].eventExpiresAt) > watermark
    BY NothingOverdue, TimeAssumption
       DEF IInv, TypeOK, EventTimerDue, NoOverdueContributor
<1>2. UNCHANGED eventTimers => ~EventTimerDue'
    BY <1>1 DEF EventTimerDue
<1>3. ASSUME NEW o \in Observations, ProcessElement(o) PROVE ~EventTimerDue'
    <2> DEFINE snapshot == SnapshotOf(o, watermark, now)
    <2>1. /\ snapshot \in Snapshot
          /\ CoalescedTimer(snapshot.eventExpiresAt) \in Nat
          /\ CoalescedTimer(snapshot.eventExpiresAt) > watermark
        BY SnapshotAhead
    <2>2. \/ IgnoreOlder(o)
          \/ ObserveIncrementally(o, snapshot)
          \/ ObserveWithRebuild(o, snapshot)
        BY <1>3 DEF ProcessElement
    <2> HIDE DEF snapshot
    <2>3. CASE IgnoreOlder(o)
        BY <1>2, <2>3 DEF IgnoreOlder, timers
    <2>4. CASE ObserveIncrementally(o, snapshot)
        <3> DEFINE deadline == CoalescedTimer(snapshot.eventExpiresAt)
        <3>1. eventTimers' =
                Replaced(eventTimers, eventTimer, Advanced(eventTimer, deadline))
            BY <2>4 DEF ObserveIncrementally, AdvanceTimers
        <3>2. /\ eventTimer \in Nat \cup {Null}
              /\ eventTimers = {eventTimer} \ {Null}
            BY DEF IInv, TypeOK, TimersArmed
        <3>3. eventTimers' = {Advanced(eventTimer, deadline)} \ {Null}
            BY <3>1, <3>2, ReplacedIsStored
        <3>4. \/ Advanced(eventTimer, deadline) = deadline
              \/ Advanced(eventTimer, deadline) \in eventTimers
            BY <2>1, <3>2, AdvancedFacts
        <3>5. QED
            BY <1>1, <2>1, <3>3, <3>4 DEF EventTimerDue
    <2>5. CASE ObserveWithRebuild(o, snapshot)
        <3> DEFINE t == [contributors EXCEPT ![o.contributorId] = snapshot]
        <3>1. t \in ContributorMap
            BY <1>1, <2>1 DEF ContributorMap
        <3>2. \A c \in Present(t) : CoalescedTimer(t[c].eventExpiresAt) > watermark
            BY <1>1, <2>1 DEF Present, ContributorMap
        <3>3. ScheduleTimers(t, eventTimer, eventTimers,
                             processingTimer, processingTimers)
            BY <2>5 DEF ObserveWithRebuild
        <3> HIDE DEF t
        <3>4. QED
            BY <1>1, <3>1, <3>2, <3>3, ScheduledAhead
    <2>6. QED
        BY <2>2, <2>3, <2>4, <2>5
<1>4. ASSUME OnTimer PROVE ~EventTimerDue'
    BY <1>1, <1>4 DEF OnTimer, OnEventTimer
<1>5. ASSUME NEW timestamp \in processingTimers, OnProcessingTimer(timestamp)
      PROVE  ~EventTimerDue'
    <2> DEFINE s == Without(contributors, ProcessingExpired(contributors, timestamp))
    <2>1. aggregate # Null
        BY <1>5 DEF OnProcessingTimer, LoadStateThrows, IInv, TimersArmed
    <2>2. ScheduleTimers(s, eventTimer, eventTimers,
                         Null, processingTimers \ {timestamp})
        BY <1>5, <2>1 DEF OnProcessingTimer, ExpireContributors
    <2>3. s \in ContributorMap
        BY <1>1, WithoutFacts
    <2>4. \A c \in Present(s) : CoalescedTimer(s[c].eventExpiresAt) > watermark
        BY <1>1, WithoutFacts
    <2> HIDE DEF s
    <2>5. QED
        BY <1>1, <2>2, <2>3, <2>4, ScheduledAhead
<1>6. ASSUME AdvanceWatermark PROVE ~EventTimerDue'
    BY <1>2, <1>6 DEF AdvanceWatermark, timers
<1>7. ASSUME Tick PROVE ~EventTimerDue'
    BY <1>2, <1>7 DEF Tick, timers
<1>8. ASSUME UNCHANGED vars PROVE ~EventTimerDue'
    BY <1>2, <1>8 DEF vars
<1>9. QED
    BY <1>3, <1>4, <1>5, <1>6, <1>7, <1>8 DEF Next, OnFallbackTimer, Quiescent

(* Only an advancing watermark makes an event timer due. *)
THEOREM TimersAheadOfWatermark == Spec => NoTimerBehindWatermark
<1>1. IInv /\ [Next]_vars =>
        [~EventTimerDue /\ UNCHANGED watermark => ~EventTimerDue']_vars
    BY StepKeepsTimersAhead
<1>2. QED
    BY <1>1, Invariance, PTL DEF Spec, NoTimerBehindWatermark

-----------------------------------------------------------------------------
(***************************************************************************)
(* ElementLifecycle, with its index, hash and timers, implements           *)
(* ElementContract for every value of the constants.                       *)
(***************************************************************************)

(* The code's merge is the contract's. *)
LEMMA MergeIsMerge ==
    ASSUME NEW s \in ContributorMap
    PROVE  Contract!IsMerge(Merge(s), s)
<1> SUFFICES ASSUME NEW a \in Attributes
             PROVE  \/ /\ \A c \in Contract!Live(s) : s[c].element[a] = Null
                       /\ Merge(s)[a] = Null
                    \/ \E c \in Contract!Live(s) :
                        /\ s[c].element[a] # Null
                        /\ \A d \in Contract!Live(s) :
                            s[d].element[a] # Null => Contract!Newer(s, c, d)
                        /\ Merge(s)[a] = s[c].element[a]
    BY DEF Contract!IsMerge
<1>1. Contract!Live(s) = Present(s)
    BY DEF Contract!Live, Present
<1>2. CASE Holders(s, a) = {}
    BY <1>1, <1>2, NoHolder DEF Holders
<1>3. CASE Holders(s, a) # {}
    <2> DEFINE c == Owners(s)[a]
    <2>1. /\ Beats(s, a, c)
          /\ c \in Contributors
          /\ s[c] \in Snapshot
          /\ Merge(s)[a] = s[c].element[a]
        BY <1>3, OwnerFacts
    <2> HIDE DEF c
    <2>2. c \in Present(s) /\ s[c].element[a] # Null
        BY <2>1 DEF Beats, Holders
    <2>3. ASSUME NEW d \in Present(s), s[d].element[a] # Null
          PROVE  Contract!Newer(s, c, d)
        <3>1. d = c \/ Wins(c, s[c], d, s[d])
            BY <2>1, <2>3 DEF Beats, Holders
        <3>2. /\ c \in Nat /\ d \in Nat
              /\ s[c].observedAt \in Int /\ s[d].observedAt \in Int
            BY <2>1, ContributorsAssumption DEF Present, ContributorMap, Snapshot
        <3>3. QED
            BY <3>1, <3>2 DEF Wins, Contract!Newer
    <2>4. QED
        BY <1>1, <2>1, <2>2, <2>3
<1>4. QED
    BY <1>2, <1>3

(* The event of PublishedIsMerge represents the contributors. *)
LEMMA MergeRepresents ==
    ASSUME NEW s \in ContributorMap, NEW event,
           IF Present(s) = {} THEN event \in {Null, Delete}
                              ELSE event = Upsert(Merge(s))
    PROVE  Contract!Represents(event, s)
<1>1. Contract!Live(s) = Present(s)
    BY DEF Contract!Live, Present
<1>2. CASE Present(s) = {}
    BY <1>1, <1>2 DEF Contract!Represents, Contract!Delete, Delete
<1>3. CASE Present(s) # {}
    <2>1. Merge(s) \in [Attributes -> Values \cup {Null}]
        BY MergeType DEF Element
    <2>2. Contract!IsMerge(Merge(s), s)
        BY MergeIsMerge
    <2>3. event = Contract!Upsert(Merge(s))
        BY <1>3 DEF Upsert, Contract!Upsert
    <2>4. QED
        BY <1>1, <1>3, <2>1, <2>2, <2>3 DEF Contract!Represents
<1>4. QED
    BY <1>2, <1>3

(* An event is collected only if it differs from the last one. *)
EmitsChange == \/ CollectNothing
               \/ /\ output' = published'
                  /\ published' # published
                  /\ published' # Null

LEMMA EmitsChangePublishes ==
    ASSUME IInv', EmitsChange
    PROVE  Contract!PublishChange
<1>1. Contract!Represents(published', contributors')
    BY MergeRepresents DEF IInv, TypeOK, PublishedIsMerge
<1>2. QED
    BY <1>1 DEF Contract!PublishChange, EmitsChange, CollectNothing

LEMMA CollectIfChangedEmits ==
    ASSUME IInv, NEW s \in ContributorMap,
           CollectIfChanged(Merge(s), aggregate)
    PROVE  EmitsChange
<1>1. CASE PayloadHash(Merge(s)) = aggregate
    BY <1>1 DEF CollectIfChanged, EmitsChange
<1>2. CASE PayloadHash(Merge(s)) # aggregate
    <2>1. published' = Upsert(Merge(s)) /\ output' = Upsert(Merge(s))
        BY <1>2 DEF CollectIfChanged, Collect
    <2>2. Upsert(Merge(s)) # Null /\ Upsert(Merge(s)) # Delete
        BY HashFacts DEF Upsert, Delete
    <2>3. published = Upsert(Merge(s)) => aggregate = PayloadHash(Merge(s))
        <3>1. CASE Present(contributors) = {}
            BY <2>2, <3>1 DEF IInv, PublishedIsMerge
        <3>2. CASE Present(contributors) # {}
            <4>1. /\ published = Upsert(Merge(contributors))
                  /\ aggregate = PayloadHash(Merge(contributors))
                BY <3>2 DEF IInv, PublishedIsMerge, IndexIsRebuild
            <4>2. \A e, f : Upsert(e) = Upsert(f) => e = f
                BY DEF Upsert
            <4>3. QED
                BY <4>1, <4>2
        <3>3. QED
            BY <3>1, <3>2
    <2>4. QED
        BY <1>2, <2>1, <2>2, <2>3 DEF EmitsChange
<1>3. QED
    BY <1>1, <1>2

-----------------------------------------------------------------------------
(* Each action implements an action of the contract *)

LEMMA ProcessElementObserves ==
    ASSUME IInv, IInv', NEW o \in Observations, ProcessElement(o)
    PROVE  Contract!Observe \/ Contract!Silent
<1> DEFINE snapshot == SnapshotOf(o, watermark, now)
           c == o.contributorId
           t == [contributors EXCEPT ![c] = snapshot]
<1>1. /\ contributors \in ContributorMap
      /\ watermark \in Nat /\ now \in Nat
      /\ c \in Contributors /\ o \in Contribution
    BY ObservationIsContribution, TimeAssumption, ClockAssumption DEF IInv, TypeOK
<1>2. /\ snapshot \in Snapshot
      /\ snapshot.observedAt = o.observedAt
      /\ snapshot.element = o.element
      /\ snapshot.eventExpiresAt >= watermark + Ttl
      /\ snapshot.eventExpiresAt >= snapshot.observedAt + Ttl
      /\ snapshot.processingExpiresAt = now + Ttl
    BY <1>1, SnapshotOfFacts
<1>3. \/ IgnoreOlder(o)
      \/ ObserveIncrementally(o, snapshot)
      \/ ObserveWithRebuild(o, snapshot)
    BY DEF ProcessElement
<1> HIDE DEF snapshot
<1>4. CASE IgnoreOlder(o)
    BY <1>1, <1>4
       DEF IgnoreOlder, CollectNothing, state, clocks, Contract!Silent
<1>5. ASSUME ~IsOlder(o), contributors' = t, UNCHANGED clocks, EmitsChange
      PROVE  Contract!Observe
    <2>1. contributors'[c] = snapshot /\ snapshot # Null
        BY <1>1, <1>2, <1>5, NullAssumption DEF ContributorMap
    <2>2. contributors[c] # Null =>
            snapshot.observedAt >= contributors[c].observedAt
        <3>1. contributors[c] # Null => contributors[c].observedAt \in Int
            BY <1>1 DEF ContributorMap, Snapshot
        <3>2. o.observedAt \in Int
            BY <1>1 DEF Contribution
        <3>3. QED
            BY <1>2, <1>5, <3>1, <3>2 DEF IsOlder
    <2>3. Contract!PublishChange
        BY <1>5, EmitsChangePublishes
    <2>4. contributors' = [contributors EXCEPT ![c] = contributors'[c]]
        BY <1>5, <2>1
    <2>5. watermark' = watermark /\ now' = now
        BY <1>5 DEF clocks
    <2>6. QED
        BY <1>1, <1>2, <2>1, <2>2, <2>3, <2>4, <2>5 DEF Contract!Observe
<1>6. CASE ObserveIncrementally(o, snapshot)
    <2> DEFINE index == NextIndex(o, snapshot)
               hash == IF winners # Null /\ index.element = winners.element
                        THEN aggregate ELSE PayloadHash(index.element)
    <2>1. /\ ~IsOlder(o) /\ ~Loses(o)
          /\ contributors' = t
          /\ IF hash = aggregate THEN CollectNothing
                                 ELSE Collect(Upsert(index.element))
          /\ UNCHANGED clocks
        BY <1>6 DEF ObserveIncrementally
    <2>2. t \in ContributorMap
        BY <1>1, <1>2 DEF ContributorMap
    <2>3. index.element = Merge(t)
        <3>1. index = Rebuild(t)
            BY <1>2, <2>1, NextIndexIsRebuild
        <3>2. QED
            BY <3>1 DEF Rebuild
    <2>4. winners # Null => aggregate = PayloadHash(winners.element)
        BY DEF IInv, IndexIsRebuild, Rebuild
    <2> HIDE DEF index
    <2>5. hash = PayloadHash(Merge(t))
        BY <2>3, <2>4
    <2> HIDE DEF hash, t
    <2>6. CollectIfChanged(Merge(t), aggregate)
        BY <2>1, <2>3, <2>5 DEF CollectIfChanged
    <2>7. EmitsChange
        BY <2>2, <2>6, CollectIfChangedEmits
    <2>8. QED
        BY <1>5, <2>1, <2>7
<1>7. CASE ObserveWithRebuild(o, snapshot)
    <2>1. /\ ~IsOlder(o)
          /\ PersistState(t)
          /\ CollectIfChanged(Merge(t), aggregate)
          /\ UNCHANGED clocks
        BY <1>7 DEF ObserveWithRebuild
    <2>2. t \in ContributorMap
        BY <1>1, <1>2 DEF ContributorMap
    <2> HIDE DEF t
    <2>3. contributors' = t /\ EmitsChange
        BY <2>1, <2>2, CollectIfChangedEmits, PersistStateFacts
    <2>4. QED
        BY <1>5, <2>1, <2>3
<1>8. QED
    BY <1>3, <1>4, <1>6, <1>7

(* An expiry by either clock; the timer's timestamp has been reached. *)
LEMMA ExpireExpires ==
    ASSUME IInv, IInv', Present(contributors) # {},
           NEW gone \in SUBSET Present(contributors),
           NEW event, NEW eventSet, NEW processing, NEW processingSet,
           ExpireContributors(gone, event, eventSet, processing, processingSet),
           \/ \A c \in gone : contributors[c].eventExpiresAt <= watermark
           \/ \A c \in gone : contributors[c].processingExpiresAt <= now
    PROVE  Contract!Expire \/ Contract!Silent
<1> DEFINE s == Without(contributors, gone)
<1>1. /\ contributors \in ContributorMap
      /\ s \in ContributorMap
      /\ watermark \in Nat /\ now \in Nat
    BY WithoutFacts, TimeAssumption, ClockAssumption DEF IInv, TypeOK
<1>2. /\ IF gone = {}
            THEN CollectNothing /\ UNCHANGED state
            ELSE /\ PersistState(s)
                 /\ IF Present(s) = {}
                        THEN Collect(Delete)
                        ELSE CollectIfChanged(Merge(s), aggregate)
      /\ watermark' = watermark /\ now' = now
    BY DEF ExpireContributors, clocks
<1>3. CASE gone = {}
    BY <1>1, <1>2, <1>3 DEF Contract!Silent, CollectNothing, state
<1>4. CASE gone # {}
    <2>1. contributors' = s
        BY <1>1, <1>2, <1>4, PersistStateFacts
    <2>2. contributors' =
            [c \in Contributors |-> IF c \in gone THEN Null ELSE contributors[c]]
        BY <2>1 DEF Without
    <2> HIDE DEF s
    <2>3. EmitsChange
        <3>1. CASE Present(s) = {}
            <4>1. output' = Delete /\ published' = Delete
                BY <1>2, <1>4, <3>1 DEF Collect
            <4>2. published = Upsert(Merge(contributors))
                BY DEF IInv, PublishedIsMerge
            <4>3. Delete # Null /\ Delete # Upsert(Merge(contributors))
                BY NullEventAssumption DEF Event, Delete, Upsert
            <4>4. QED
                BY <4>1, <4>2, <4>3 DEF EmitsChange
        <3>2. CASE Present(s) # {}
            BY <1>1, <1>2, <1>4, <3>2, CollectIfChangedEmits
        <3>3. QED
            BY <3>1, <3>2
    <2>4. Contract!PublishChange
        BY <2>3, EmitsChangePublishes
    <2>5. gone \in SUBSET Contract!Live(contributors)
        BY DEF Contract!Live, Present
    <2>6. Contract!Expire
        BY <1>2, <1>4, <2>2, <2>4, <2>5 DEF Contract!Expire
    <2>7. QED
        BY <2>6
<1>5. QED
    BY <1>3, <1>4

LEMMA OnTimerExpires ==
    ASSUME IInv, IInv', OnTimer \/ OnFallbackTimer
    PROVE  Contract!Expire \/ Contract!Silent
<1>1. /\ contributors \in ContributorMap
      /\ watermark \in Nat /\ now \in Nat
      /\ eventTimers \subseteq Nat /\ processingTimers \subseteq Nat
    BY TimeAssumption, ClockAssumption DEF IInv, TypeOK
<1>2. \A c \in Present(contributors) :
        /\ contributors[c].eventExpiresAt \in Nat
        /\ contributors[c].processingExpiresAt \in Nat
    BY <1>1 DEF Present, ContributorMap, Snapshot
<1>3. ASSUME NEW timestamp \in eventTimers, OnEventTimer(timestamp)
      PROVE  Contract!Expire \/ Contract!Silent
    <2> DEFINE gone == EventExpired(contributors, timestamp)
    <2>1. Present(contributors) # {} /\ aggregate # Null
        BY <1>3 DEF OnEventTimer, LoadStateThrows, IInv, TimersArmed
    <2>2. gone \in SUBSET Present(contributors)
        BY DEF EventExpired
    <2>3. timestamp <= watermark /\ timestamp \in Nat
        BY <1>1, <1>3 DEF OnEventTimer
    <2>4. \A c \in gone : contributors[c].eventExpiresAt <= watermark
        BY <1>1, <1>2, <2>3 DEF EventExpired
    <2>5. ExpireContributors(gone, Null, eventTimers \ {timestamp},
                             processingTimer, processingTimers)
        BY <1>3, <2>1 DEF OnEventTimer
    <2> HIDE DEF gone
    <2>6. QED
        BY <2>1, <2>2, <2>4, <2>5, ExpireExpires
<1>4. ASSUME NEW timestamp \in processingTimers, OnProcessingTimer(timestamp)
      PROVE  Contract!Expire \/ Contract!Silent
    <2> DEFINE gone == ProcessingExpired(contributors, timestamp)
    <2>1. Present(contributors) # {} /\ aggregate # Null
        BY <1>4 DEF OnProcessingTimer, LoadStateThrows, IInv, TimersArmed
    <2>2. gone \in SUBSET Present(contributors)
        BY DEF ProcessingExpired
    <2>3. timestamp <= now /\ timestamp \in Nat
        BY <1>1, <1>4 DEF OnProcessingTimer
    <2>4. \A c \in gone : contributors[c].processingExpiresAt <= now
        BY <1>1, <1>2, <2>3 DEF ProcessingExpired
    <2>5. ExpireContributors(gone, eventTimer, eventTimers,
                             Null, processingTimers \ {timestamp})
        BY <1>4, <2>1 DEF OnProcessingTimer
    <2> HIDE DEF gone
    <2>6. QED
        BY <2>1, <2>2, <2>4, <2>5, ExpireExpires
<1>5. QED
    BY <1>3, <1>4 DEF OnTimer, OnFallbackTimer

(* Every step is a step of the contract or leaves its variables alone. *)
LEMMA StepRefines ==
    ASSUME IInv, IInv', [Next]_vars
    PROVE  [Contract!ContractNext]_(Contract!contractVars)
<1>1. watermark \in Nat /\ now \in Nat
    BY TimeAssumption, ClockAssumption DEF IInv, TypeOK
<1>2. ASSUME NEW o \in Observations, ProcessElement(o)
      PROVE  Contract!ContractNext
    BY <1>2, ProcessElementObserves DEF Contract!ContractNext
<1>3. ASSUME OnTimer \/ OnFallbackTimer PROVE Contract!ContractNext
    BY <1>3, OnTimerExpires DEF Contract!ContractNext
<1>4. ASSUME AdvanceWatermark PROVE Contract!ContractNext
    <2>1. /\ \E w \in (watermark + 1) .. MaxEventTime : watermark' = w
          /\ now' = now /\ output' = Null
          /\ contributors' = contributors /\ published' = published
        BY <1>4 DEF AdvanceWatermark, state
    <2>2. watermark' >= watermark
        BY <1>1, <2>1, TimeAssumption
    <2>3. QED
        BY <1>1, <2>1, <2>2 DEF Contract!ContractNext, Contract!Silent
<1>5. ASSUME Tick PROVE Contract!ContractNext
    BY <1>1, <1>5 DEF Tick, state, Contract!ContractNext, Contract!Silent
<1>6. ASSUME UNCHANGED vars PROVE UNCHANGED Contract!contractVars
    BY <1>6 DEF vars, Contract!contractVars
<1>7. QED
    BY <1>2, <1>3, <1>4, <1>5, <1>6 DEF Next, Quiescent

LEMMA InitRefines ==
    ASSUME Init
    PROVE  Contract!ContractInit
<1>1. IInv
    BY InitEstablishes
<1>2. Contract!Represents(published, contributors)
    BY <1>1, MergeRepresents DEF IInv, TypeOK, PublishedIsMerge
<1>3. QED
    BY <1>2 DEF Init, Contract!ContractInit

(***************************************************************************)
(* The lifecycle operator implements its contract: whatever the            *)
(* interleaving of observations, watermarks and timers, an event is        *)
(* published exactly when the declarative merge of the live contributors   *)
(* changes, and a contributor leaves only after its deadline.              *)
(***************************************************************************)
THEOREM Refinement == Spec => RefinesContract
<1>1. Init => Contract!ContractInit
    BY InitRefines
<1>2. IInv /\ IInv' /\ [Next]_vars =>
        [Contract!ContractNext]_(Contract!contractVars)
    BY StepRefines
<1>3. QED
    BY <1>1, <1>2, Invariance, PTL
       DEF Spec, RefinesContract, Contract!ContractSpec

-----------------------------------------------------------------------------
(* What components around the operator need of it *)

(* Merging looks at who said what and when, not at deadlines. *)
LEMMA MergeIgnoresDeadlines ==
    ASSUME NEW s \in ContributorMap, NEW t \in ContributorMap,
           \A c \in Contributors : s[c] = Null <=> t[c] = Null,
           \A c \in Present(s) : /\ s[c].observedAt = t[c].observedAt
                                 /\ s[c].element = t[c].element
    PROVE  Present(s) = Present(t) /\ Merge(s) = Merge(t)
<1>1. Present(s) = Present(t)
    BY DEF Present
<1>2. ASSUME NEW a \in Attributes
      PROVE  Merge(s)[a] = Merge(t)[a]
    <2>1. Holders(s, a) = Holders(t, a)
        BY <1>1 DEF Holders
    <2>2. CASE Holders(s, a) = {}
        BY <2>1, <2>2, NoHolder
    <2>3. CASE Holders(s, a) # {}
        <3> DEFINE c == Winner(s, a)
        <3>1. Beats(s, a, c)
            BY <2>3, WinnerBeats
        <3> HIDE DEF c
        <3>2. /\ c \in Present(s) /\ Holders(s, a) \subseteq Present(s)
            BY <3>1 DEF Beats, Holders
        <3>3. Beats(t, a, c)
            BY <2>1, <3>1, <3>2 DEF Beats, Wins
        <3>4. Merge(s)[a] = s[c].element[a] /\ Merge(t)[a] = t[c].element[a]
            BY <3>1, <3>3, WinnerIs
        <3>5. QED
            BY <3>2, <3>4
    <2>4. QED
        BY <2>2, <2>3
<1>3. Merge(s) = Merge(t)
    BY <1>2 DEF Merge
<1>4. QED
    BY <1>1, <1>3

(* An observation replaces its contributor's snapshot unless it is older. *)
LEMMA ProcessElementReplaces ==
    ASSUME IInv, NEW o \in Observations, ProcessElement(o)
    PROVE  IF IsOlder(o)
             THEN contributors' = contributors
             ELSE contributors' = [contributors EXCEPT
                                    ![o.contributorId] = SnapshotOf(o, watermark, now)]
<1> DEFINE snapshot == SnapshotOf(o, watermark, now)
<1>1. \/ IgnoreOlder(o)
      \/ ObserveIncrementally(o, snapshot)
      \/ ObserveWithRebuild(o, snapshot)
    BY DEF ProcessElement
<1> HIDE DEF snapshot
<1>2. CASE IgnoreOlder(o)
    BY <1>2 DEF IgnoreOlder, state
<1>3. CASE ObserveIncrementally(o, snapshot)
    BY <1>3 DEF ObserveIncrementally, snapshot
<1>4. CASE ObserveWithRebuild(o, snapshot)
    BY <1>4 DEF ObserveWithRebuild, PersistState, snapshot
<1>5. QED
    BY <1>1, <1>2, <1>3, <1>4

(* A callback collects an event only with a change of the topic. *)
LEMMA CallbackEmits ==
    ASSUME IInv, IInv',
           \/ \E o \in Observations : ProcessElement(o)
           \/ OnTimer
           \/ OnFallbackTimer
    PROVE  EmitsChange
<1>1. Contract!Observe \/ Contract!Expire \/ Contract!Silent
    BY ProcessElementObserves, OnTimerExpires
<1>2. CASE Contract!Silent
    BY <1>2 DEF Contract!Silent, EmitsChange, CollectNothing
<1>3. CASE Contract!PublishChange
    BY <1>3 DEF Contract!PublishChange, EmitsChange, CollectNothing
<1>4. QED
    BY <1>1, <1>2, <1>3 DEF Contract!Observe, Contract!Expire

(* What the contributors together say of the element. *)
Says(s) == IF Present(s) = {} THEN Null ELSE Upsert(Merge(s))

LEMMA EmitsWhatIsSaid ==
    ASSUME IInv, IInv', EmitsChange, Present(contributors') # {}
    PROVE  output' = Null <=> Says(contributors') = Says(contributors)
<1>1. published' = Upsert(Merge(contributors')) /\ Says(contributors') = published'
    BY DEF IInv, PublishedIsMerge, Says
<1>2. /\ Upsert(Merge(contributors')) # Null
      /\ Upsert(Merge(contributors')) # Delete
    BY HashFacts DEF IInv, TypeOK, Upsert, Delete
<1>3. CASE Present(contributors) = {}
    BY <1>1, <1>2, <1>3 DEF IInv, PublishedIsMerge, Says, EmitsChange, CollectNothing
<1>4. CASE Present(contributors) # {}
    BY <1>1, <1>2, <1>4 DEF IInv, PublishedIsMerge, Says, EmitsChange, CollectNothing
<1>5. QED
    BY <1>3, <1>4

(* A timer that expires nobody is silent. *)
LEMMA IdleTimerIsSilent ==
    ASSUME IInv, IInv', OnTimer \/ OnFallbackTimer, contributors' = contributors
    PROVE  output' = Null
<1>1. eventTimers # {} \/ processingTimers # {}
    BY DEF OnTimer, OnFallbackTimer
<1>2. Present(contributors) # {}
    BY <1>1 DEF IInv, TimersArmed
<1>3. QED
    BY <1>2, CallbackEmits, EmitsWhatIsSaid
=============================================================================
