---------------------------- MODULE IndexerProofs ---------------------------
(***************************************************************************)
(* Safety of Indexer for any replicas, elements, poll sizes, crashes and   *)
(* rebalances, as long as no replica outlives its assignment in the middle *)
(* of its writes (PollsInTime).                                            *)
(***************************************************************************)
EXTENDS Indexer, TLAPS, WellFoundedInduction

(* Only the owner writes; between polls it stands at the committed offset. *)
OwnerOK(i) ==
    /\ phase[i] = "writing" => owner = i
    /\ owner = i /\ phase[i] = "up" => position[i] = committed
    /\ owner = i => phase[i] # "down"

(***************************************************************************)
(* While i writes, whatever was retained below its position is not newer   *)
(* than what i is about to write or, if nothing, than the database.        *)
(***************************************************************************)
WritesOK(i) ==
    phase[i] = "writing" =>
        /\ committed <= position[i]
        /\ \A o \in retained :
            o < position[i] =>
                LET e == topic[o].element
                IN  /\ topic[o].operation # "malformed"
                    /\ todo[i][e] # 0 => o <= todo[i][e]
                    /\ todo[i][e] = 0 => o <= view[e]

IInv ==
    /\ TypeOK
    /\ CommittedIsApplied
    /\ MalformedStops
    /\ \A i \in Indexers : OwnerOK(i) /\ WritesOK(i)

-----------------------------------------------------------------------------
(* The newest record of an element *)

(* A nonempty set of positive integers below a bound has a greatest one. *)
LEMMA GreatestOffset ==
    ASSUME NEW n \in Nat, NEW T \in SUBSET (1 .. n), T # {}
    PROVE  \E m \in T : \A p \in T : p <= m
<1> DEFINE R == {ss \in Nat \X Nat : ss[1] < ss[2]}
           Gaps == {n - t : t \in T}
<1>1. IsWellFoundedOn(R, Nat)
    BY NatLessThanWellFounded DEF OpToRel
<1>2. Gaps \in SUBSET Nat /\ Gaps # {}
    <2>1. PICK t \in T : TRUE
        OBVIOUS
    <2>2. n - t \in Gaps
        OBVIOUS
    <2>3. \A u \in T : n - u \in Nat
        OBVIOUS
    <2>4. QED
        BY <2>2, <2>3
<1> HIDE DEF R
<1>3. PICK g \in Gaps : \A h \in Gaps : ~(<<h, g>> \in R)
    BY <1>1, <1>2, WFMin
<1>4. PICK m \in T : g = n - m
    BY <1>3
<1>5. ASSUME NEW p \in T PROVE p <= m
    <2>1. n - p \in Gaps /\ n - p \in Nat /\ g \in Nat
        BY <1>2, <1>3
    <2>2. ~(n - p < g)
        BY <1>3, <2>1 DEF R
    <2>3. QED
        BY <1>4, <2>2
<1>6. QED
    BY <1>5

(* LatestOf is the newest offset of an element, or 0 if there is none. *)
LEMMA LatestIsNewest ==
    ASSUME NEW e \in Elements, NEW S \in SUBSET Offsets, topic \in Seq(Record)
    PROVE  /\ \A o \in Of(e, S) : LatestOf(e, S) # 0 /\ o <= LatestOf(e, S)
           /\ LatestOf(e, S) # 0 => LatestOf(e, S) \in Of(e, S)
<1>1. Of(e, S) \in SUBSET (1 .. Len(topic)) /\ Len(topic) \in Nat
    <2>1. S \in SUBSET (1 .. Len(topic))
        BY DEF Offsets
    <2>2. Len(topic) \in Nat
        OBVIOUS
    <2>3. QED
        BY <2>1, <2>2 DEF Of
<1>2. CASE Of(e, S) = {}
    BY <1>2 DEF LatestOf
<1>3. CASE Of(e, S) # {}
    <2>1. \E m \in Of(e, S) : \A p \in Of(e, S) : p <= m
        BY <1>1, <1>3, GreatestOffset
    <2>2. /\ LatestOf(e, S) \in Of(e, S)
          /\ \A p \in Of(e, S) : p <= LatestOf(e, S)
        BY <1>3, <2>1 DEF LatestOf
    <2>3. QED
        BY <1>1, <2>2
<1>4. QED
    BY <1>2, <1>3

(* What a replica knows after it has accepted the records up to `last'. *)
LEMMA PollCovers ==
    ASSUME IInv, NEW i \in Indexers, phase[i] = "up", owner = i,
           NEW last \in retained, position[i] <= last,
           Projectable(Batch(position[i], last))
    PROVE  LET w == Pending(Batch(position[i], last))
           IN  /\ w \in [Elements -> Nat]
               /\ \A e \in Elements : w[e] # 0 => w[e] \in Of(e, Offsets)
               /\ \A o \in retained :
                    o < last + 1 =>
                        /\ topic[o].operation # "malformed"
                        /\ w[topic[o].element] # 0 => o <= w[topic[o].element]
                        /\ w[topic[o].element] = 0 => o <= view[topic[o].element]
<1> DEFINE S == Batch(position[i], last)
           w == Pending(S)
<1>1. /\ topic \in Seq(Record)
      /\ retained \subseteq Offsets
      /\ position[i] = committed /\ committed \in Nat
      /\ Offsets \subseteq Nat
    BY DEF IInv, TypeOK, OwnerOK, Offsets
<1>2. S \in SUBSET Offsets
    BY <1>1 DEF Batch
<1>3. ASSUME NEW e \in Elements
      PROVE  /\ w[e] = LatestOf(e, S)
             /\ w[e] # 0 => w[e] \in Of(e, S)
             /\ w[e] # 0 => w[e] \in Of(e, Offsets) /\ w[e] >= committed
             /\ w[e] \in Nat
             /\ \A o \in Of(e, S) : w[e] # 0 /\ o <= w[e]
    <2>1. w[e] = LatestOf(e, S)
        BY DEF Pending
    <2>2. /\ \A o \in Of(e, S) : w[e] # 0 /\ o <= w[e]
          /\ w[e] # 0 => w[e] \in Of(e, S)
        BY <1>1, <1>2, <2>1, LatestIsNewest
    <2>3. w[e] # 0 => w[e] \in Of(e, Offsets) /\ w[e] >= committed
        BY <1>1, <1>2, <2>2 DEF Of, Batch
    <2>4. w[e] \in Nat
        <3>1. \A o \in Of(e, S) : o \in Nat
            BY <1>1, <1>2 DEF Of
        <3>2. QED
            BY <2>2, <3>1
    <2>5. QED
        BY <2>1, <2>2, <2>3, <2>4
<1>4. ASSUME NEW o \in retained, o < last + 1
      PROVE  /\ topic[o].operation # "malformed"
             /\ w[topic[o].element] # 0 => o <= w[topic[o].element]
             /\ w[topic[o].element] = 0 => o <= view[topic[o].element]
    <2> DEFINE e == topic[o].element
    <2>1. o \in Nat /\ o \in Offsets /\ last \in Nat
        BY <1>1
    <2>2. e \in Elements
        <3>1. topic[o] \in Record
            BY <1>1, <2>1 DEF Offsets
        <3>2. QED
            BY <3>1 DEF Record
    <2>3. CASE o < committed
        <3>1. o <= view[e] /\ topic[o].operation # "malformed"
            BY <2>2, <2>3 DEF IInv, CommittedIsApplied, MalformedStops, Of
        <3>2. QED
            BY <1>1, <1>3, <2>1, <2>2, <2>3, <3>1
    <2>4. CASE o >= committed
        <3>1. o \in S
            BY <1>1, <1>4, <2>1, <2>4 DEF Batch
        <3>2. o \in Of(e, S) /\ topic[o].operation # "malformed"
            BY <3>1 DEF Of, Projectable
        <3>3. QED
            BY <1>3, <2>2, <3>2
    <2>5. QED
        BY <1>1, <2>1, <2>3, <2>4
<1>5. w \in [Elements -> Nat]
    BY <1>3 DEF Pending
<1>6. QED
    BY <1>3, <1>4, <1>5

-----------------------------------------------------------------------------
(* Every step keeps the invariant *)

LEMMA InitEstablishes == Init => IInv
BY IndexerAssumption
   DEF Init, IInv, TypeOK, Offsets, NoWrites, CommittedIsApplied, Of,
       MalformedStops, OwnerOK, WritesOK

LEMMA StartKeeps == ASSUME IInv, NEW i \in Indexers, Start(i) PROVE IInv'
BY DEF Start, log, IInv, TypeOK, Offsets, CommittedIsApplied, Of,
       MalformedStops, OwnerOK, WritesOK

LEMMA JoinKeeps == ASSUME IInv, NEW i \in Indexers, Join(i) PROVE IInv'
BY IndexerAssumption
   DEF Join, StartPosition, log, IInv, TypeOK, Offsets, CommittedIsApplied, Of,
       MalformedStops, OwnerOK, WritesOK

(* The end of a process touches nothing but its own state. *)
LEMMA ExitKeeps ==
    ASSUME IInv, NEW i \in Indexers, Exit(i),
           crashes' \in 0 .. MaxCrashes,
           UNCHANGED <<log, committed, position, view, rebalances>>
    PROVE  IInv'
BY IndexerAssumption
   DEF Exit, NoWrites, log, IInv, TypeOK, Offsets, CommittedIsApplied, Of,
       MalformedStops, OwnerOK, WritesOK

LEMMA PollKeeps == ASSUME IInv, NEW i \in Indexers, Poll(i) PROVE IInv'
<1>1. PICK last \in retained :
        LET batch == Batch(position[i], last)
        IN  /\ position[i] <= last
            /\ IF Projectable(batch)
                THEN /\ phase' = [phase EXCEPT ![i] = "writing"]
                     /\ todo' = [todo EXCEPT ![i] = Pending(batch)]
                     /\ position' = [position EXCEPT ![i] = last + 1]
                     /\ UNCHANGED owner
                ELSE Exit(i) /\ UNCHANGED position
    BY DEF Poll
<1>2. CASE Projectable(Batch(position[i], last))
    <2>1. /\ phase' = [phase EXCEPT ![i] = "writing"]
          /\ todo' = [todo EXCEPT ![i] = Pending(Batch(position[i], last))]
          /\ position' = [position EXCEPT ![i] = last + 1]
          /\ UNCHANGED <<log, committed, owner, view, crashes, rebalances>>
          /\ phase[i] = "up" /\ owner = i /\ position[i] <= last
        BY <1>1, <1>2 DEF Poll
    <2> DEFINE w == Pending(Batch(position[i], last))
    <2>2. /\ w \in [Elements -> Nat]
          /\ \A e \in Elements : w[e] # 0 => w[e] \in Of(e, Offsets)
          /\ \A o \in retained :
                o < last + 1 =>
                    /\ topic[o].operation # "malformed"
                    /\ w[topic[o].element] # 0 => o <= w[topic[o].element]
                    /\ w[topic[o].element] = 0 => o <= view[topic[o].element]
        BY <1>2, <2>1, PollCovers
    <2> HIDE DEF w
    <2>3. todo' = [todo EXCEPT ![i] = w]
        BY <2>1 DEF w
    <2>4. last \in 1 .. Len(topic) /\ Len(topic) \in Nat
        BY DEF IInv, TypeOK, Offsets
    <2>5. TypeOK'
        BY <2>1, <2>2, <2>3, <2>4 DEF log, IInv, TypeOK, Offsets, Of
    <2>6. CommittedIsApplied' /\ MalformedStops'
        BY <2>1 DEF log, IInv, CommittedIsApplied, Of, MalformedStops
    <2>7. ASSUME NEW j \in Indexers PROVE OwnerOK(j)'
        BY <2>1 DEF log, IInv, TypeOK, OwnerOK
    <2>8. ASSUME NEW j \in Indexers PROVE WritesOK(j)'
        BY <2>1, <2>2, <2>3, <2>4 DEF log, IInv, TypeOK, OwnerOK, WritesOK
    <2>9. QED
        BY <2>5, <2>6, <2>7, <2>8 DEF IInv
<1>3. CASE ~Projectable(Batch(position[i], last))
    <2>1. Exit(i) /\ UNCHANGED <<log, committed, position, view, crashes, rebalances>>
        BY <1>1, <1>3 DEF Poll
    <2>2. crashes' \in 0 .. MaxCrashes
        BY <2>1 DEF IInv, TypeOK
    <2>3. QED
        BY <2>1, <2>2, ExitKeeps
<1>4. QED
    BY <1>2, <1>3

(***************************************************************************)
(* A write takes the database forward: the offset written is not older     *)
(* than any committed one, since only the owner writes.                    *)
(***************************************************************************)
LEMMA ApplyKeeps ==
    ASSUME IInv, NEW i \in Indexers, NEW e \in Elements, Apply(i, e)
    PROVE  IInv'
<1>1. /\ phase[i] = "writing" /\ owner = i
      /\ todo[i][e] # 0
      /\ view' = [view EXCEPT ![e] = todo[i][e]]
      /\ todo' = [todo EXCEPT ![i][e] = 0]
      /\ UNCHANGED <<log, committed, owner, phase, position, crashes, rebalances>>
    BY DEF Apply, IInv, OwnerOK
<1>2. TypeOK'
    BY <1>1 DEF log, IInv, TypeOK, Offsets, Of
<1>3. CommittedIsApplied'
    <2> SUFFICES ASSUME NEW f \in Elements, NEW o \in retained,
                        topic[o].element = f, o < committed
                 PROVE  o <= view'[f]
        BY <1>1 DEF log, CommittedIsApplied, Of
    <2>1. o \in Nat /\ committed \in Nat /\ position[i] \in Nat
        BY DEF IInv, TypeOK, Offsets
    <2>2. CASE f = e
        BY <1>1, <2>1, <2>2 DEF IInv, TypeOK, WritesOK
    <2>3. CASE f # e
        BY <1>1, <2>3 DEF IInv, TypeOK, CommittedIsApplied, Of
    <2>4. QED
        BY <2>2, <2>3
<1>4. MalformedStops'
    BY <1>1 DEF log, IInv, MalformedStops
<1>5. ASSUME NEW j \in Indexers PROVE OwnerOK(j)'
    BY <1>1 DEF IInv, OwnerOK
<1>6. ASSUME NEW j \in Indexers PROVE WritesOK(j)'
    <2>1. CASE j = i
        BY <1>1, <2>1 DEF log, IInv, TypeOK, WritesOK, Offsets, Record
    <2>2. CASE j # i
        BY <1>1, <2>2 DEF IInv, OwnerOK, WritesOK
    <2>3. QED
        BY <2>1, <2>2
<1>7. QED
    BY <1>2, <1>3, <1>4, <1>5, <1>6 DEF IInv

LEMMA CommitKeeps == ASSUME IInv, NEW i \in Indexers, Commit(i) PROVE IInv'
<1>1. /\ phase[i] = "writing" /\ todo[i] = NoWrites /\ owner = i
      /\ committed' = position[i]
      /\ phase' = [phase EXCEPT ![i] = "up"]
      /\ todo' = [todo EXCEPT ![i] = NoWrites]
      /\ UNCHANGED <<log, owner, position, view, crashes, rebalances>>
    BY DEF Commit, MayCommit, IInv, OwnerOK
<1>2. TypeOK'
    BY <1>1 DEF log, IInv, TypeOK, Offsets, Of, NoWrites
<1>3. CommittedIsApplied' /\ MalformedStops'
    BY <1>1
    DEF log, IInv, WritesOK, NoWrites, CommittedIsApplied, Of, MalformedStops
<1>4. ASSUME NEW j \in Indexers PROVE OwnerOK(j)' /\ WritesOK(j)'
    BY <1>1 DEF log, IInv, TypeOK, OwnerOK, WritesOK
<1>5. QED
    BY <1>2, <1>3, <1>4 DEF IInv

LEMMA CrashKeeps == ASSUME IInv, NEW i \in Indexers, Crash(i) PROVE IInv'
<1>1. crashes' \in 0 .. MaxCrashes
    BY IndexerAssumption DEF Crash, IInv, TypeOK
<1>2. QED
    BY <1>1, ExitKeeps DEF Crash, log

(* The partition is taken from a replica that is not writing. *)
LEMMA RebalanceKeeps ==
    ASSUME IInv, PollsInTime, NEW i \in Indexers, Rebalance(i)
    PROVE  IInv'
BY IndexerAssumption
   DEF Rebalance, log, IInv, TypeOK, Offsets, CommittedIsApplied, Of,
       MalformedStops, OwnerOK, WritesOK

(* A new record is beyond every position and every commit. *)
LEMMA PublishKeeps == ASSUME IInv, Publish PROVE IInv'
<1>1. PICK r \in Record : topic' = Append(topic, r)
    BY DEF Publish
<1>2. /\ retained' = retained \cup {Len(topic) + 1}
      /\ UNCHANGED <<committed, owner, phase, position, todo, view, crashes,
                     rebalances>>
      /\ topic \in Seq(Record) /\ Len(topic) \in Nat
    BY DEF Publish, IInv, TypeOK
<1>3. /\ topic' \in Seq(Record)
      /\ Len(topic') = Len(topic) + 1
      /\ \A o \in 1 .. Len(topic) : topic'[o] = topic[o]
    BY <1>1, <1>2
<1>4. TypeOK'
    <2>1. Offsets' = Offsets \cup {Len(topic) + 1} /\ Offsets = 1 .. Len(topic)
        BY <1>2, <1>3 DEF Offsets
    <2>2. \A e \in Elements : \A o \in Of(e, Offsets) : o \in Of(e, Offsets)'
        BY <1>3, <2>1 DEF Of
    <2>3. retained' \subseteq Offsets'
        BY <1>2, <2>1 DEF IInv, TypeOK
    <2>4. \A i \in Indexers : \A e \in Elements :
            /\ todo[i][e] # 0 => phase[i] = "writing"
            /\ todo[i][e] # 0 => todo[i][e] \in Of(e, Offsets)'
            /\ view[e] # 0 => view[e] \in Of(e, Offsets)'
        BY <2>2 DEF IInv, TypeOK
    <2>5. /\ committed \in 1 .. (Len(topic') + 1)
          /\ position \in [Indexers -> 1 .. (Len(topic') + 1)]
        BY <1>2, <1>3 DEF IInv, TypeOK
    <2>6. QED
        BY <1>2, <1>3, <2>3, <2>4, <2>5 DEF IInv, TypeOK
<1>5. ASSUME NEW o \in retained', NEW p \in 1 .. (Len(topic) + 1), o < p
      PROVE  o \in retained /\ topic'[o] = topic[o]
    <2>1. o \in retained \/ o = Len(topic) + 1
        BY <1>2
    <2>2. o \in retained
        BY <1>2, <1>5, <2>1
    <2>3. QED
        BY <1>3, <2>2 DEF IInv, TypeOK, Offsets
<1>6. CommittedIsApplied' /\ MalformedStops'
    BY <1>2, <1>5 DEF IInv, TypeOK, CommittedIsApplied, Of, MalformedStops
<1>7. ASSUME NEW j \in Indexers PROVE OwnerOK(j)' /\ WritesOK(j)'
    BY <1>2, <1>5 DEF IInv, TypeOK, OwnerOK, WritesOK
<1>8. QED
    BY <1>4, <1>6, <1>7 DEF IInv

LEMMA CompactKeeps == ASSUME IInv, Compact PROVE IInv'
BY DEF Compact, IInv, TypeOK, Offsets, CommittedIsApplied, Of, MalformedStops,
       OwnerOK, WritesOK

LEMMA StepKeeps == ASSUME IInv, PollsInTime, [Next]_vars PROVE IInv'
<1>1. CASE UNCHANGED vars
    BY <1>1 DEF vars, IInv, TypeOK, Offsets, CommittedIsApplied, Of,
                MalformedStops, OwnerOK, WritesOK
<1>2. CASE \E i \in Indexers : Work(i)
    <2>1. PICK i \in Indexers : Work(i)
        BY <1>2
    <2>2. CASE Replace(i) \/ Remove(i)
        <3>1. \E e \in Elements : Apply(i, e)
            BY <2>2 DEF Replace, Remove, Upserts
        <3>2. QED
            BY <3>1, ApplyKeeps
    <2>3. QED
        BY <2>1, <2>2, StartKeeps, PollKeeps, CommitKeeps DEF Work
<1>3. QED
    BY <1>1, <1>2, JoinKeeps, CrashKeeps, RebalanceKeeps, PublishKeeps,
       CompactKeeps DEF Next

-----------------------------------------------------------------------------
(* The theorems *)

(* The invariant holds in every state if no replica outlives its assignment. *)
THEOREM IndexerInvariance == ASSUME PollsInTime PROVE Spec => []IInv
<1>1. Init => IInv
    BY InitEstablishes
<1>2. IInv /\ [Next]_vars => IInv'
    BY StepKeeps
<1>3. QED
    BY <1>1, <1>2, PTL DEF Spec

(* Type correctness of the indexer. *)
THEOREM IndexerTypeCorrect == ASSUME PollsInTime PROVE Spec => []TypeOK
<1>1. IInv => TypeOK
    BY DEF IInv
<1>2. QED
    BY <1>1, IndexerInvariance, PTL

(***************************************************************************)
(* Offsets are committed after the writes: the database is never behind    *)
(* the committed offset, through crashes, replays and rebalances.          *)
(***************************************************************************)
THEOREM CommittedOffsetsAreApplied ==
    ASSUME PollsInTime PROVE Spec => []CommittedIsApplied
<1>1. IInv => CommittedIsApplied
    BY DEF IInv
<1>2. QED
    BY <1>1, IndexerInvariance, PTL

(* The committed offset never passes a record that cannot be decoded. *)
THEOREM MalformedRecordsStop ==
    ASSUME PollsInTime PROVE Spec => []MalformedStops
<1>1. IInv => MalformedStops
    BY DEF IInv
<1>2. QED
    BY <1>1, IndexerInvariance, PTL
=============================================================================
