--------------------------- MODULE RecoveryProofs ---------------------------
(***************************************************************************)
(* Why a replay repairs the topic, for any log, any number of failures and *)
(* any contributors: the lifecycle says the same again when it reads the   *)
(* same again, and it is silent only where the topic has what it would say.*)
(*                                                                         *)
(* The facts about the lifecycle operator are those of its own proofs,     *)
(* which hold for its instance in the job.                                 *)
(***************************************************************************)
EXTENDS Recovery, TLAPS

Proved == INSTANCE ElementLifecycleProofs
    WITH TicksPerSecond <- 1, LegacyStates <- {}, published <- emitted,
         QuietAfter <- MaxProcessingTime

-----------------------------------------------------------------------------
(* The instance of the proofs is the instance of the specification *)

LEMMA ElementAssumptions ==
    /\ Proved!ContributorsAssumption
    /\ Proved!TimeAssumption
    /\ Proved!NullAssumption
    /\ Proved!InputAssumption
    /\ Proved!ClockAssumption
    /\ Proved!NullEventAssumption
BY LifecycleAssumption
   DEF Lifecycle!ContributorsAssumption, Proved!ContributorsAssumption,
       Lifecycle!TimeAssumption, Proved!TimeAssumption,
       Lifecycle!NullAssumption, Proved!NullAssumption,
       Lifecycle!InputAssumption, Proved!InputAssumption,
       Lifecycle!ClockAssumption, Proved!ClockAssumption,
       Lifecycle!NullEventAssumption, Proved!NullEventAssumption,
       Lifecycle!IsFiniteSet, Proved!IsFiniteSet,
       Lifecycle!Element, Proved!Element, Lifecycle!Snapshot, Proved!Snapshot,
       Lifecycle!AttributeWinners, Proved!AttributeWinners,
       Lifecycle!PayloadHash, Proved!PayloadHash,
       Lifecycle!ContributorMap, Proved!ContributorMap,
       Lifecycle!NoContributors, Proved!NoContributors,
       Lifecycle!Event, Proved!Event, Lifecycle!Delete, Proved!Delete,
       Lifecycle!Upsert, Proved!Upsert

LEMMA SameValues ==
    /\ Lifecycle!Observations = Proved!Observations
    /\ Lifecycle!Delete = Proved!Delete
    /\ \A s : Lifecycle!Present(s) = Proved!Present(s)
    /\ \A e : Lifecycle!Upsert(e) = Proved!Upsert(e)
    /\ \A s : Lifecycle!Merge(s) = Proved!Merge(s)
BY DEF Lifecycle!Observations, Proved!Observations, Lifecycle!Delete, Proved!Delete,
       Lifecycle!Present, Proved!Present, Lifecycle!Upsert, Proved!Upsert,
       Lifecycle!Merge, Proved!Merge, Lifecycle!Holders, Proved!Holders,
       Lifecycle!Winner, Proved!Winner, Lifecycle!Wins, Proved!Wins

LEMMA SameInit == Lifecycle!Init <=> Proved!Init
BY DEF Lifecycle!Init, Proved!Init, Lifecycle!NoContributors, Proved!NoContributors,
       Lifecycle!Present, Proved!Present, Lifecycle!PayloadHash, Proved!PayloadHash,
       Lifecycle!Upsert, Proved!Upsert,
       Lifecycle!Merge, Proved!Merge, Lifecycle!Holders, Proved!Holders,
       Lifecycle!Winner, Proved!Winner, Lifecycle!Wins, Proved!Wins,
       Lifecycle!NextEventTimer, Proved!NextEventTimer,
       Lifecycle!NextProcessingTimer, Proved!NextProcessingTimer,
       Lifecycle!CoalescedTimer, Proved!CoalescedTimer, Lifecycle!Min, Proved!Min

LEMMA SameProcessElement ==
    ASSUME NEW o
    PROVE  Lifecycle!ProcessElement(o) <=> Proved!ProcessElement(o)
BY DEF Lifecycle!ProcessElement, Proved!ProcessElement,
       Lifecycle!SnapshotOf, Proved!SnapshotOf,
       Lifecycle!EventTimerDue, Proved!EventTimerDue,
       Lifecycle!IgnoreOlder, Proved!IgnoreOlder, Lifecycle!IsOlder, Proved!IsOlder,
       Lifecycle!CollectNothing, Proved!CollectNothing, Lifecycle!state, Proved!state,
       Lifecycle!timers, Proved!timers, Lifecycle!clocks, Proved!clocks,
       Lifecycle!ObserveIncrementally, Proved!ObserveIncrementally,
       Lifecycle!ObserveWithRebuild, Proved!ObserveWithRebuild,
       Lifecycle!NextIndex, Proved!NextIndex, Lifecycle!Index, Proved!Index,
       Lifecycle!Rebuild, Proved!Rebuild, Lifecycle!Merge, Proved!Merge,
       Lifecycle!Owners, Proved!Owners, Lifecycle!Winner, Proved!Winner,
       Lifecycle!Holders, Proved!Holders, Lifecycle!Present, Proved!Present,
       Lifecycle!Wins, Proved!Wins, Lifecycle!NoContributors, Proved!NoContributors,
       Lifecycle!ObserveIndex, Proved!ObserveIndex, Lifecycle!Takes, Proved!Takes,
       Lifecycle!PayloadHash, Proved!PayloadHash,
       Lifecycle!ObserveThrows, Proved!ObserveThrows, Lifecycle!Loses, Proved!Loses,
       Lifecycle!LosesAttribute, Proved!LosesAttribute,
       Lifecycle!LoadStateThrows, Proved!LoadStateThrows,
       Lifecycle!MissingOwner, Proved!MissingOwner,
       Lifecycle!OwnersRead, Proved!OwnersRead, Lifecycle!ValidIndex, Proved!ValidIndex,
       Lifecycle!AdvanceTimers, Proved!AdvanceTimers,
       Lifecycle!Advanced, Proved!Advanced, Lifecycle!Replaced, Proved!Replaced,
       Lifecycle!CoalescedTimer, Proved!CoalescedTimer,
       Lifecycle!Collect, Proved!Collect, Lifecycle!Upsert, Proved!Upsert,
       Lifecycle!PersistState, Proved!PersistState,
       Lifecycle!ScheduleTimers, Proved!ScheduleTimers,
       Lifecycle!NextEventTimer, Proved!NextEventTimer,
       Lifecycle!NextProcessingTimer, Proved!NextProcessingTimer,
       Lifecycle!CollectIfChanged, Proved!CollectIfChanged,
       Lifecycle!Cardinality, Proved!Cardinality, Lifecycle!Min, Proved!Min

LEMMA SameTimers ==
    /\ Lifecycle!OnTimer <=> Proved!OnTimer
    /\ Lifecycle!OnFallbackTimer <=> Proved!OnFallbackTimer
BY DEF Lifecycle!OnTimer, Proved!OnTimer,
       Lifecycle!OnFallbackTimer, Proved!OnFallbackTimer,
       Lifecycle!OnEventTimer, Proved!OnEventTimer,
       Lifecycle!OnProcessingTimer, Proved!OnProcessingTimer,
       Lifecycle!EventTimerDue, Proved!EventTimerDue,
       Lifecycle!ExpireContributors, Proved!ExpireContributors,
       Lifecycle!EventExpired, Proved!EventExpired,
       Lifecycle!ProcessingExpired, Proved!ProcessingExpired,
       Lifecycle!Without, Proved!Without,
       Lifecycle!CollectNothing, Proved!CollectNothing, Lifecycle!state, Proved!state,
       Lifecycle!clocks, Proved!clocks,
       Lifecycle!Rebuild, Proved!Rebuild, Lifecycle!Merge, Proved!Merge,
       Lifecycle!Owners, Proved!Owners, Lifecycle!Winner, Proved!Winner,
       Lifecycle!Holders, Proved!Holders, Lifecycle!Present, Proved!Present,
       Lifecycle!Wins, Proved!Wins, Lifecycle!PayloadHash, Proved!PayloadHash,
       Lifecycle!LoadStateThrows, Proved!LoadStateThrows,
       Lifecycle!Replaced, Proved!Replaced,
       Lifecycle!CoalescedTimer, Proved!CoalescedTimer,
       Lifecycle!Collect, Proved!Collect, Lifecycle!Upsert, Proved!Upsert,
       Lifecycle!Delete, Proved!Delete,
       Lifecycle!PersistState, Proved!PersistState,
       Lifecycle!ScheduleTimers, Proved!ScheduleTimers,
       Lifecycle!NextEventTimer, Proved!NextEventTimer,
       Lifecycle!NextProcessingTimer, Proved!NextProcessingTimer,
       Lifecycle!CollectIfChanged, Proved!CollectIfChanged,
       Lifecycle!Cardinality, Proved!Cardinality, Lifecycle!Min, Proved!Min

LEMMA SameClockSteps ==
    /\ Lifecycle!AdvanceWatermark <=> Proved!AdvanceWatermark
    /\ Lifecycle!Tick <=> Proved!Tick
BY DEF Lifecycle!AdvanceWatermark, Proved!AdvanceWatermark, Lifecycle!Tick, Proved!Tick,
       Lifecycle!EventTimerDue, Proved!EventTimerDue, Lifecycle!state, Proved!state,
       Lifecycle!timers, Proved!timers

-----------------------------------------------------------------------------
(* The state of the operator, running or saved *)

(* What a checkpoint has to hold for the operator to go on from it. *)
Consistent(s) ==
    /\ s.contributors \in Proved!ContributorMap
    /\ s.aggregate \in {Proved!PayloadHash(e) : e \in Proved!Element} \cup {Null}
    /\ s.winners \in Proved!AttributeWinners \cup {Null}
    /\ s.eventTimer \in Nat \cup {Null}
    /\ s.processingTimer \in Nat \cup {Null}
    /\ s.eventTimers \in SUBSET Nat
    /\ s.processingTimers \in SUBSET Nat
    /\ s.emitted \in Proved!Event \cup {Null}
    /\ s.winners # Null => s.winners = Proved!Rebuild(s.contributors)
    /\ s.aggregate = IF Proved!Present(s.contributors) = {} THEN Null
                     ELSE Proved!PayloadHash(Proved!Merge(s.contributors))
    /\ Proved!Present(s.contributors) = {} => s.winners = Null
    /\ IF Proved!Present(s.contributors) = {}
         THEN s.emitted \in {Null, Proved!Delete}
         ELSE s.emitted = Proved!Upsert(Proved!Merge(s.contributors))
    /\ s.eventTimers = {s.eventTimer} \ {Null}
    /\ s.processingTimers = {s.processingTimer} \ {Null}
    /\ Proved!Present(s.contributors) = {} => s.eventTimer = Null /\ s.processingTimer = Null
    /\ \A c \in Proved!Present(s.contributors) :
        /\ s.eventTimer # Null
        /\ s.eventTimer <= Proved!CoalescedTimer(s.contributors[c].eventExpiresAt)
        /\ s.processingTimer # Null
        /\ s.processingTimer <= Proved!CoalescedTimer(s.contributors[c].processingExpiresAt)

LEMMA ConsistentOperator ==
    Proved!IInv <=> /\ Consistent(Snapshot)
                    /\ watermark \in 0 .. MaxEventTime
                    /\ now \in 0 .. MaxProcessingTime
                    /\ output \in Proved!Event \cup {Null}
BY DEF Proved!IInv, Proved!TypeOK, Proved!IndexIsRebuild, Proved!PublishedIsMerge,
       Proved!TimersArmed, Consistent, Snapshot

(* The events of the operator reach the producer in order. *)
Newest == IF sending = <<>> THEN topic ELSE sending[Len(sending)]

LEMMA SendAppends ==
    ASSUME sending \in Seq(Proved!Event), Send, output' \in Proved!Event \cup {Null}, topic' = topic
    PROVE  /\ sending' \in Seq(Proved!Event)
           /\ IF output' = Null
                THEN sending' = sending /\ Newest' = Newest
                ELSE sending' # <<>> /\ Newest' = output'
<1>1. CASE output' = Null
    BY <1>1 DEF Send, Newest
<1>2. CASE output' # Null
    <2>1. sending' = Append(sending, output') /\ output' \in Proved!Event
        BY <1>2 DEF Send
    <2>2. /\ sending' \in Seq(Proved!Event)
          /\ Len(sending') = Len(sending) + 1 /\ sending'[Len(sending) + 1] = output'
        BY <2>1
    <2>3. Len(sending) \in Nat /\ Len(<<>>) = 0
        OBVIOUS
    <2>4. sending' # <<>>
        BY <2>2, <2>3
    <2>5. QED
        BY <1>2, <2>2, <2>4 DEF Newest
<1>3. QED
    BY <1>1, <1>2

LEMMA DeliveryKeepsNewest ==
    ASSUME sending \in Seq(Proved!Event), Deliver
    PROVE  sending' \in Seq(Proved!Event) /\ Newest' = Newest
<1>1. sending # <<>> /\ topic' = Head(sending) /\ sending' = Tail(sending)
    BY DEF Deliver
<1>2. /\ Len(sending) \in Nat \ {0}
      /\ Head(sending) = sending[1]
      /\ sending' \in Seq(Proved!Event) /\ Len(sending') = Len(sending) - 1
      /\ \A i \in 1 .. Len(sending) - 1 : sending'[i] = sending[i + 1]
    BY <1>1
<1>3. CASE Len(sending) = 1
    <2>1. sending' = <<>>
        BY <1>2, <1>3
    <2>2. QED
        BY <1>1, <1>2, <1>3, <2>1 DEF Newest
<1>4. CASE Len(sending) # 1
    <2>1. sending' # <<>>
        BY <1>2, <1>4
    <2>2. Len(sending') \in 1 .. Len(sending) - 1
        BY <1>2, <1>4
    <2>3. sending'[Len(sending')] = sending[Len(sending)]
        BY <1>2, <2>2
    <2>4. QED
        BY <1>1, <1>2, <2>1, <2>3 DEF Newest
<1>5. QED
    BY <1>3, <1>4

-----------------------------------------------------------------------------
(* The parts of the invariant that hold whatever happens *)

Base ==
    /\ Proved!IInv
    /\ Consistent(checkpoint)
    /\ log \in Seq(Proved!Observations)
    /\ sending \in Seq(Proved!Event)
    /\ offset \in Nat /\ reached \in Nat /\ checkpoint.offset \in Nat
    /\ checkpoint.offset <= offset
    /\ offset <= reached
    /\ reached <= Len(log)

LEMMA InitIsBase == Init => Base
<1> SUFFICES ASSUME Init PROVE Base
    OBVIOUS
<1>1. Proved!IInv
    BY SameInit, ElementAssumptions, Proved!InitEstablishes DEF Init
<1>2. Consistent(checkpoint) /\ checkpoint.offset = 0
    BY <1>1, ConsistentOperator DEF Init, Snapshot
<1>3. QED
    BY <1>1, <1>2 DEF Init, Base

(* What the log holds can be processed. *)
LEMMA NextIsObservation ==
    ASSUME Base, offset < Len(log)
    PROVE  log[offset + 1] \in Proved!Observations
BY DEF Base

LEMMA ReadIsStep ==
    ASSUME Base, Read
    PROVE  Proved!IInv' /\ Proved!ProcessElement(log[offset + 1])
<1>1. /\ log[offset + 1] \in Proved!Observations
      /\ Proved!ProcessElement(log[offset + 1])
    BY NextIsObservation, SameProcessElement DEF Read
<1>2. Proved!Next
    BY <1>1 DEF Proved!Next
<1>3. Proved!IInv'
    BY <1>2, ElementAssumptions, Proved!StepPreserves DEF Base
<1>4. QED
    BY <1>1, <1>3

LEMMA TimerIsStep ==
    ASSUME Base, Timer
    PROVE  Proved!IInv' /\ (Proved!OnTimer \/ Proved!OnFallbackTimer)
<1>1. Proved!OnTimer \/ Proved!OnFallbackTimer
    BY SameTimers DEF Timer
<1>2. Proved!Next
    BY <1>1 DEF Proved!Next
<1>3. Proved!IInv'
    BY <1>2, ElementAssumptions, Proved!StepPreserves DEF Base
<1>4. QED
    BY <1>1, <1>3

LEMMA ClocksAreSteps ==
    ASSUME Base, Watermark \/ Tick
    PROVE  Proved!IInv' /\ UNCHANGED state /\ UNCHANGED emitted
<1>1. Proved!AdvanceWatermark \/ Proved!Tick
    BY SameClockSteps DEF Watermark, Tick
<1>2. Proved!Next
    BY <1>1 DEF Proved!Next
<1>3. Proved!IInv'
    BY <1>2, ElementAssumptions, Proved!StepPreserves DEF Base
<1>4. UNCHANGED state /\ UNCHANGED emitted
    BY <1>1 DEF Proved!AdvanceWatermark, Proved!Tick, Proved!state, state
<1>5. QED
    BY <1>3, <1>4

LEMMA IdleIsStep ==
    ASSUME Base, UNCHANGED <<operator, now>>
    PROVE  Proved!IInv'
<1>1. UNCHANGED Proved!vars
    BY DEF operator, state, timers, Proved!vars
<1>2. QED
    BY <1>1, ElementAssumptions, Proved!StepPreserves DEF Base

LEMMA RestoreIsConsistent ==
    ASSUME Base, FailAndRestore
    PROVE  Proved!IInv'
<1>1. /\ Snapshot' = [contributors |-> checkpoint.contributors,
                      aggregate |-> checkpoint.aggregate, winners |-> checkpoint.winners,
                      eventTimer |-> checkpoint.eventTimer,
                      processingTimer |-> checkpoint.processingTimer,
                      eventTimers |-> checkpoint.eventTimers,
                      processingTimers |-> checkpoint.processingTimers,
                      emitted |-> checkpoint.emitted, offset |-> checkpoint.offset]
      /\ watermark' = 0 /\ now' = now /\ output' = Null
    BY DEF FailAndRestore, Snapshot, ResumeAt
<1>2. Consistent(Snapshot')
    BY <1>1 DEF Base, Consistent
<1>3. Consistent(Snapshot)'
    BY <1>2 DEF Consistent, Snapshot
<1>4. 0 \in 0 .. MaxEventTime
    BY ElementAssumptions DEF Proved!TimeAssumption
<1>5. now \in 0 .. MaxProcessingTime
    BY ConsistentOperator DEF Base
<1>6. (Proved!IInv <=> /\ Consistent(Snapshot)
                       /\ watermark \in 0 .. MaxEventTime
                       /\ now \in 0 .. MaxProcessingTime
                       /\ output \in Proved!Event \cup {Null})'
    BY ConsistentOperator, PTL
<1>7. QED
    BY <1>1, <1>3, <1>4, <1>5, <1>6

LEMMA StepIsBase == Base /\ [Next]_vars => Base'
<1> SUFFICES ASSUME Base, [Next]_vars
             PROVE  Base'
    OBVIOUS
<1> USE DEF Base
<1>1. ASSUME NEW o \in Lifecycle!Observations, Observe(o)
      PROVE  Base'
    <2>1. Proved!IInv'
        BY <1>1, IdleIsStep DEF Observe
    <2>2. log' = Append(log, o) /\ o \in Proved!Observations
        BY <1>1, SameValues DEF Observe
    <2>3. log' \in Seq(Proved!Observations) /\ Len(log') = Len(log) + 1
        BY <2>2
    <2>4. Len(log) \in Nat
        OBVIOUS
    <2>5. UNCHANGED <<checkpoint, sending, offset, reached>>
        BY <1>1 DEF Observe
    <2>6. QED
        BY <2>1, <2>3, <2>4, <2>5 DEF Consistent
<1>2. ASSUME Read PROVE Base'
    <2>1. Proved!IInv'
        BY <1>2, ReadIsStep
    <2>2. output' \in Proved!Event \cup {Null}
        BY <2>1 DEF Proved!IInv, Proved!TypeOK
    <2>3. sending' \in Seq(Proved!Event)
        BY <1>2, <2>2, SendAppends DEF Read
    <2>4. /\ offset < Len(log) /\ offset' = offset + 1
          /\ reached' = (IF reached > offset' THEN reached ELSE offset')
          /\ UNCHANGED <<checkpoint, log>>
        BY <1>2 DEF Read, Greater
    <2>5. Len(log) \in Nat
        OBVIOUS
    <2>6. QED
        BY <2>1, <2>3, <2>4, <2>5 DEF Consistent
<1>3. ASSUME Timer PROVE Base'
    <2>1. Proved!IInv'
        BY <1>3, TimerIsStep
    <2>2. output' \in Proved!Event \cup {Null}
        BY <2>1 DEF Proved!IInv, Proved!TypeOK
    <2>3. sending' \in Seq(Proved!Event)
        BY <1>3, <2>2, SendAppends DEF Timer
    <2>4. UNCHANGED <<checkpoint, log, offset, reached>>
        BY <1>3 DEF Timer
    <2>5. QED
        BY <2>1, <2>3, <2>4 DEF Consistent
<1>4. ASSUME Watermark \/ Tick PROVE Base'
    <2>1. Proved!IInv'
        BY <1>4, ClocksAreSteps
    <2>2. UNCHANGED <<checkpoint, log, offset, reached, sending>>
        BY <1>4 DEF Watermark, Tick
    <2>3. QED
        BY <2>1, <2>2 DEF Consistent
<1>5. ASSUME Deliver PROVE Base'
    <2>1. Proved!IInv'
        BY <1>5, IdleIsStep DEF Deliver
    <2>2. sending' \in Seq(Proved!Event)
        BY <1>5, DeliveryKeepsNewest
    <2>3. UNCHANGED <<checkpoint, log, offset, reached>>
        BY <1>5 DEF Deliver
    <2>4. QED
        BY <2>1, <2>2, <2>3 DEF Consistent
<1>6. ASSUME Checkpoint PROVE Base'
    <2>1. Proved!IInv'
        BY <1>6, IdleIsStep DEF Checkpoint
    <2>2. checkpoint' = Snapshot /\ UNCHANGED <<log, offset, reached, sending>>
        BY <1>6 DEF Checkpoint
    <2>3. Consistent(Snapshot) /\ Snapshot.offset = offset
        BY ConsistentOperator DEF Snapshot
    <2>4. Consistent(checkpoint')
        BY <2>2, <2>3
    <2>5. Consistent(checkpoint)'
        BY <2>4 DEF Consistent
    <2>6. QED
        BY <2>1, <2>2, <2>3, <2>5
<1>7. ASSUME FailAndRestore PROVE Base'
    <2>1. Proved!IInv'
        BY <1>7, RestoreIsConsistent
    <2>2. /\ sending' = <<>> /\ offset' = checkpoint.offset
          /\ UNCHANGED <<checkpoint, log, reached>>
        BY <1>7 DEF FailAndRestore, ResumeAt
    <2>3. QED
        BY <2>1, <2>2 DEF Consistent
<1>8. ASSUME UNCHANGED vars PROVE Base'
    <2>1. Proved!IInv'
        BY <1>8, IdleIsStep DEF vars
    <2>2. QED
        BY <1>8, <2>1 DEF vars, Consistent
<1>9. QED
    BY <1>1, <1>2, <1>3, <1>4, <1>5, <1>6, <1>7, <1>8 DEF Next, Quiescent

-----------------------------------------------------------------------------
(* Reading again says the same again *)

(* A contributor map without the deadlines, which depend on the clocks. *)
Timeless(s) ==
    [c \in Contributors |->
        IF s[c] = Null THEN Null
        ELSE [observedAt |-> s[c].observedAt, eventExpiresAt |-> 0,
              processingExpiresAt |-> 0, element |-> s[c].element]]

(* Such a map after an observation. *)
Applied(s, o) ==
    IF s[o.contributorId] # Null /\ o.observedAt < s[o.contributorId].observedAt
        THEN s
        ELSE [s EXCEPT ![o.contributorId] =
                [observedAt |-> o.observedAt, eventExpiresAt |-> 0,
                 processingExpiresAt |-> 0, element |-> o.element]]

LEMMA TimelessSaysTheSame ==
    ASSUME NEW s \in Proved!ContributorMap
    PROVE  Proved!Says(Timeless(s)) = Proved!Says(s)
<1> DEFINE t == Timeless(s)
<1>1. /\ Null \notin Proved!Snapshot
      /\ 0 \in Nat
    BY ElementAssumptions DEF Proved!NullAssumption
<1>2. ASSUME NEW c \in Contributors
      PROVE  /\ t[c] \in Proved!Snapshot \cup {Null}
             /\ s[c] = Null <=> t[c] = Null
             /\ s[c] # Null => /\ s[c].observedAt = t[c].observedAt
                               /\ s[c].element = t[c].element
    <2>1. s[c] \in Proved!Snapshot \cup {Null}
        BY DEF Proved!ContributorMap
    <2>2. CASE s[c] = Null
        BY <2>2 DEF Timeless
    <2>3. CASE s[c] \in Proved!Snapshot
        <3>1. t[c] = [observedAt |-> s[c].observedAt, eventExpiresAt |-> 0,
                      processingExpiresAt |-> 0, element |-> s[c].element]
            BY <1>1, <2>3 DEF Timeless
        <3>2. t[c] \in Proved!Snapshot
            BY <1>1, <2>3, <3>1 DEF Proved!Snapshot
        <3>3. QED
            BY <1>1, <2>3, <3>1, <3>2
    <2>4. QED
        BY <2>1, <2>2, <2>3
<1>3. t \in Proved!ContributorMap
    BY <1>2 DEF Proved!ContributorMap, Timeless
<1> HIDE DEF t
<1>4. Proved!Present(s) = Proved!Present(t) /\ Proved!Merge(s) = Proved!Merge(t)
    BY <1>2, <1>3, ElementAssumptions, Proved!MergeIgnoresDeadlines DEF Proved!Present
<1>5. QED
    BY <1>4 DEF Proved!Says, t

(***************************************************************************)
(* The lifecycle's answer to an observation depends only on what its       *)
(* contributors have said: it speaks exactly if that changes.              *)
(***************************************************************************)
LEMMA ReadRepeats ==
    ASSUME Base, Read
    PROVE  /\ Timeless(contributors') = Applied(Timeless(contributors), log[offset + 1])
           /\ emitted' = IF output' = Null THEN emitted ELSE output'
           /\ output' = Null <=> Proved!Says(Timeless(contributors'))
                                    = Proved!Says(Timeless(contributors))
<1> DEFINE o == log[offset + 1]
           c == o.contributorId
           snapshot == Proved!SnapshotOf(o, watermark, now)
<1>1. /\ Proved!IInv' /\ Proved!ProcessElement(o)
      /\ o \in Proved!Observations
    BY ReadIsStep, NextIsObservation DEF Read
<1>2. /\ contributors \in Proved!ContributorMap
      /\ contributors' \in Proved!ContributorMap
      /\ watermark \in Nat /\ now \in Nat
      /\ o \in Proved!Contribution /\ c \in Contributors
    BY <1>1, ElementAssumptions, Proved!ObservationIsContribution
       DEF Base, Proved!IInv, Proved!TypeOK, Proved!TimeAssumption, Proved!ClockAssumption
<1>3. IF Proved!IsOlder(o)
        THEN contributors' = contributors
        ELSE contributors' = [contributors EXCEPT ![c] = snapshot]
    BY <1>1, ElementAssumptions, Proved!ProcessElementReplaces DEF Base
<1>4. /\ snapshot \in Proved!Snapshot
      /\ snapshot.observedAt = o.observedAt /\ snapshot.element = o.element
    BY <1>2, ElementAssumptions, Proved!SnapshotOfFacts
<1>5. Null \notin Proved!Snapshot
    BY ElementAssumptions DEF Proved!NullAssumption
<1> HIDE DEF snapshot, o
<1>6. Proved!Present(contributors') # {}
    BY <1>2, <1>3, <1>4, <1>5 DEF Proved!IsOlder, Proved!Present, Proved!ContributorMap
<1>7. Timeless(contributors') = Applied(Timeless(contributors), o)
    <2>1. Proved!IsOlder(o) <=> /\ Timeless(contributors)[c] # Null
                                /\ o.observedAt < Timeless(contributors)[c].observedAt
        <3>1. contributors[c] \in Proved!Snapshot \cup {Null}
            BY <1>2 DEF Proved!ContributorMap
        <3>2. ASSUME contributors[c] \in Proved!Snapshot
              PROVE  /\ Timeless(contributors)[c] # Null
                     /\ Timeless(contributors)[c].observedAt = contributors[c].observedAt
            <4>1. Timeless(contributors)[c] =
                    [observedAt |-> contributors[c].observedAt, eventExpiresAt |-> 0,
                     processingExpiresAt |-> 0, element |-> contributors[c].element]
                BY <1>2, <1>5, <3>2 DEF Timeless
            <4>2. Timeless(contributors)[c] \in Proved!Snapshot
                BY <3>2, <4>1 DEF Proved!Snapshot
            <4>3. QED
                BY <1>5, <4>1, <4>2
        <3>3. contributors[c] = Null => Timeless(contributors)[c] = Null
            BY <1>2 DEF Timeless
        <3>4. QED
            BY <1>5, <3>1, <3>2, <3>3 DEF Proved!IsOlder
    <2>2. CASE Proved!IsOlder(o)
        BY <1>3, <2>1, <2>2 DEF Applied
    <2>3. CASE ~Proved!IsOlder(o)
        <3>1. contributors' = [contributors EXCEPT ![c] = snapshot] /\ snapshot # Null
            BY <1>3, <1>4, <1>5, <2>3
        <3>2. Applied(Timeless(contributors), o) =
                [Timeless(contributors) EXCEPT ![c] =
                    [observedAt |-> o.observedAt, eventExpiresAt |-> 0,
                     processingExpiresAt |-> 0, element |-> o.element]]
            BY <2>1, <2>3 DEF Applied
        <3>3. contributors = [d \in Contributors |-> contributors[d]]
            BY <1>2 DEF Proved!ContributorMap
        <3>4. QED
            BY <1>2, <1>4, <3>1, <3>2, <3>3 DEF Timeless
    <2>4. QED
        BY <2>2, <2>3
<1>8. Proved!EmitsChange
    BY <1>1, ElementAssumptions, Proved!CallbackEmits DEF Base
<1>9. output' = Null <=> Proved!Says(contributors') = Proved!Says(contributors)
    BY <1>1, <1>6, <1>8, ElementAssumptions, Proved!EmitsWhatIsSaid DEF Base
<1>10. emitted' = IF output' = Null THEN emitted ELSE output'
    BY <1>8 DEF Proved!EmitsChange, Proved!CollectNothing
<1>11. QED
    BY <1>2, <1>7, <1>9, <1>10, TimelessSaysTheSame DEF o

-----------------------------------------------------------------------------
(* What a replay finds *)

(* Nothing new is said by the k-th record after h[k]. *)
Idle(h, k) == Proved!Says(h[k + 1]) = Proved!Says(h[k])

(***************************************************************************)
(* h[k] is what the contributors have said in the first k records, from    *)
(* the checkpoint to where any attempt has read; the operator is on this   *)
(* path.  If it will say nothing more until it has caught up, the topic    *)
(* has, or is about to have, what it said last; and if nothing is new      *)
(* since the checkpoint, nothing has been sent since.                      *)
(***************************************************************************)
Path(h) ==
    /\ h[checkpoint.offset] = Timeless(checkpoint.contributors)
    /\ h[offset] = Timeless(contributors)
    /\ \A k \in checkpoint.offset .. reached - 1 : h[k + 1] = Applied(h[k], log[k + 1])
    /\ (\A k \in offset .. reached - 1 : Idle(h, k)) => Newest = emitted
    /\ (\A k \in checkpoint.offset .. reached - 1 : Idle(h, k))
            => sending = <<>> /\ topic = checkpoint.emitted

(* An expiry that nothing has undone happened after all replays. *)
Expired == offset = reached /\ Newest = emitted

Repairable == IF expired THEN Expired ELSE \E h : Path(h)

IInv == Base /\ (~raced => Repairable)

LEMMA InitIsRepairable == Init => Repairable
<1> SUFFICES ASSUME Init PROVE Repairable
    OBVIOUS
<1> DEFINE h == [k \in {0} |-> Timeless(contributors)]
<1>1. /\ checkpoint.offset = 0 /\ checkpoint.contributors = contributors
      /\ checkpoint.emitted = emitted
      /\ offset = 0 /\ reached = 0 /\ sending = <<>> /\ topic = Null /\ ~expired
    BY DEF Init, Snapshot
<1>2. emitted = Null
    <2>1. Proved!IInv /\ Proved!Init
        BY SameInit, ElementAssumptions, Proved!InitEstablishes DEF Init
    <2>2. Proved!Present(contributors) = {}
        BY <2>1 DEF Proved!Init, Proved!NoContributors, Proved!Present
    <2>3. QED
        BY <2>1, <2>2 DEF Proved!Init
<1>3. Path(h)
    BY <1>1, <1>2 DEF Path, Newest
<1>4. QED
    BY <1>1, <1>3 DEF Repairable

(* A replayed record is one of the path. *)
LEMMA ReplayKeepsPath ==
    ASSUME Base, Base', Read, offset < reached, NEW h, Path(h)
    PROVE  Path(h)'
<1> DEFINE o == log[offset + 1]
<1>1. /\ offset' = offset + 1 /\ reached' = reached
      /\ UNCHANGED <<log, topic, checkpoint>>
    BY DEF Base, Read, Greater
<1>2. /\ Timeless(contributors') = Applied(Timeless(contributors), o)
      /\ emitted' = IF output' = Null THEN emitted ELSE output'
      /\ output' = Null <=> Proved!Says(Timeless(contributors'))
                               = Proved!Says(Timeless(contributors))
    BY ReadRepeats
<1>3. IF output' = Null
        THEN sending' = sending /\ Newest' = Newest
        ELSE sending' # <<>> /\ Newest' = output'
    BY SendAppends DEF Read, Base, Proved!IInv, Proved!TypeOK
<1>4. h[offset + 1] = Timeless(contributors')
    BY <1>2 DEF Path, Base
<1>5. output' = Null <=> Idle(h, offset)
    BY <1>2, <1>4 DEF Path, Idle
<1>6. (\A k \in offset' .. reached' - 1 : Idle(h, k)) => Newest' = emitted'
    <2> SUFFICES ASSUME \A k \in offset + 1 .. reached - 1 : Idle(h, k)
                 PROVE  Newest' = emitted'
        BY <1>1
    <2>1. CASE output' = Null
        <3>1. \A k \in offset .. reached - 1 : k = offset \/ k \in offset + 1 .. reached - 1
            BY DEF Base
        <3>2. \A k \in offset .. reached - 1 : Idle(h, k)
            BY <1>5, <2>1, <3>1
        <3>3. QED
            BY <1>2, <1>3, <2>1, <3>2 DEF Path
    <2>2. CASE output' # Null
        BY <1>2, <1>3, <2>2
    <2>3. QED
        BY <2>1, <2>2
<1>7. (\A k \in checkpoint'.offset .. reached' - 1 : Idle(h, k))
        => sending' = <<>> /\ topic' = checkpoint'.emitted
    <2> SUFFICES ASSUME \A k \in checkpoint.offset .. reached - 1 : Idle(h, k)
                 PROVE  sending' = <<>> /\ topic' = checkpoint.emitted
        BY <1>1
    <2>1. Idle(h, offset)
        BY DEF Base
    <2>2. QED
        BY <1>1, <1>3, <1>5, <2>1 DEF Path
<1>8. QED
    BY <1>1, <1>4, <1>6, <1>7 DEF Path, Idle

(* A new record extends it. *)
LEMMA ReadExtendsPath ==
    ASSUME Base, Base', Read, offset = reached, NEW h, Path(h)
    PROVE  \E g : Path(g)'
<1> DEFINE o == log[offset + 1]
<1>0. PICK g : g = [k \in Nat |-> IF k = reached + 1 THEN Timeless(contributors') ELSE h[k]]
    OBVIOUS
<1>1. /\ offset' = offset + 1 /\ reached' = reached + 1
      /\ UNCHANGED <<log, topic, checkpoint>>
    BY DEF Base, Read, Greater
<1>2. /\ Timeless(contributors') = Applied(Timeless(contributors), o)
      /\ emitted' = IF output' = Null THEN emitted ELSE output'
      /\ output' = Null <=> Proved!Says(Timeless(contributors'))
                               = Proved!Says(Timeless(contributors))
    BY ReadRepeats
<1>3. IF output' = Null
        THEN sending' = sending /\ Newest' = Newest
        ELSE sending' # <<>> /\ Newest' = output'
    BY SendAppends DEF Read, Base, Proved!IInv, Proved!TypeOK
<1>4. /\ g[reached + 1] = Timeless(contributors')
      /\ \A k \in checkpoint.offset .. reached : g[k] = h[k]
    BY <1>0 DEF Base
<1>5. output' = Null <=> Idle(g, reached)
    <2>1. g[reached] = h[reached] /\ h[reached] = Timeless(contributors)
        BY <1>4 DEF Path, Base
    <2>2. QED
        BY <1>2, <1>4, <2>1 DEF Idle
<1>6. \A k \in checkpoint.offset .. reached - 1 : Idle(g, k) <=> Idle(h, k)
    <2> TAKE k \in checkpoint.offset .. reached - 1
    <2>1. g[k] = h[k] /\ g[k + 1] = h[k + 1]
        BY <1>4 DEF Base
    <2>2. QED
        BY <2>1 DEF Idle
<1>7. \A k \in checkpoint.offset .. reached : g[k + 1] = Applied(g[k], log[k + 1])
    <2> TAKE k \in checkpoint.offset .. reached
    <2>1. CASE k = reached
        BY <1>2, <1>4, <2>1 DEF Path, Base
    <2>2. CASE k # reached
        BY <1>4, <2>2 DEF Path, Base
    <2>3. QED
        BY <2>1, <2>2
<1>8. Newest' = emitted'
    <2>1. Newest = emitted
        BY DEF Path, Base
    <2>2. QED
        BY <1>2, <1>3, <2>1
<1>9. (\A k \in checkpoint.offset .. reached : Idle(g, k))
        => sending' = <<>> /\ topic' = checkpoint.emitted
    <2> SUFFICES ASSUME \A k \in checkpoint.offset .. reached : Idle(g, k)
                 PROVE  sending' = <<>> /\ topic' = checkpoint.emitted
        OBVIOUS
    <2>1. \A k \in checkpoint.offset .. reached - 1 : Idle(h, k)
        BY <1>6 DEF Base
    <2>2. output' = Null
        BY <1>5 DEF Base
    <2>3. QED
        BY <1>1, <1>3, <2>1, <2>2 DEF Path
<1>10. Path(g)'
    <2>1. checkpoint'.offset .. reached' - 1 = checkpoint.offset .. reached
        BY <1>1 DEF Base
    <2>2. g[checkpoint'.offset] = Timeless(checkpoint'.contributors)
        <3>1. checkpoint.offset \in checkpoint.offset .. reached
            BY DEF Base
        <3>2. h[checkpoint.offset] = Timeless(checkpoint.contributors)
            BY DEF Path
        <3>3. QED
            BY <1>1, <1>4, <3>1, <3>2
    <2>3. g[offset'] = Timeless(contributors')
        BY <1>1, <1>4
    <2>4. \A k \in checkpoint'.offset .. reached' - 1 : g[k + 1] = Applied(g[k], log'[k + 1])
        BY <1>1, <1>7, <2>1
    <2>5. (\A k \in checkpoint'.offset .. reached' - 1 : Idle(g, k))
            => sending' = <<>> /\ topic' = checkpoint'.emitted
        BY <1>1, <1>9, <2>1
    <2>6. QED
        BY <1>8, <2>2, <2>3, <2>4, <2>5 DEF Path, Idle
<1>11. QED
    BY <1>10

(* New telemetry is behind what has been read. *)
LEMMA ObserveKeepsPath ==
    ASSUME Base, NEW o, Observe(o), NEW h, Path(h)
    PROVE  Path(h)'
<1>1. /\ log' = Append(log, o)
      /\ UNCHANGED <<contributors, emitted, offset, sending, topic, checkpoint, reached>>
    BY DEF Observe, operator, state
<1>2. \A k \in checkpoint.offset .. reached - 1 : log'[k + 1] = log[k + 1]
    BY <1>1 DEF Base
<1>3. Newest' = Newest
    BY <1>1 DEF Newest
<1>4. QED
    BY <1>1, <1>2, <1>3 DEF Path, Timeless, Idle

(* The source has read all of the path: the topic has what was said last. *)
LEMMA EndOfPath ==
    ASSUME Base, offset = reached, Repairable
    PROVE  Newest = emitted
<1>1. CASE expired
    BY <1>1 DEF Repairable, Expired
<1>2. CASE ~expired
    <2>1. PICK h : Path(h)
        BY <1>2 DEF Repairable
    <2>2. offset .. reached - 1 = {}
        BY DEF Base
    <2>3. QED
        BY <2>1, <2>2 DEF Path
<1>3. QED
    BY <1>1, <1>2

LEMMA ReadIsRepairable ==
    ASSUME Base, Base', Read, Repairable
    PROVE  Repairable'
<1>1. expired' = expired
    BY DEF Read
<1>2. CASE expired
    <2>1. offset = reached /\ Newest = emitted
        BY <1>2 DEF Repairable, Expired
    <2>2. offset' = reached'
        BY <2>1 DEF Base, Read, Greater
    <2>3. Newest' = emitted'
        <3>1. emitted' = IF output' = Null THEN emitted ELSE output'
            BY ReadRepeats
        <3>2. IF output' = Null THEN Newest' = Newest ELSE Newest' = output'
            BY SendAppends DEF Read, Base, Proved!IInv, Proved!TypeOK
        <3>3. QED
            BY <2>1, <3>1, <3>2
    <2>4. QED
        BY <1>1, <1>2, <2>2, <2>3 DEF Repairable, Expired
<1>3. CASE ~expired
    <2>1. PICK h : Path(h)
        BY <1>3 DEF Repairable
    <2>2. CASE offset < reached
        BY <1>1, <1>3, <2>1, <2>2, ReplayKeepsPath DEF Repairable
    <2>3. CASE offset = reached
        BY <1>1, <1>3, <2>1, <2>3, ReadExtendsPath DEF Repairable
    <2>4. QED
        BY <2>2, <2>3 DEF Base
<1>4. QED
    BY <1>2, <1>3

LEMMA TimerIsRepairable ==
    ASSUME Base, Base', Timer, Repairable, ~raced'
    PROVE  Repairable'
<1>1. /\ Proved!IInv' /\ (Proved!OnTimer \/ Proved!OnFallbackTimer)
      /\ UNCHANGED <<log, offset, topic, checkpoint, reached>>
    BY TimerIsStep DEF Timer
<1>2. emitted' = IF output' = Null THEN emitted ELSE output'
    <2>1. Proved!EmitsChange
        BY <1>1, ElementAssumptions, Proved!CallbackEmits DEF Base
    <2>2. QED
        BY <2>1 DEF Proved!EmitsChange, Proved!CollectNothing
<1>3. IF output' = Null
        THEN sending' = sending /\ Newest' = Newest
        ELSE sending' # <<>> /\ Newest' = output'
    BY <1>1, SendAppends DEF Timer, Base, Proved!IInv, Proved!TypeOK
<1>4. CASE contributors' = contributors
    <2>1. output' = Null
        BY <1>1, <1>4, ElementAssumptions, Proved!IdleTimerIsSilent DEF Base
    <2>2. /\ emitted' = emitted /\ Newest' = Newest /\ sending' = sending
          /\ expired' <=> expired
        BY <1>2, <1>3, <1>4, <2>1 DEF Timer
    <2>3. CASE expired
        BY <1>1, <2>2, <2>3 DEF Repairable, Expired
    <2>4. CASE ~expired
        <3>1. PICK h : Path(h)
            BY <2>4 DEF Repairable
        <3>2. Path(h)'
            BY <1>1, <1>4, <2>2, <3>1 DEF Path, Timeless, Idle
        <3>3. QED
            BY <2>2, <2>4, <3>2 DEF Repairable
    <2>5. QED
        BY <2>3, <2>4
<1>5. CASE contributors' # contributors
    <2>1. expired' /\ ~(offset < reached)
        BY <1>5 DEF Timer
    <2>2. offset = reached
        BY <2>1 DEF Base
    <2>3. Newest' = emitted'
        BY <1>2, <1>3, <2>2, EndOfPath
    <2>4. QED
        BY <1>1, <2>1, <2>2, <2>3 DEF Repairable, Expired
<1>6. QED
    BY <1>4, <1>5

LEMMA DeliverIsRepairable ==
    ASSUME Base, Deliver, Repairable
    PROVE  Repairable'
<1>1. /\ Newest' = Newest /\ sending # <<>>
      /\ UNCHANGED <<contributors, emitted, log, offset, checkpoint, reached, expired>>
    BY DeliveryKeepsNewest DEF Deliver, Base, operator, state
<1>2. CASE expired
    BY <1>1, <1>2 DEF Repairable, Expired
<1>3. CASE ~expired
    <2>1. PICK h : Path(h)
        BY <1>3 DEF Repairable
    <2>2. Path(h)'
        BY <1>1, <2>1 DEF Path, Timeless, Idle
    <2>3. QED
        BY <1>1, <1>3, <2>2 DEF Repairable
<1>4. QED
    BY <1>2, <1>3

(* From here on the checkpoint is the beginning of the path. *)
LEMMA CheckpointIsRepairable ==
    ASSUME Base, Checkpoint, Repairable
    PROVE  Repairable'
<1>1. /\ checkpoint'.contributors = contributors /\ checkpoint'.emitted = emitted
      /\ checkpoint'.offset = offset
      /\ sending = <<>> /\ ~expired'
      /\ UNCHANGED <<contributors, emitted, log, offset, sending, topic, reached>>
    BY DEF Checkpoint, MayComplete, Snapshot, operator, state
<1>2. Newest = topic /\ Newest' = Newest
    BY <1>1 DEF Newest
<1>3. \E h : Path(h)'
    <2>1. CASE expired
        <3>1. offset = reached /\ Newest = emitted
            BY <2>1 DEF Repairable, Expired
        <3>2. PICK h : h = [k \in {offset} |-> Timeless(contributors)]
            OBVIOUS
        <3>3. offset .. reached - 1 = {}
            BY <3>1 DEF Base
        <3>4. Path(h)'
            BY <1>1, <1>2, <3>1, <3>2, <3>3 DEF Path, Timeless
        <3>5. QED
            BY <3>4
    <2>2. CASE ~expired
        <3>1. PICK h : Path(h)
            BY <2>2 DEF Repairable
        <3>2. \A k \in offset .. reached - 1 : k \in checkpoint.offset .. reached - 1
            BY DEF Base
        <3>3. Path(h)'
            BY <1>1, <1>2, <3>1, <3>2 DEF Path, Timeless, Idle
        <3>4. QED
            BY <3>3
    <2>3. QED
        BY <2>1, <2>2
<1>4. QED
    BY <1>1, <1>3 DEF Repairable

(* The replay begins where the checkpoint was taken. *)
LEMMA RestoreIsRepairable ==
    ASSUME Base, FailAndRestore, Repairable, ~raced'
    PROVE  Repairable'
<1>1. /\ contributors' = checkpoint.contributors /\ emitted' = checkpoint.emitted
      /\ offset' = checkpoint.offset /\ sending' = <<>> /\ ~expired /\ ~expired'
      /\ UNCHANGED <<log, topic, checkpoint, reached>>
    BY DEF FailAndRestore, ResumeAt
<1>2. PICK h : Path(h)
    BY <1>1 DEF Repairable
<1>3. Newest' = topic
    BY <1>1 DEF Newest
<1>4. Path(h)'
    BY <1>1, <1>2, <1>3 DEF Path, Timeless, Idle
<1>5. QED
    BY <1>1, <1>4 DEF Repairable

-----------------------------------------------------------------------------

LEMMA InitEstablishes == Init => IInv
BY InitIsBase, InitIsRepairable DEF IInv

LEMMA StepPreserves == IInv /\ [Next]_vars => IInv'
<1> SUFFICES ASSUME IInv, [Next]_vars PROVE IInv'
    OBVIOUS
<1>1. Base /\ Base'
    BY StepIsBase DEF IInv
<1>2. ~raced' => ~raced
    BY DEF Next, Observe, Read, Timer, Watermark, Tick, Deliver, Checkpoint,
           FailAndRestore, Quiescent, vars
<1> SUFFICES ASSUME ~raced' PROVE Repairable'
    BY <1>1 DEF IInv
<1>3. Repairable
    BY <1>2 DEF IInv
<1>4. ASSUME NEW o, Observe(o) PROVE Repairable'
    <2>1. UNCHANGED <<emitted, offset, sending, topic, reached, expired>>
        BY <1>4 DEF Observe, operator
    <2>2. CASE expired
        BY <1>3, <2>1, <2>2 DEF Repairable, Expired, Newest
    <2>3. CASE ~expired
        <3>1. PICK h : Path(h)
            BY <1>3, <2>3 DEF Repairable
        <3>2. Path(h)'
            BY <1>1, <1>4, <3>1, ObserveKeepsPath
        <3>3. QED
            BY <2>1, <2>3, <3>2 DEF Repairable
    <2>4. QED
        BY <2>2, <2>3
<1>5. ASSUME Read PROVE Repairable'
    BY <1>1, <1>3, <1>5, ReadIsRepairable
<1>6. ASSUME Timer PROVE Repairable'
    BY <1>1, <1>3, <1>6, TimerIsRepairable
<1>7. ASSUME UNCHANGED <<contributors, emitted, log, offset, sending, topic, checkpoint,
                         reached, expired>>
      PROVE  Repairable'
    <2>1. CASE expired
        BY <1>3, <1>7, <2>1 DEF Repairable, Expired, Newest
    <2>2. CASE ~expired
        <3>1. PICK h : Path(h)
            BY <1>3, <2>2 DEF Repairable
        <3>2. Path(h)'
            BY <1>7, <3>1 DEF Path, Timeless, Idle, Newest
        <3>3. QED
            BY <1>7, <2>2, <3>2 DEF Repairable
    <2>3. QED
        BY <2>1, <2>2
<1>8. ASSUME Watermark \/ Tick PROVE Repairable'
    BY <1>1, <1>7, <1>8, ClocksAreSteps DEF Watermark, Tick, state
<1>9. ASSUME Deliver PROVE Repairable'
    BY <1>1, <1>3, <1>9, DeliverIsRepairable
<1>10. ASSUME Checkpoint PROVE Repairable'
    BY <1>1, <1>3, <1>10, CheckpointIsRepairable
<1>11. ASSUME FailAndRestore PROVE Repairable'
    BY <1>1, <1>3, <1>11, RestoreIsRepairable
<1>12. ASSUME UNCHANGED vars PROVE Repairable'
    BY <1>7, <1>12 DEF vars, operator, state
<1>13. QED
    BY <1>4, <1>5, <1>6, <1>8, <1>9, <1>10, <1>11, <1>12 DEF Next, Quiescent

LEMMA InvariantRepairs == IInv => ReplayRepairs
<1> SUFFICES ASSUME IInv, CaughtUp, ~raced PROVE TopicIsMerge
    BY DEF ReplayRepairs
<1>1. Base /\ Repairable /\ offset = reached /\ sending = <<>>
    BY DEF IInv, CaughtUp, Base
<1>2. topic = emitted
    BY <1>1, EndOfPath DEF Newest
<1>3. Consistent(Snapshot)
    BY <1>1, ConsistentOperator DEF Base
<1>4. QED
    BY <1>2, <1>3, SameValues DEF Consistent, Snapshot, TopicIsMerge

(***************************************************************************)
(* When the replay of any failure is over and what it collected is sent,   *)
(* the topic has the merge of the element's contributors, whatever the     *)
(* log, the checkpoints and the number of failures, unless an expiry took  *)
(* part: what ServiceGraphJob's at-least-once sink relies on.              *)
(***************************************************************************)
THEOREM ReplayIsRepaired == Spec => []ReplayRepairs
<1>1. Spec => []IInv
    BY InitEstablishes, StepPreserves, PTL DEF Spec
<1>2. QED
    BY <1>1, InvariantRepairs, PTL
=============================================================================
