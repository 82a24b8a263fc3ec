--------------------------- MODULE PipelineProofs ---------------------------
(***************************************************************************)
(* What the operators of Pipeline rely on of one another, for any number   *)
(* of contributors, any traffic and any bounds.                            *)
(*                                                                         *)
(* The facts about each operator are those of its own proofs, which hold   *)
(* for its instance in the pipeline.                                       *)
(***************************************************************************)
EXTENDS Pipeline, TLAPS

ProvedCoalescer == INSTANCE ContributionCoalescerProofs
    WITH Pairs <- Contributors, Upgrades <- {}, Punctual <- TRUE,
         timers <- refreshTimers, output <- coalesced

ProvedLifecycle == INSTANCE ElementLifecycleProofs
    WITH TicksPerSecond <- 1, LegacyStates <- {}, QuietAfter <- MaxProcessingTime

(***************************************************************************)
(* Telemetry is not delayed beyond the TTL, and two intervals and the      *)
(* delay fit into the TTL and the lateness: a refresh may be one interval  *)
(* old when it is forwarded, and it has to last for another one.           *)
(***************************************************************************)
Timely ==
    /\ MaxDelay <= Ttl
    /\ \A i \in Intervals : 2 * i + MaxDelay <= Ttl + Lateness

-----------------------------------------------------------------------------
(* The instances of the proofs are the instances of the specification *)

LEMMA CoalescerAssumptions ==
    /\ ProvedCoalescer!IntervalAssumption
    /\ ProvedCoalescer!BoundAssumption
    /\ ProvedCoalescer!NullAssumption
    /\ ProvedCoalescer!CoalescingStaysOn
BY CoalescerAssumption
   DEF Coalescer!IntervalAssumption, ProvedCoalescer!IntervalAssumption,
       Coalescer!BoundAssumption, ProvedCoalescer!BoundAssumption,
       Coalescer!NullAssumption, ProvedCoalescer!NullAssumption,
       Coalescer!Cache, ProvedCoalescer!Cache,
       Coalescer!Observation, ProvedCoalescer!Observation,
       ProvedCoalescer!CoalescingStaysOn

LEMMA SameCoalescer ==
    /\ Coalescer!Init <=> ProvedCoalescer!Init
    /\ Coalescer!Observation = ProvedCoalescer!Observation
    /\ \A c, o :
        /\ Coalescer!PassThrough(c, o) <=> ProvedCoalescer!PassThrough(c, o)
        /\ Coalescer!IgnoreOutOfOrder(c, o) <=> ProvedCoalescer!IgnoreOutOfOrder(c, o)
        /\ Coalescer!Forward(c, o) <=> ProvedCoalescer!Forward(c, o)
        /\ Coalescer!Withhold(c, o) <=> ProvedCoalescer!Withhold(c, o)
BY DEF Coalescer!Init, ProvedCoalescer!Init,
       Coalescer!Observation, ProvedCoalescer!Observation,
       Coalescer!PassThrough, ProvedCoalescer!PassThrough,
       Coalescer!IgnoreOutOfOrder, ProvedCoalescer!IgnoreOutOfOrder,
       Coalescer!Forward, ProvedCoalescer!Forward,
       Coalescer!Withhold, ProvedCoalescer!Withhold,
       Coalescer!Receives, ProvedCoalescer!Receives,
       Coalescer!Collect, ProvedCoalescer!Collect,
       Coalescer!CollectNothing, ProvedCoalescer!CollectNothing,
       Coalescer!Hear, ProvedCoalescer!Hear,
       Coalescer!InOrder, ProvedCoalescer!InOrder,
       Coalescer!ForwardsAtOnce, ProvedCoalescer!ForwardsAtOnce,
       Coalescer!StoreWithTimer, ProvedCoalescer!StoreWithTimer,
       Coalescer!CurrentTimer, ProvedCoalescer!CurrentTimer,
       Coalescer!ForwardedEntry, ProvedCoalescer!ForwardedEntry,
       Coalescer!WithheldEntry, ProvedCoalescer!WithheldEntry,
       Coalescer!CleanupDeadline, ProvedCoalescer!CleanupDeadline

LEMMA SameRefresh ==
    /\ \A c : Coalescer!OnTimer(c) <=> ProvedCoalescer!OnTimer(c)
    /\ Coalescer!Tick <=> ProvedCoalescer!Tick
BY DEF Coalescer!OnTimer, ProvedCoalescer!OnTimer,
       Coalescer!ForwardPending, ProvedCoalescer!ForwardPending,
       Coalescer!CleanUp, ProvedCoalescer!CleanUp, Coalescer!Due, ProvedCoalescer!Due,
       Coalescer!Collect, ProvedCoalescer!Collect,
       Coalescer!CollectNothing, ProvedCoalescer!CollectNothing,
       Coalescer!IsSilent, ProvedCoalescer!IsSilent,
       Coalescer!RefreshedEntry, ProvedCoalescer!RefreshedEntry,
       Coalescer!StoreWithTimer, ProvedCoalescer!StoreWithTimer,
       Coalescer!CurrentTimer, ProvedCoalescer!CurrentTimer,
       Coalescer!CleanupDeadline, ProvedCoalescer!CleanupDeadline,
       Coalescer!Tick, ProvedCoalescer!Tick, Coalescer!TimerDue, ProvedCoalescer!TimerDue,
       Coalescer!history, ProvedCoalescer!history

LEMMA LifecycleAssumptions ==
    /\ ProvedLifecycle!ContributorsAssumption
    /\ ProvedLifecycle!TimeAssumption
    /\ ProvedLifecycle!NullAssumption
    /\ ProvedLifecycle!InputAssumption
    /\ ProvedLifecycle!ClockAssumption
    /\ ProvedLifecycle!NullEventAssumption
BY LifecycleAssumption
   DEF Lifecycle!ContributorsAssumption, ProvedLifecycle!ContributorsAssumption,
       Lifecycle!TimeAssumption, ProvedLifecycle!TimeAssumption,
       Lifecycle!NullAssumption, ProvedLifecycle!NullAssumption,
       Lifecycle!InputAssumption, ProvedLifecycle!InputAssumption,
       Lifecycle!ClockAssumption, ProvedLifecycle!ClockAssumption,
       Lifecycle!NullEventAssumption, ProvedLifecycle!NullEventAssumption,
       Lifecycle!IsFiniteSet, ProvedLifecycle!IsFiniteSet,
       Lifecycle!Element, ProvedLifecycle!Element, Lifecycle!Snapshot, ProvedLifecycle!Snapshot,
       Lifecycle!AttributeWinners, ProvedLifecycle!AttributeWinners,
       Lifecycle!PayloadHash, ProvedLifecycle!PayloadHash,
       Lifecycle!ContributorMap, ProvedLifecycle!ContributorMap,
       Lifecycle!NoContributors, ProvedLifecycle!NoContributors,
       Lifecycle!Event, ProvedLifecycle!Event, Lifecycle!Delete, ProvedLifecycle!Delete,
       Lifecycle!Upsert, ProvedLifecycle!Upsert

LEMMA SameObservations == Lifecycle!Observations = ProvedLifecycle!Observations
BY DEF Lifecycle!Observations, ProvedLifecycle!Observations

LEMMA SameInit == Lifecycle!Init <=> ProvedLifecycle!Init
BY DEF Lifecycle!Init, ProvedLifecycle!Init, Lifecycle!NoContributors, ProvedLifecycle!NoContributors,
       Lifecycle!Present, ProvedLifecycle!Present, Lifecycle!PayloadHash, ProvedLifecycle!PayloadHash,
       Lifecycle!Upsert, ProvedLifecycle!Upsert,
       Lifecycle!Merge, ProvedLifecycle!Merge, Lifecycle!Holders, ProvedLifecycle!Holders,
       Lifecycle!Winner, ProvedLifecycle!Winner, Lifecycle!Wins, ProvedLifecycle!Wins,
       Lifecycle!NextEventTimer, ProvedLifecycle!NextEventTimer,
       Lifecycle!NextProcessingTimer, ProvedLifecycle!NextProcessingTimer,
       Lifecycle!CoalescedTimer, ProvedLifecycle!CoalescedTimer, Lifecycle!Min, ProvedLifecycle!Min

LEMMA SameProcessElement ==
    ASSUME NEW o
    PROVE  Lifecycle!ProcessElement(o) <=> ProvedLifecycle!ProcessElement(o)
BY DEF Lifecycle!ProcessElement, ProvedLifecycle!ProcessElement,
       Lifecycle!SnapshotOf, ProvedLifecycle!SnapshotOf,
       Lifecycle!EventTimerDue, ProvedLifecycle!EventTimerDue,
       Lifecycle!IgnoreOlder, ProvedLifecycle!IgnoreOlder, Lifecycle!IsOlder, ProvedLifecycle!IsOlder,
       Lifecycle!CollectNothing, ProvedLifecycle!CollectNothing, Lifecycle!state, ProvedLifecycle!state,
       Lifecycle!timers, ProvedLifecycle!timers, Lifecycle!clocks, ProvedLifecycle!clocks,
       Lifecycle!ObserveIncrementally, ProvedLifecycle!ObserveIncrementally,
       Lifecycle!ObserveWithRebuild, ProvedLifecycle!ObserveWithRebuild,
       Lifecycle!NextIndex, ProvedLifecycle!NextIndex, Lifecycle!Index, ProvedLifecycle!Index,
       Lifecycle!Rebuild, ProvedLifecycle!Rebuild, Lifecycle!Merge, ProvedLifecycle!Merge,
       Lifecycle!Owners, ProvedLifecycle!Owners, Lifecycle!Winner, ProvedLifecycle!Winner,
       Lifecycle!Holders, ProvedLifecycle!Holders, Lifecycle!Present, ProvedLifecycle!Present,
       Lifecycle!Wins, ProvedLifecycle!Wins, Lifecycle!NoContributors, ProvedLifecycle!NoContributors,
       Lifecycle!ObserveIndex, ProvedLifecycle!ObserveIndex, Lifecycle!Takes, ProvedLifecycle!Takes,
       Lifecycle!PayloadHash, ProvedLifecycle!PayloadHash,
       Lifecycle!ObserveThrows, ProvedLifecycle!ObserveThrows, Lifecycle!Loses, ProvedLifecycle!Loses,
       Lifecycle!LosesAttribute, ProvedLifecycle!LosesAttribute,
       Lifecycle!LoadStateThrows, ProvedLifecycle!LoadStateThrows,
       Lifecycle!MissingOwner, ProvedLifecycle!MissingOwner,
       Lifecycle!OwnersRead, ProvedLifecycle!OwnersRead, Lifecycle!ValidIndex, ProvedLifecycle!ValidIndex,
       Lifecycle!AdvanceTimers, ProvedLifecycle!AdvanceTimers,
       Lifecycle!Advanced, ProvedLifecycle!Advanced, Lifecycle!Replaced, ProvedLifecycle!Replaced,
       Lifecycle!CoalescedTimer, ProvedLifecycle!CoalescedTimer,
       Lifecycle!Collect, ProvedLifecycle!Collect, Lifecycle!Upsert, ProvedLifecycle!Upsert,
       Lifecycle!PersistState, ProvedLifecycle!PersistState,
       Lifecycle!ScheduleTimers, ProvedLifecycle!ScheduleTimers,
       Lifecycle!NextEventTimer, ProvedLifecycle!NextEventTimer,
       Lifecycle!NextProcessingTimer, ProvedLifecycle!NextProcessingTimer,
       Lifecycle!CollectIfChanged, ProvedLifecycle!CollectIfChanged,
       Lifecycle!Cardinality, ProvedLifecycle!Cardinality, Lifecycle!Min, ProvedLifecycle!Min

LEMMA SameTimers ==
    /\ Lifecycle!OnTimer <=> ProvedLifecycle!OnTimer
    /\ Lifecycle!OnFallbackTimer <=> ProvedLifecycle!OnFallbackTimer
BY DEF Lifecycle!OnTimer, ProvedLifecycle!OnTimer,
       Lifecycle!OnFallbackTimer, ProvedLifecycle!OnFallbackTimer,
       Lifecycle!OnEventTimer, ProvedLifecycle!OnEventTimer,
       Lifecycle!OnProcessingTimer, ProvedLifecycle!OnProcessingTimer,
       Lifecycle!EventTimerDue, ProvedLifecycle!EventTimerDue,
       Lifecycle!ExpireContributors, ProvedLifecycle!ExpireContributors,
       Lifecycle!EventExpired, ProvedLifecycle!EventExpired,
       Lifecycle!ProcessingExpired, ProvedLifecycle!ProcessingExpired,
       Lifecycle!Without, ProvedLifecycle!Without,
       Lifecycle!CollectNothing, ProvedLifecycle!CollectNothing, Lifecycle!state, ProvedLifecycle!state,
       Lifecycle!clocks, ProvedLifecycle!clocks,
       Lifecycle!Rebuild, ProvedLifecycle!Rebuild, Lifecycle!Merge, ProvedLifecycle!Merge,
       Lifecycle!Owners, ProvedLifecycle!Owners, Lifecycle!Winner, ProvedLifecycle!Winner,
       Lifecycle!Holders, ProvedLifecycle!Holders, Lifecycle!Present, ProvedLifecycle!Present,
       Lifecycle!Wins, ProvedLifecycle!Wins, Lifecycle!PayloadHash, ProvedLifecycle!PayloadHash,
       Lifecycle!LoadStateThrows, ProvedLifecycle!LoadStateThrows,
       Lifecycle!Replaced, ProvedLifecycle!Replaced,
       Lifecycle!CoalescedTimer, ProvedLifecycle!CoalescedTimer,
       Lifecycle!Collect, ProvedLifecycle!Collect, Lifecycle!Upsert, ProvedLifecycle!Upsert,
       Lifecycle!Delete, ProvedLifecycle!Delete,
       Lifecycle!PersistState, ProvedLifecycle!PersistState,
       Lifecycle!ScheduleTimers, ProvedLifecycle!ScheduleTimers,
       Lifecycle!NextEventTimer, ProvedLifecycle!NextEventTimer,
       Lifecycle!NextProcessingTimer, ProvedLifecycle!NextProcessingTimer,
       Lifecycle!CollectIfChanged, ProvedLifecycle!CollectIfChanged,
       Lifecycle!Cardinality, ProvedLifecycle!Cardinality, Lifecycle!Min, ProvedLifecycle!Min

LEMMA SameClockSteps ==
    /\ Lifecycle!AdvanceWatermark <=> ProvedLifecycle!AdvanceWatermark
    /\ Lifecycle!Tick <=> ProvedLifecycle!Tick
BY DEF Lifecycle!AdvanceWatermark, ProvedLifecycle!AdvanceWatermark, Lifecycle!Tick, ProvedLifecycle!Tick,
       Lifecycle!EventTimerDue, ProvedLifecycle!EventTimerDue, Lifecycle!state, ProvedLifecycle!state,
       Lifecycle!timers, ProvedLifecycle!timers
-----------------------------------------------------------------------------
(* The invariant *)

Contribution == [contributorId : Contributors, observedAt : 1 .. MaxEventTime,
                 element : Elements]

Message == Contribution \cup [watermark : Nat]

IsOf(m, c) == "contributorId" \in DOMAIN m /\ m.contributorId = c

(* The watermark stays behind the telemetry that may still arrive. *)
Watermarks ==
    /\ newest \in Nat /\ newest <= Epoch + now
    /\ emitted \in Nat /\ (emitted # 0 => emitted + Lateness < newest)
    /\ watermark <= emitted
    /\ \A i \in DOMAIN channel :
        channel[i] \in [watermark : Nat] => channel[i].watermark <= emitted

Base ==
    /\ ProvedCoalescer!IInv
    /\ ProvedLifecycle!IInv
    /\ channel \in Seq(Message)
    /\ Watermarks

(* What is on its way was forwarded now; the last of it is what was        *)
(* forwarded last, and the newest.                                         *)
Queued(c) ==
    \A i \in 1 .. Len(channel) : IsOf(channel[i], c) =>
        /\ forwarded[c] # Null
        /\ forwardedAt[c] = now
        /\ channel[i].observedAt <= forwarded[c].observedAt
        /\ \/ \E j \in 1 .. Len(channel) : i < j /\ IsOf(channel[j], c)
           \/ /\ channel[i].observedAt = forwarded[c].observedAt
              /\ channel[i].element = forwarded[c].element

(* What has arrived, if it has not expired, is what was forwarded last. *)
Arrived(c) ==
    contributors[c] # Null =>
        /\ forwarded[c] # Null
        /\ contributors[c].observedAt <= forwarded[c].observedAt
        /\ ~InFlight(c) =>
            /\ contributors[c].element = forwarded[c].element
            /\ contributors[c].processingExpiresAt = forwardedAt[c] + Ttl
            /\ contributors[c].eventExpiresAt >= forwarded[c].observedAt + Ttl

(* A repetition would be withheld, or one is. *)
Covered(c) ==
    /\ cache[c] # Null
    /\ cache[c].pending \/ now < cache[c].lastForwarded + interval

(* Then what it repeats has not expired. *)
Kept(c) == Covered(c) /\ ~InFlight(c) => contributors[c] # Null

(* How old what the coalescer holds, and has forwarded, can be. *)
Ages(c) ==
    /\ heardAt[c] <= now
    /\ cache[c] # Null =>
        /\ Epoch + heardAt[c] <= cache[c].latest.observedAt + MaxDelay
        /\ cache[c].latest.observedAt <= Epoch + heardAt[c]
        /\ ~cache[c].pending => heardAt[c] <= forwardedAt[c]
    /\ forwarded[c] # Null =>
        /\ forwarded[c].observedAt <= Epoch + heardAt[c]
        /\ \A i \in Intervals :
            Epoch + forwardedAt[c] + i <= forwarded[c].observedAt + Ttl + Lateness
        /\ cache[c] = Null => heardAt[c] + Ttl <= now

Linked(c) == Queued(c) /\ Arrived(c) /\ Kept(c) /\ Ages(c)

(***************************************************************************)
(* Neither property is inductive: they relate the coalescer's cache to the *)
(* lifecycle's map, and what connects the two is what was forwarded last   *)
(* and when.  With interval 0 there is no cache.                           *)
(***************************************************************************)
IInv == Base /\ (interval # 0 => \A c \in Contributors : Linked(c))

-----------------------------------------------------------------------------

LEMMA ConstantFacts ==
    /\ Ttl \in Nat /\ Ttl > 0
    /\ Lateness \in Nat /\ Epoch \in Nat /\ MaxDelay \in Nat /\ MaxEventTime \in Nat
    /\ \A i \in Intervals : i \in Nat /\ i < Ttl
    /\ Elements \subseteq ProvedLifecycle!Element
    /\ Null \notin ProvedLifecycle!Snapshot
    /\ Null \notin ProvedCoalescer!Cache
    /\ Null \notin ProvedCoalescer!Observation
    /\ Null \notin Nat
    /\ Null \notin Contributors \X ProvedCoalescer!Observation
BY PipelineAssumption, CoalescerAssumptions, LifecycleAssumptions
   DEF ProvedCoalescer!IntervalAssumption, ProvedCoalescer!NullAssumption,
       ProvedCoalescer!BoundAssumption, ProvedLifecycle!TimeAssumption,
       ProvedLifecycle!NullAssumption, ProvedLifecycle!InputAssumption

LEMMA MessageFacts ==
    /\ \A m \in Contribution :
        /\ "contributorId" \in DOMAIN m /\ "watermark" \notin DOMAIN m
        /\ m \in ProvedLifecycle!Contribution
        /\ m \notin [watermark : Nat]
    /\ \A m \in [watermark : Nat] :
        "watermark" \in DOMAIN m /\ "contributorId" \notin DOMAIN m
<1>1. ASSUME NEW m \in Contribution
      PROVE  /\ "contributorId" \in DOMAIN m /\ "watermark" \notin DOMAIN m
             /\ m \in ProvedLifecycle!Contribution
    BY ConstantFacts DEF Contribution, ProvedLifecycle!Contribution
<1>2. ASSUME NEW m \in [watermark : Nat]
      PROVE  "watermark" \in DOMAIN m /\ "contributorId" \notin DOMAIN m
    OBVIOUS
<1>3. QED
    BY <1>1, <1>2

LEMMA StateTypes ==
    ASSUME Base
    PROVE  /\ now \in Nat /\ watermark \in Nat
           /\ interval \in Intervals /\ interval \in Nat
           /\ contributors \in [Contributors -> ProvedLifecycle!Snapshot \cup {Null}]
           /\ cache \in [Contributors -> ProvedCoalescer!Cache \cup {Null}]
           /\ forwarded \in [Contributors -> ProvedCoalescer!Observation \cup {Null}]
           /\ forwardedAt \in [Contributors -> Nat]
           /\ heardAt \in [Contributors -> Nat]
           /\ coalesced \in (Contributors \X ProvedCoalescer!Observation) \cup {Null}
           /\ \A c \in Contributors : interval = 0 => cache[c] = Null
BY ConstantFacts, CoalescerAssumptions
   DEF Base, ProvedCoalescer!IInv, ProvedCoalescer!TypeOK, ProvedCoalescer!EntryOK,
       ProvedCoalescer!BoundAssumption, ProvedLifecycle!IInv, ProvedLifecycle!TypeOK,
       ProvedLifecycle!ContributorMap

(* What the fields of records of the state are. *)
LEMMA FieldTypes ==
    /\ \A o \in ProvedCoalescer!Observation : o.observedAt \in Nat /\ o # Null
    /\ \A e \in ProvedCoalescer!Cache :
        /\ e # Null /\ e.latest \in ProvedCoalescer!Observation
        /\ e.lastForwarded \in Nat /\ e.lastSeen \in Nat
        /\ e.timer \in Nat /\ e.pending \in BOOLEAN
    /\ \A s \in ProvedLifecycle!Snapshot :
        /\ s # Null /\ s.observedAt \in Nat
        /\ s.eventExpiresAt \in Nat /\ s.processingExpiresAt \in Nat
    /\ \A m \in Contribution : m.observedAt \in Nat /\ m.contributorId \in Contributors
BY ConstantFacts
   DEF ProvedCoalescer!Observation, ProvedCoalescer!Cache, ProvedLifecycle!Snapshot,
       Contribution

-----------------------------------------------------------------------------
(* What a step does to the channel *)

MessageOf(c, o) ==
    [contributorId |-> c, observedAt |-> o.observedAt, element |-> o.element]

Sent(c, o) ==
    /\ forwarded' = [forwarded EXCEPT ![c] = o]
    /\ forwardedAt' = [forwardedAt EXCEPT ![c] = now]
    /\ newest' = Later(newest, o.observedAt)
    /\ emitted' = emitted
    /\ channel' = Append(channel, MessageOf(c, o))

LEMMA CollectedIsSent ==
    ASSUME NEW c \in Contributors, NEW o \in ProvedCoalescer!Observation,
           ProvedCoalescer!Collect(c, o), Transmit
    PROVE  Sent(c, o)
<1>1. coalesced' = <<c, o>> /\ coalesced' # Null
    BY ConstantFacts DEF ProvedCoalescer!Collect
<1>2. QED
    BY <1>1 DEF Transmit, Sent, MessageOf, ProvedCoalescer!Collect

LEMMA NothingIsSent ==
    ASSUME ProvedCoalescer!CollectNothing, Transmit
    PROVE  UNCHANGED <<forwarded, forwardedAt, newest, emitted, channel>>
BY DEF Transmit, linkVars, ProvedCoalescer!CollectNothing

LEMMA MessageOfContributor ==
    ASSUME NEW c \in Contributors, NEW o \in ProvedCoalescer!Observation
    PROVE  /\ MessageOf(c, o) \in Contribution
           /\ \A d : IsOf(MessageOf(c, o), d) <=> d = c
BY DEF MessageOf, Contribution, IsOf, ProvedCoalescer!Observation

LEMMA InFlightIs ==
    ASSUME channel \in Seq(Message), NEW c
    PROVE  InFlight(c) <=> \E i \in 1 .. Len(channel) : IsOf(channel[i], c)
BY DEF InFlight, IsOf

LEMMA SentKeepsWatermarks ==
    ASSUME Base, NEW c \in Contributors, NEW o \in ProvedCoalescer!Observation,
           Sent(c, o), o.observedAt <= Epoch + now, UNCHANGED <<now, watermark>>
    PROVE  channel' \in Seq(Message) /\ Watermarks'
<1>1. /\ channel \in Seq(Message) /\ newest \in Nat /\ newest <= Epoch + now
      /\ MessageOf(c, o) \in Contribution /\ o.observedAt \in Nat
      /\ emitted \in Nat /\ (emitted # 0 => emitted + Lateness < newest)
      /\ channel' = Append(channel, MessageOf(c, o))
    BY MessageOfContributor, FieldTypes DEF Base, Watermarks, Sent
<1>2. channel' \in Seq(Message)
    BY <1>1 DEF Message
<1>3. newest' \in Nat /\ newest' <= Epoch + now' /\ newest <= newest'
    BY <1>1 DEF Sent, Later
<1>4. ASSUME NEW i \in DOMAIN channel', channel'[i] \in [watermark : Nat]
      PROVE  channel'[i].watermark <= emitted
    <2>1. i \in DOMAIN channel \/ channel'[i] = MessageOf(c, o)
        BY <1>1
    <2>2. channel'[i] # MessageOf(c, o)
        BY <1>1, <1>4, MessageFacts
    <2>3. i \in DOMAIN channel /\ channel'[i] = channel[i]
        BY <1>1, <2>1, <2>2
    <2>4. QED
        BY <1>4, <2>3 DEF Base, Watermarks
<1>5. QED
    BY <1>1, <1>2, <1>3, <1>4, ConstantFacts DEF Base, Watermarks, Sent

(* A contribution that is forwarded is behind those of its contributor. *)
LEMMA SentIsLinked ==
    ASSUME Base, NEW c \in Contributors, NEW o \in ProvedCoalescer!Observation,
           \A d \in Contributors : Linked(d),
           Sent(c, o), UNCHANGED <<now, contributors>>,
           forwarded[c] # Null => forwarded[c].observedAt <= o.observedAt
    PROVE  /\ InFlight(c)'
           /\ \A d \in Contributors \ {c} : InFlight(d)' <=> InFlight(d)
           /\ \A d \in Contributors : Queued(d)' /\ Arrived(d)'
<1> DEFINE n == Len(channel)
<1>1. /\ channel \in Seq(Message) /\ channel' \in Seq(Message)
      /\ n \in Nat /\ Len(channel') = n + 1
      /\ channel'[n + 1] = MessageOf(c, o)
      /\ \A i \in 1 .. n : channel'[i] = channel[i]
    BY MessageOfContributor DEF Base, Sent, Message
<1>2. /\ forwarded'[c] = o /\ forwardedAt'[c] = now /\ o # Null /\ o.observedAt \in Nat
      /\ \A d \in Contributors \ {c} :
            forwarded'[d] = forwarded[d] /\ forwardedAt'[d] = forwardedAt[d]
    BY StateTypes, FieldTypes DEF Sent
<1>3. \A d : IsOf(channel'[n + 1], d) <=> d = c
    BY <1>1, MessageOfContributor
<1>4. InFlight(c)'
    <2>1. n + 1 \in 1 .. Len(channel') /\ IsOf(channel'[n + 1], c)
        BY <1>1, <1>3
    <2>2. InFlight(c)' <=> \E i \in 1 .. Len(channel') : IsOf(channel'[i], c)
        BY <1>1 DEF InFlight, IsOf
    <2>3. QED
        BY <1>1, <2>1, <2>2
<1>5. ASSUME NEW d \in Contributors \ {c} PROVE InFlight(d)' <=> InFlight(d)
    <2>1. InFlight(d) <=> \E i \in 1 .. n : IsOf(channel[i], d)
        BY <1>1, InFlightIs
    <2>2. InFlight(d)' <=> \E i \in 1 .. n + 1 : IsOf(channel'[i], d)
        BY <1>1 DEF InFlight, IsOf
    <2>3. \A i \in 1 .. n + 1 : i \in 1 .. n \/ i = n + 1
        BY <1>1
    <2>4. QED
        BY <1>1, <1>3, <2>1, <2>2, <2>3
<1>6. ASSUME NEW d \in Contributors PROVE Queued(d)'
    <2> SUFFICES ASSUME NEW i \in 1 .. n + 1, IsOf(channel'[i], d)
                 PROVE  /\ forwarded'[d] # Null
                        /\ forwardedAt'[d] = now
                        /\ channel'[i].observedAt <= forwarded'[d].observedAt
                        /\ \/ \E j \in 1 .. n + 1 : i < j /\ IsOf(channel'[j], d)
                           \/ /\ channel'[i].observedAt = forwarded'[d].observedAt
                              /\ channel'[i].element = forwarded'[d].element
        <3>1. 1 .. Len(channel') = 1 .. n + 1 /\ now' = now
            BY <1>1
        <3> HIDE DEF n
        <3>2. QED
            BY <3>1 DEF Queued, IsOf
    <2>1. CASE i = n + 1
        <3>1. d = c /\ channel'[i] = MessageOf(c, o)
            BY <1>1, <1>3, <2>1
        <3>2. QED
            BY <1>2, <3>1 DEF MessageOf
    <2>2. CASE i # n + 1
        <3>1. i \in 1 .. n /\ IsOf(channel[i], d) /\ channel'[i] = channel[i]
            BY <1>1, <2>2
        <3>2. Queued(d)
            BY DEF Linked
        <3>3. CASE d = c
            <4>1. IsOf(channel'[n + 1], d) /\ i < n + 1 /\ n + 1 \in 1 .. n + 1
                BY <1>1, <1>3, <3>1, <3>3
            <4>2. forwarded[c] # Null /\ channel[i].observedAt <= forwarded[c].observedAt
                BY <3>1, <3>2, <3>3 DEF Queued
            <4>3. channel[i].observedAt \in Nat /\ forwarded[c].observedAt \in Nat
                BY <1>1, <3>1, <4>2, StateTypes, FieldTypes, MessageFacts DEF Message, IsOf
            <4>4. QED
                BY <1>2, <3>1, <3>3, <4>1, <4>2, <4>3
        <3>4. CASE d # c
            <4>1. \A j \in 1 .. n : j \in 1 .. n + 1
                BY <1>1
            <4>2. QED
                BY <1>1, <1>2, <3>1, <3>2, <3>4, <4>1 DEF Queued
        <3>5. QED
            BY <3>3, <3>4
    <2>3. QED
        BY <2>1, <2>2
<1>7. ASSUME NEW d \in Contributors PROVE Arrived(d)'
    <2>1. Arrived(d)
        BY DEF Linked
    <2>2. CASE d = c
        <3>1. contributors[c] # Null => /\ forwarded[c] # Null
                                        /\ contributors[c].observedAt \in Nat
                                        /\ forwarded[c].observedAt \in Nat
            BY <2>1, <2>2, StateTypes, FieldTypes DEF Arrived
        <3>2. QED
            BY <1>2, <1>4, <2>1, <2>2, <3>1 DEF Arrived
    <2>3. CASE d # c
        BY <1>2, <1>5, <2>1, <2>3 DEF Arrived
    <2>4. QED
        BY <2>2, <2>3
<1>8. QED
    BY <1>4, <1>5, <1>6, <1>7

(* A watermark on the channel changes nothing for the contributors. *)
LEMMA WatermarkIsNobodys ==
    ASSUME channel \in Seq(Message), NEW w \in Nat,
           channel' = Append(channel, [watermark |-> w]),
           UNCHANGED <<forwarded, forwardedAt, now>>, NEW c, Queued(c)
    PROVE  Queued(c)' /\ (InFlight(c)' <=> InFlight(c))
<1> DEFINE n == Len(channel)
<1>1. /\ n \in Nat /\ Len(channel') = n + 1
      /\ channel'[n + 1] = [watermark |-> w]
      /\ \A i \in 1 .. n : channel'[i] = channel[i]
      /\ channel' \in Seq(Message)
    BY DEF Message
<1>2. ~IsOf(channel'[n + 1], c)
    BY <1>1, MessageFacts DEF IsOf
<1>3. /\ \A i \in 1 .. n + 1 : i \in 1 .. n \/ i = n + 1
      /\ \A i \in 1 .. n : i \in 1 .. n + 1
    BY <1>1
<1>4. \A i \in 1 .. n + 1 : IsOf(channel'[i], c)
        => i \in 1 .. n /\ channel'[i] = channel[i] /\ IsOf(channel[i], c)
    BY <1>1, <1>2, <1>3
<1>5. InFlight(c)' <=> \E i \in 1 .. n + 1 : IsOf(channel'[i], c)
    BY <1>1 DEF InFlight, IsOf
<1>6. InFlight(c) <=> \E i \in 1 .. n : IsOf(channel[i], c)
    BY InFlightIs
<1>7. InFlight(c)' <=> InFlight(c)
    BY <1>1, <1>3, <1>4, <1>5, <1>6
<1>8. Queued(c)'
    <2>1. 1 .. Len(channel') = 1 .. n + 1
        BY <1>1
    <2> SUFFICES ASSUME NEW i \in 1 .. n + 1, IsOf(channel'[i], c)
                 PROVE  /\ forwarded[c] # Null
                        /\ forwardedAt[c] = now
                        /\ channel'[i].observedAt <= forwarded[c].observedAt
                        /\ \/ \E j \in 1 .. n + 1 : i < j /\ IsOf(channel'[j], c)
                           \/ /\ channel'[i].observedAt = forwarded[c].observedAt
                              /\ channel'[i].element = forwarded[c].element
        <3> HIDE DEF n
        <3>1. QED
            BY <2>1 DEF Queued, IsOf
    <2>2. i \in 1 .. n /\ channel'[i] = channel[i] /\ IsOf(channel[i], c)
        BY <1>4
    <2>3. QED
        BY <1>1, <1>3, <2>2 DEF Queued
<1>9. QED
    BY <1>7, <1>8

(* Taking the first message off the channel. *)
LEMMA TailFacts ==
    ASSUME channel \in Seq(Message), channel # <<>>, channel' = Tail(channel)
    PROVE  /\ Len(channel) \in Nat /\ Len(channel) >= 1
           /\ Head(channel) = channel[1] /\ channel[1] \in Message
           /\ channel' \in Seq(Message)
           /\ Len(channel') = Len(channel) - 1
           /\ \A i \in 1 .. Len(channel) - 1 : channel'[i] = channel[i + 1]
OBVIOUS

LEMMA TailIsQueued ==
    ASSUME channel \in Seq(Message), channel # <<>>, channel' = Tail(channel),
           UNCHANGED <<forwarded, forwardedAt, now>>, NEW c, Queued(c)
    PROVE  /\ Queued(c)'
           /\ InFlight(c)' => InFlight(c)
           /\ InFlight(c) => InFlight(c)' \/ IsOf(channel[1], c)
           /\ IsOf(channel[1], c) =>
                /\ InFlight(c)
                /\ forwarded[c] # Null
                /\ forwardedAt[c] = now
                /\ channel[1].observedAt <= forwarded[c].observedAt
                /\ \/ InFlight(c)'
                   \/ /\ channel[1].observedAt = forwarded[c].observedAt
                      /\ channel[1].element = forwarded[c].element
<1> DEFINE n == Len(channel)
<1>1. /\ n \in Nat /\ n >= 1 /\ Len(channel') = n - 1
      /\ \A i \in 1 .. n - 1 : channel'[i] = channel[i + 1]
      /\ channel' \in Seq(Message)
    BY TailFacts
<1>2. 1 .. Len(channel') = 1 .. n - 1
    BY <1>1
<1>3. InFlight(c) <=> \E i \in 1 .. n : IsOf(channel[i], c)
    BY InFlightIs
<1>4. InFlight(c)' <=> \E i \in 1 .. n - 1 : IsOf(channel'[i], c)
    <2>1. DOMAIN channel' = 1 .. Len(channel')
        BY <1>1
    <2> HIDE DEF n
    <2>2. QED
        BY <1>2, <2>1 DEF InFlight, IsOf
<1>5. ASSUME NEW i \in 1 .. n, i # 1
      PROVE  i - 1 \in 1 .. n - 1 /\ channel'[i - 1] = channel[i]
    <2>1. i - 1 \in 1 .. n - 1 /\ (i - 1) + 1 = i
        BY <1>1, <1>5
    <2>2. QED
        BY <1>1, <2>1
<1>6. ASSUME NEW i \in 1 .. n - 1
      PROVE  i + 1 \in 1 .. n /\ channel'[i] = channel[i + 1]
    BY <1>1
<1>7. Queued(c)'
    <2> SUFFICES ASSUME NEW i \in 1 .. n - 1, IsOf(channel'[i], c)
                 PROVE  /\ forwarded[c] # Null
                        /\ forwardedAt[c] = now
                        /\ channel'[i].observedAt <= forwarded[c].observedAt
                        /\ \/ \E j \in 1 .. n - 1 : i < j /\ IsOf(channel'[j], c)
                           \/ /\ channel'[i].observedAt = forwarded[c].observedAt
                              /\ channel'[i].element = forwarded[c].element
        <3> HIDE DEF n
        <3>1. QED
            BY <1>2 DEF Queued, IsOf
    <2>1. i + 1 \in 1 .. n /\ channel'[i] = channel[i + 1] /\ IsOf(channel[i + 1], c)
        BY <1>6
    <2>2. CASE \E j \in 1 .. n : i + 1 < j /\ IsOf(channel[j], c)
        <3>1. PICK j \in 1 .. n : i + 1 < j /\ IsOf(channel[j], c)
            BY <2>2
        <3>2. j - 1 \in 1 .. n - 1 /\ i < j - 1 /\ IsOf(channel'[j - 1], c)
            BY <1>1, <1>5, <3>1
        <3>3. QED
            BY <2>1, <3>2 DEF Queued
    <2>3. CASE ~ \E j \in 1 .. n : i + 1 < j /\ IsOf(channel[j], c)
        BY <2>1, <2>3 DEF Queued
    <2>4. QED
        BY <2>2, <2>3
<1>8. InFlight(c)' => InFlight(c)
    BY <1>3, <1>4, <1>6
<1>9. InFlight(c) => InFlight(c)' \/ IsOf(channel[1], c)
    BY <1>3, <1>4, <1>5
<1>10. ASSUME IsOf(channel[1], c)
       PROVE  /\ InFlight(c)
              /\ forwarded[c] # Null
              /\ forwardedAt[c] = now
              /\ channel[1].observedAt <= forwarded[c].observedAt
              /\ \/ InFlight(c)'
                 \/ /\ channel[1].observedAt = forwarded[c].observedAt
                    /\ channel[1].element = forwarded[c].element
    <2>1. 1 \in 1 .. n
        BY <1>1
    <2>2. ASSUME NEW j \in 1 .. n, 1 < j, IsOf(channel[j], c) PROVE InFlight(c)'
        BY <1>4, <1>5, <2>2
    <2>3. QED
        BY <1>3, <1>10, <2>1, <2>2 DEF Queued
<1>11. QED
    BY <1>7, <1>8, <1>9, <1>10

-----------------------------------------------------------------------------
(* The steps of the coalescer *)

LEMMA CoalescerKeepsItsInvariant ==
    ASSUME Base,
           \/ \E c \in Contributors, o \in ProvedCoalescer!Observation :
                \/ ProvedCoalescer!PassThrough(c, o)
                \/ ProvedCoalescer!IgnoreOutOfOrder(c, o)
                \/ ProvedCoalescer!Forward(c, o)
                \/ ProvedCoalescer!Withhold(c, o)
           \/ \E c \in Contributors : ProvedCoalescer!OnTimer(c)
           \/ ProvedCoalescer!Tick
           \/ UNCHANGED <<coalescerVars, now>>
    PROVE  ProvedCoalescer!IInv'
<1>1. [ProvedCoalescer!Next]_(ProvedCoalescer!vars)
    BY DEF ProvedCoalescer!Next, ProvedCoalescer!ProcessElement, ProvedCoalescer!vars,
           coalescerVars
<1>2. QED
    BY <1>1, CoalescerAssumptions, ProvedCoalescer!StepPreserves DEF Base

LEMMA LifecycleKeepsItsInvariant ==
    ASSUME Base,
           \/ \E o \in ProvedLifecycle!Observations : ProvedLifecycle!ProcessElement(o)
           \/ ProvedLifecycle!OnTimer
           \/ ProvedLifecycle!OnFallbackTimer
           \/ ProvedLifecycle!AdvanceWatermark
           \/ ProvedLifecycle!Tick
           \/ UNCHANGED <<lifecycleVars, now>>
    PROVE  ProvedLifecycle!IInv'
<1>1. [ProvedLifecycle!Next]_(ProvedLifecycle!vars)
    BY DEF ProvedLifecycle!Next, ProvedLifecycle!vars, lifecycleVars
<1>2. QED
    BY <1>1, LifecycleAssumptions, ProvedLifecycle!StepPreserves DEF Base

(* What the proofs of the coalescer say of a cached entry. *)
LEMMA EntryFacts ==
    ASSUME Base, NEW c \in Contributors, cache[c] # Null
    PROVE  /\ cache[c] \in ProvedCoalescer!Cache
           /\ forwarded[c] \in ProvedCoalescer!Observation /\ forwarded[c] # Null
           /\ forwarded[c].element = cache[c].latest.element
           /\ forwarded[c].observedAt <= cache[c].latest.observedAt
           /\ ~cache[c].pending => forwarded[c] = cache[c].latest
           /\ cache[c].lastSeen = heardAt[c]
           /\ cache[c].lastForwarded = forwardedAt[c]
           /\ cache[c].lastForwarded <= now
           /\ cache[c].pending =>
                /\ cache[c].lastForwarded <= cache[c].lastSeen
                /\ now <= cache[c].timer
                /\ \E i \in Intervals : cache[c].timer = cache[c].lastForwarded + i
<1>1. /\ ProvedCoalescer!EntryOK(c) /\ ProvedCoalescer!PunctualOK(c)
      /\ ProvedCoalescer!TimerMatchesState
    BY DEF Base, ProvedCoalescer!IInv
<1>2. cache[c] \in ProvedCoalescer!Cache
    BY StateTypes
<1>3. forwarded[c] \in ProvedCoalescer!Observation /\ forwarded[c] # Null
    BY <1>1, StateTypes DEF ProvedCoalescer!EntryOK
<1>4. cache[c].timer \in refreshTimers[c]
    <2>1. cache[c].timer \in Nat /\ Null \notin Nat
        BY <1>2, FieldTypes, ConstantFacts
    <2>2. QED
        BY <1>1, <2>1 DEF ProvedCoalescer!TimerMatchesState, ProvedCoalescer!CurrentTimer
<1>5. now <= cache[c].timer /\ cache[c].lastForwarded = forwardedAt[c]
    BY <1>1, <1>4 DEF ProvedCoalescer!PunctualOK
<1>6. QED
    BY <1>1, <1>2, <1>3, <1>5 DEF ProvedCoalescer!EntryOK

(* A covered entry was forwarded less than some interval ago. *)
LEMMA CoveredIsRecent ==
    ASSUME Base, NEW c \in Contributors, Covered(c)
    PROVE  \E i \in Intervals : now <= forwardedAt[c] + i
<1>1. /\ cache[c] # Null
      /\ cache[c].lastForwarded = forwardedAt[c]
      /\ cache[c].lastForwarded \in Nat /\ cache[c].timer \in Nat
      /\ cache[c].pending \in BOOLEAN
    BY EntryFacts, FieldTypes DEF Covered
<1>2. CASE cache[c].pending
    BY <1>1, <1>2, EntryFacts
<1>3. CASE ~cache[c].pending
    <2>1. now < cache[c].lastForwarded + interval /\ interval \in Intervals
        BY <1>3, StateTypes DEF Covered
    <2>2. QED
        BY <1>1, <2>1, StateTypes
<1>4. QED
    BY <1>1, <1>2, <1>3

(* Nothing of the lifecycle changes, and nothing on the channel. *)
LEMMA UntouchedIsLinked ==
    ASSUME NEW c, Linked(c),
           cache'[c] = cache[c], heardAt'[c] = heardAt[c],
           UNCHANGED <<forwarded, forwardedAt, contributors, channel, now, interval>>
    PROVE  Linked(c)'
<1>1. InFlight(c)' <=> InFlight(c)
    BY DEF InFlight
<1>2. Queued(c)' /\ Arrived(c)'
    BY <1>1 DEF Linked, Queued, Arrived, IsOf
<1>3. Kept(c)' /\ Ages(c)'
    BY <1>1 DEF Linked, Kept, Covered, Ages
<1>4. QED
    BY <1>2, <1>3 DEF Linked

LEMMA ForwardIsLinked ==
    ASSUME Timely, Base, interval # 0, \A d \in Contributors : Linked(d),
           NEW c \in Contributors, NEW o \in ProvedCoalescer!Observation,
           ProvedCoalescer!Forward(c, o), Transmit, Arriving(o.observedAt),
           UNCHANGED contributors
    PROVE  Sent(c, o) /\ \A d \in Contributors : Linked(d)'
<1>1. Sent(c, o) /\ UNCHANGED <<now, interval>>
    BY CollectedIsSent DEF ProvedCoalescer!Forward, ProvedCoalescer!Receives
<1>2. /\ cache'[c] = ProvedCoalescer!ForwardedEntry(o) /\ heardAt'[c] = now
      /\ forwarded'[c] = o /\ forwardedAt'[c] = now
      /\ \A d \in Contributors \ {c} :
            /\ cache'[d] = cache[d] /\ heardAt'[d] = heardAt[d]
            /\ forwarded'[d] = forwarded[d] /\ forwardedAt'[d] = forwardedAt[d]
    BY <1>1, StateTypes
       DEF Sent, ProvedCoalescer!Forward, ProvedCoalescer!Hear,
           ProvedCoalescer!StoreWithTimer
<1>3. /\ now \in Nat /\ o.observedAt \in Nat
      /\ Epoch + now <= o.observedAt + MaxDelay /\ o.observedAt <= Epoch + now
    BY StateTypes, FieldTypes, ConstantFacts DEF Arriving
<1>4. forwarded[c] # Null => forwarded[c].observedAt <= o.observedAt
    <2> SUFFICES ASSUME forwarded[c] # Null
                 PROVE  forwarded[c].observedAt <= o.observedAt
        OBVIOUS
    <2>1. forwarded[c].observedAt \in Nat /\ heardAt[c] \in Nat /\ Ages(c)
        BY StateTypes, FieldTypes DEF Linked
    <2>2. CASE cache[c] = Null
        <3>1. /\ forwarded[c].observedAt <= Epoch + heardAt[c]
              /\ heardAt[c] + Ttl <= now /\ MaxDelay <= Ttl
            BY <2>1, <2>2 DEF Ages, Timely
        <3>2. QED
            BY <1>3, <2>1, <3>1, ConstantFacts
    <2>3. CASE cache[c] # Null
        <3>1. /\ cache[c].latest.observedAt \in Nat
              /\ forwarded[c].observedAt <= cache[c].latest.observedAt
              /\ o.observedAt >= cache[c].latest.observedAt
            BY <2>3, EntryFacts, FieldTypes
               DEF ProvedCoalescer!Forward, ProvedCoalescer!InOrder
        <3>2. QED
            BY <1>3, <2>1, <3>1
    <2>4. QED
        BY <2>2, <2>3
<1>5. /\ InFlight(c)'
      /\ \A d \in Contributors \ {c} : InFlight(d)' <=> InFlight(d)
      /\ \A d \in Contributors : Queued(d)' /\ Arrived(d)'
    BY <1>1, <1>4, SentIsLinked
<1>6. Kept(c)' /\ Ages(c)'
    <2>1. Kept(c)'
        BY <1>5 DEF Kept
    <2>2. /\ ProvedCoalescer!ForwardedEntry(o).latest = o
          /\ ProvedCoalescer!ForwardedEntry(o) \in ProvedCoalescer!Cache
        BY <1>3, ConstantFacts
           DEF ProvedCoalescer!ForwardedEntry, ProvedCoalescer!Cache,
               ProvedCoalescer!CleanupDeadline
    <2>3. cache'[c] # Null /\ cache'[c].latest = o
        BY <1>2, <2>2, FieldTypes
    <2>4. \A i \in Intervals : Epoch + now + i <= o.observedAt + Ttl + Lateness
        BY <1>3, ConstantFacts DEF Timely
    <2>5. QED
        BY <1>1, <1>2, <1>3, <2>1, <2>3, <2>4 DEF Ages
<1>7. ASSUME NEW d \in Contributors \ {c} PROVE Kept(d)' /\ Ages(d)'
    BY <1>1, <1>2, <1>5 DEF Linked, Kept, Covered, Ages
<1>8. QED
    BY <1>1, <1>5, <1>6, <1>7 DEF Linked

LEMMA WithholdIsLinked ==
    ASSUME Base, interval # 0, \A d \in Contributors : Linked(d),
           NEW c \in Contributors, NEW o \in ProvedCoalescer!Observation,
           ProvedCoalescer!Withhold(c, o), Transmit, Arriving(o.observedAt),
           UNCHANGED contributors
    PROVE  \A d \in Contributors : Linked(d)'
<1> DEFINE entry == ProvedCoalescer!WithheldEntry(o, cache[c].lastForwarded)
<1>1. UNCHANGED <<forwarded, forwardedAt, newest, emitted, channel, now, interval>>
    BY NothingIsSent DEF ProvedCoalescer!Withhold, ProvedCoalescer!Receives
<1>2. /\ cache'[c] = entry /\ heardAt'[c] = now
      /\ \A d \in Contributors \ {c} : cache'[d] = cache[d] /\ heardAt'[d] = heardAt[d]
    BY StateTypes
       DEF ProvedCoalescer!Withhold, ProvedCoalescer!Hear, ProvedCoalescer!StoreWithTimer
<1>3. /\ now \in Nat /\ o.observedAt \in Nat
      /\ Epoch + now <= o.observedAt + MaxDelay /\ o.observedAt <= Epoch + now
    BY StateTypes, FieldTypes, ConstantFacts DEF Arriving
<1>4. cache[c] # Null /\ now < cache[c].lastForwarded + interval
    <2>1. cache[c] # Null /\ ~(now >= cache[c].lastForwarded + interval)
        BY DEF ProvedCoalescer!Withhold, ProvedCoalescer!ForwardsAtOnce
    <2>2. cache[c].lastForwarded \in Nat /\ interval \in Nat
        BY <2>1, EntryFacts, FieldTypes, StateTypes
    <2>3. QED
        BY <1>3, <2>1, <2>2
<1>5. entry.latest = o /\ entry.pending
    BY DEF ProvedCoalescer!WithheldEntry
<1> HIDE DEF entry
<1>6. \A d : InFlight(d)' <=> InFlight(d)
    BY <1>1 DEF InFlight
<1>7. Linked(c) /\ Covered(c)
    BY <1>4 DEF Covered
<1>8. Queued(c)' /\ Arrived(c)' /\ Kept(c)'
    BY <1>1, <1>6, <1>7 DEF Linked, Queued, Arrived, Kept, IsOf
<1>9. Ages(c)'
    <2>1. forwarded[c] # Null => /\ forwarded[c].observedAt \in Nat
                                 /\ forwarded[c].observedAt <= Epoch + now
        BY <1>3, <1>7, StateTypes, FieldTypes, ConstantFacts DEF Linked, Ages
    <2>2. cache'[c] # Null
        <3>1. cache[c].lastForwarded \in Nat /\ interval \in Nat
            BY <1>4, EntryFacts, FieldTypes, StateTypes
        <3>2. entry \in ProvedCoalescer!Cache
            BY <1>3, <3>1
               DEF entry, ProvedCoalescer!WithheldEntry, ProvedCoalescer!Cache
        <3>3. QED
            BY <1>2, <3>2, FieldTypes
    <2>3. QED
        BY <1>1, <1>2, <1>3, <1>5, <1>7, <2>1, <2>2 DEF Linked, Ages
<1>10. ASSUME NEW d \in Contributors \ {c} PROVE Linked(d)'
    BY <1>1, <1>2, UntouchedIsLinked
<1>11. QED
    BY <1>8, <1>9, <1>10 DEF Linked

LEMMA RefreshIsLinked ==
    ASSUME Timely, Base, interval # 0, \A d \in Contributors : Linked(d),
           NEW c \in Contributors, NEW t \in refreshTimers[c],
           ProvedCoalescer!ForwardPending(c, t), Transmit, UNCHANGED contributors
    PROVE  /\ Sent(c, cache[c].latest) /\ cache[c].latest.observedAt <= Epoch + now
           /\ cache[c].latest \in ProvedCoalescer!Observation
           /\ \A d \in Contributors : Linked(d)'
<1> DEFINE old == cache[c]
           o == old.latest
<1>1. /\ old # Null /\ old.timer = t /\ old.pending /\ t <= now
      /\ UNCHANGED <<now, interval, heardAt>>
    <2>1. t \in Nat /\ Null \notin Nat
        BY ConstantFacts DEF Base, ProvedCoalescer!IInv, ProvedCoalescer!TypeOK
    <2>2. QED
        BY <2>1 DEF ProvedCoalescer!ForwardPending, ProvedCoalescer!Due,
                    ProvedCoalescer!CurrentTimer
<1>2. /\ old \in ProvedCoalescer!Cache
      /\ o \in ProvedCoalescer!Observation
      /\ forwarded[c] # Null /\ forwarded[c].observedAt <= o.observedAt
      /\ old.lastSeen = heardAt[c] /\ old.lastForwarded <= heardAt[c]
      /\ now = t
    <2>1. /\ old \in ProvedCoalescer!Cache /\ forwarded[c] # Null
          /\ forwarded[c].observedAt <= o.observedAt
          /\ old.lastSeen = heardAt[c] /\ old.lastForwarded <= old.lastSeen
          /\ now <= old.timer
        BY <1>1, EntryFacts
    <2>2. o \in ProvedCoalescer!Observation /\ old.timer \in Nat /\ now \in Nat
        BY <2>1, FieldTypes, StateTypes
    <2>3. QED
        BY <1>1, <2>1, <2>2
<1>3. PICK k \in Intervals : now = old.lastForwarded + k
    BY <1>1, <1>2, EntryFacts
<1>4. /\ Epoch + heardAt[c] <= o.observedAt + MaxDelay
      /\ o.observedAt <= Epoch + heardAt[c] /\ heardAt[c] <= now
    BY <1>1 DEF Linked, Ages
<1>5. /\ now \in Nat /\ heardAt[c] \in Nat /\ o.observedAt \in Nat
      /\ old.lastForwarded \in Nat /\ k \in Nat
    BY <1>2, StateTypes, FieldTypes, ConstantFacts
<1>6. Sent(c, o)
    BY <1>2, CollectedIsSent DEF ProvedCoalescer!ForwardPending
<1>7. /\ InFlight(c)'
      /\ \A d \in Contributors \ {c} : InFlight(d)' <=> InFlight(d)
      /\ \A d \in Contributors : Queued(d)' /\ Arrived(d)'
    BY <1>1, <1>2, <1>6, SentIsLinked
<1>8. /\ cache'[c] # Null /\ cache'[c].latest = o /\ forwarded'[c] = o
      /\ forwardedAt'[c] = now
      /\ \A d \in Contributors \ {c} :
            /\ cache'[d] = cache[d]
            /\ forwarded'[d] = forwarded[d] /\ forwardedAt'[d] = forwardedAt[d]
    <2>1. cache' = [cache EXCEPT ![c] = ProvedCoalescer!RefreshedEntry(old, t)]
        BY DEF ProvedCoalescer!ForwardPending, ProvedCoalescer!StoreWithTimer
    <2>2. /\ ProvedCoalescer!RefreshedEntry(old, t).latest = o
          /\ ProvedCoalescer!RefreshedEntry(old, t) \in ProvedCoalescer!Cache
        BY <1>2, <1>5, FieldTypes, ConstantFacts
           DEF ProvedCoalescer!RefreshedEntry, ProvedCoalescer!Cache,
               ProvedCoalescer!CleanupDeadline
    <2>3. QED
        BY <1>6, <2>1, <2>2, StateTypes, FieldTypes DEF Sent
<1>9. \A i \in Intervals : Epoch + now + i <= o.observedAt + Ttl + Lateness
    <2> TAKE i \in Intervals
    <2>1. 2 * i + MaxDelay <= Ttl + Lateness /\ 2 * k + MaxDelay <= Ttl + Lateness
        BY DEF Timely
    <2>2. QED
        BY <1>2, <1>3, <1>4, <1>5, <2>1, ConstantFacts
<1>10. Kept(c)' /\ Ages(c)'
    BY <1>1, <1>4, <1>7, <1>8, <1>9 DEF Kept, Ages
<1>11. ASSUME NEW d \in Contributors \ {c} PROVE Kept(d)' /\ Ages(d)'
    BY <1>1, <1>7, <1>8 DEF Linked, Kept, Covered, Ages
<1>12. QED
    BY <1>2, <1>4, <1>5, <1>6, <1>7, <1>10, <1>11, ConstantFacts DEF Linked

LEMMA CleanUpIsLinked ==
    ASSUME Base, interval # 0, \A d \in Contributors : Linked(d),
           NEW c \in Contributors, NEW t \in refreshTimers[c],
           ProvedCoalescer!CleanUp(c, t), Transmit, UNCHANGED contributors
    PROVE  \A d \in Contributors : Linked(d)'
<1>1. /\ t = heardAt[c] + Ttl /\ t <= now
      /\ cache' = [cache EXCEPT ![c] = Null]
    BY CoalescerAssumptions, ProvedCoalescer!CleanUpForgets DEF Base
<1>2. UNCHANGED <<forwarded, forwardedAt, newest, emitted, channel, now, interval, heardAt>>
    BY NothingIsSent DEF ProvedCoalescer!CleanUp, ProvedCoalescer!Due
<1>3. cache'[c] = Null /\ \A d \in Contributors \ {c} : cache'[d] = cache[d]
    BY <1>1, StateTypes
<1>4. InFlight(c)' <=> InFlight(c)
    BY <1>2 DEF InFlight
<1>5. Linked(c)'
    BY <1>1, <1>2, <1>3, <1>4 DEF Linked, Queued, Arrived, Kept, Covered, Ages, IsOf
<1>6. ASSUME NEW d \in Contributors \ {c} PROVE Linked(d)'
    BY <1>2, <1>3, UntouchedIsLinked
<1>7. QED
    BY <1>5, <1>6

LEMMA ReceivePreserves ==
    ASSUME Timely, IInv, NEW c \in Contributors,
           NEW o \in ProvedCoalescer!Observation, Receive(c, o)
    PROVE  IInv'
<1>1. /\ \/ ProvedCoalescer!PassThrough(c, o)
         \/ ProvedCoalescer!IgnoreOutOfOrder(c, o)
         \/ ProvedCoalescer!Forward(c, o)
         \/ ProvedCoalescer!Withhold(c, o)
      /\ Transmit /\ Arriving(o.observedAt) /\ UNCHANGED lifecycleVars
    BY SameCoalescer DEF Receive
<1>2. UNCHANGED <<now, interval, contributors, watermark>>
    BY <1>1 DEF ProvedCoalescer!PassThrough, ProvedCoalescer!IgnoreOutOfOrder,
                ProvedCoalescer!Forward, ProvedCoalescer!Withhold,
                ProvedCoalescer!Receives, lifecycleVars
<1>3. Base
    BY DEF IInv
<1>4. ProvedCoalescer!IInv' /\ ProvedLifecycle!IInv'
    BY <1>1, <1>2, <1>3, CoalescerKeepsItsInvariant, LifecycleKeepsItsInvariant
<1>5. CASE ProvedCoalescer!PassThrough(c, o)
    <2>1. Sent(c, o) /\ interval = 0
        BY <1>1, <1>5, CollectedIsSent DEF ProvedCoalescer!PassThrough
    <2>2. channel' \in Seq(Message) /\ Watermarks'
        BY <1>1, <1>2, <1>3, <2>1, SentKeepsWatermarks DEF Arriving
    <2>3. QED
        BY <1>2, <1>4, <2>1, <2>2 DEF IInv, Base
<1>6. CASE ProvedCoalescer!Forward(c, o)
    <2>1. Sent(c, o) /\ interval # 0
        BY <1>1, <1>3, <1>6, CollectedIsSent, StateTypes DEF ProvedCoalescer!Forward
    <2>2. channel' \in Seq(Message) /\ Watermarks'
        BY <1>1, <1>2, <1>3, <2>1, SentKeepsWatermarks DEF Arriving
    <2>3. \A d \in Contributors : Linked(d)'
        BY <1>1, <1>2, <1>3, <1>6, <2>1, ForwardIsLinked DEF IInv
    <2>4. QED
        BY <1>4, <2>2, <2>3 DEF IInv, Base
<1>7. CASE ProvedCoalescer!Withhold(c, o)
    <2>1. UNCHANGED <<newest, emitted, channel>> /\ interval # 0
        BY <1>1, <1>3, <1>7, NothingIsSent, StateTypes DEF ProvedCoalescer!Withhold
    <2>2. channel' \in Seq(Message) /\ Watermarks'
        BY <1>2, <1>3, <2>1 DEF Base, Watermarks
    <2>3. \A d \in Contributors : Linked(d)'
        BY <1>1, <1>2, <1>3, <1>7, <2>1, WithholdIsLinked DEF IInv
    <2>4. QED
        BY <1>4, <2>2, <2>3 DEF IInv, Base
<1>8. CASE ProvedCoalescer!IgnoreOutOfOrder(c, o)
    <2>1. UNCHANGED <<newest, emitted, channel, forwarded, forwardedAt, cache, heardAt>>
        BY <1>1, <1>8, NothingIsSent DEF ProvedCoalescer!IgnoreOutOfOrder
    <2>2. channel' \in Seq(Message) /\ Watermarks'
        BY <1>2, <1>3, <2>1 DEF Base, Watermarks
    <2>3. \A d \in Contributors : Linked(d) => Linked(d)'
        BY <1>2, <2>1, UntouchedIsLinked
    <2>4. QED
        BY <1>2, <1>4, <2>2, <2>3 DEF IInv, Base
<1>9. QED
    BY <1>1, <1>5, <1>6, <1>7, <1>8

LEMMA CoalescerTimerPreserves ==
    ASSUME Timely, IInv, NEW c \in Contributors, CoalescerTimer(c)
    PROVE  IInv'
<1>1. /\ ProvedCoalescer!OnTimer(c) /\ Transmit /\ UNCHANGED lifecycleVars
    BY SameRefresh DEF CoalescerTimer
<1>2. PICK t \in refreshTimers[c] :
        ProvedCoalescer!ForwardPending(c, t) \/ ProvedCoalescer!CleanUp(c, t)
    BY <1>1 DEF ProvedCoalescer!OnTimer
<1>3. Base
    BY DEF IInv
<1>4. UNCHANGED <<now, interval, contributors, watermark>> /\ interval # 0
    BY <1>1, <1>2, <1>3, StateTypes
       DEF ProvedCoalescer!ForwardPending, ProvedCoalescer!CleanUp, ProvedCoalescer!Due,
           lifecycleVars
<1>5. ProvedCoalescer!IInv' /\ ProvedLifecycle!IInv'
    BY <1>1, <1>3, <1>4, CoalescerKeepsItsInvariant, LifecycleKeepsItsInvariant
<1>6. \A d \in Contributors : Linked(d)
    BY <1>4 DEF IInv
<1>7. CASE ProvedCoalescer!ForwardPending(c, t)
    <2>1. /\ Sent(c, cache[c].latest) /\ cache[c].latest.observedAt <= Epoch + now
          /\ cache[c].latest \in ProvedCoalescer!Observation
          /\ \A d \in Contributors : Linked(d)'
        BY <1>1, <1>3, <1>4, <1>6, <1>7, RefreshIsLinked
    <2>2. channel' \in Seq(Message) /\ Watermarks'
        BY <1>3, <1>4, <2>1, SentKeepsWatermarks
    <2>3. QED
        BY <1>5, <2>1, <2>2 DEF IInv, Base
<1>8. CASE ProvedCoalescer!CleanUp(c, t)
    <2>1. \A d \in Contributors : Linked(d)'
        BY <1>1, <1>3, <1>4, <1>6, <1>8, CleanUpIsLinked
    <2>2. UNCHANGED <<newest, emitted, channel>>
        BY <1>1, <1>8, NothingIsSent DEF ProvedCoalescer!CleanUp
    <2>3. channel' \in Seq(Message) /\ Watermarks'
        BY <1>3, <1>4, <2>2 DEF Base, Watermarks
    <2>4. QED
        BY <1>5, <2>1, <2>3 DEF IInv, Base
<1>9. QED
    BY <1>2, <1>7, <1>8

-----------------------------------------------------------------------------
(* The steps of the watermark generator and of the channel *)

LEMMA ForwardOtherPreserves ==
    ASSUME IInv, ForwardOther
    PROVE  IInv'
<1>1. /\ newest' \in Nat /\ newest' > newest /\ newest' <= Epoch + now
      /\ UNCHANGED <<coalescerVars, lifecycleVars, now, emitted, channel>>
    BY DEF ForwardOther, Arriving
<1>2. UNCHANGED <<interval, cache, heardAt, forwarded, forwardedAt, contributors, watermark>>
    BY <1>1 DEF coalescerVars, lifecycleVars
<1>3. ProvedCoalescer!IInv' /\ ProvedLifecycle!IInv'
    BY <1>1, CoalescerKeepsItsInvariant, LifecycleKeepsItsInvariant DEF IInv
<1>4. channel' \in Seq(Message) /\ Watermarks'
    BY <1>1, <1>2, ConstantFacts DEF IInv, Base, Watermarks
<1>5. \A d \in Contributors : Linked(d) => Linked(d)'
    BY <1>1, <1>2, UntouchedIsLinked
<1>6. QED
    BY <1>2, <1>3, <1>4, <1>5 DEF IInv, Base

LEMMA EmitWatermarkPreserves ==
    ASSUME IInv, EmitWatermark
    PROVE  IInv'
<1>1. /\ emitted' = newest - Lateness - 1 /\ emitted' > emitted
      /\ channel' = Append(channel, [watermark |-> emitted'])
      /\ UNCHANGED <<coalescerVars, lifecycleVars, now, newest>>
    BY DEF EmitWatermark, BoundedWatermark
<1>2. UNCHANGED <<interval, cache, heardAt, forwarded, forwardedAt, contributors, watermark>>
    BY <1>1 DEF coalescerVars, lifecycleVars
<1>3. ProvedCoalescer!IInv' /\ ProvedLifecycle!IInv'
    BY <1>1, CoalescerKeepsItsInvariant, LifecycleKeepsItsInvariant DEF IInv
<1>4. /\ channel \in Seq(Message) /\ emitted \in Nat /\ newest \in Nat
      /\ newest <= Epoch + now /\ watermark <= emitted /\ watermark \in Nat
    BY StateTypes DEF IInv, Base, Watermarks
<1>5. emitted' \in Nat /\ [watermark |-> emitted'] \in Message
    BY <1>1, <1>4, ConstantFacts DEF Message
<1>6. channel' \in Seq(Message)
    BY <1>1, <1>4, <1>5
<1>7. Watermarks'
    <2>1. ASSUME NEW i \in DOMAIN channel', channel'[i] \in [watermark : Nat]
          PROVE  channel'[i].watermark <= emitted'
        <3>1. CASE i \in DOMAIN channel
            <4>1. channel'[i] = channel[i]
                BY <1>1, <1>4, <3>1
            <4>2. channel[i].watermark <= emitted /\ channel[i].watermark \in Nat
                BY <2>1, <3>1, <4>1 DEF IInv, Base, Watermarks
            <4>3. QED
                BY <1>1, <1>4, <1>5, <4>1, <4>2
        <3>2. CASE i \notin DOMAIN channel
            <4>1. channel'[i] = [watermark |-> emitted']
                BY <1>1, <1>4, <2>1, <3>2
            <4>2. QED
                BY <1>5, <4>1
        <3>3. QED
            BY <3>1, <3>2
    <2>2. QED
        BY <1>1, <1>2, <1>4, <1>5, <2>1, ConstantFacts DEF Watermarks
<1>8. ASSUME NEW d \in Contributors, Linked(d) PROVE Linked(d)'
    <2>1. PICK w \in Nat : w = emitted'
        BY <1>5
    <2>2. Queued(d)' /\ (InFlight(d)' <=> InFlight(d))
        BY <1>1, <1>2, <1>4, <1>8, <2>1, WatermarkIsNobodys DEF Linked
    <2>3. QED
        BY <1>1, <1>2, <1>8, <2>2 DEF Linked, Arrived, Kept, Covered, Ages
<1>9. QED
    BY <1>2, <1>3, <1>6, <1>7, <1>8 DEF IInv, Base

(* What is left on the channel keeps behind the last watermark emitted. *)
LEMMA TailKeepsWatermarks ==
    ASSUME Base, channel # <<>>, channel' = Tail(channel),
           UNCHANGED <<newest, emitted, now>>, watermark' <= emitted
    PROVE  channel' \in Seq(Message) /\ Watermarks'
<1>1. /\ Len(channel) \in Nat
      /\ channel' \in Seq(Message) /\ Len(channel') = Len(channel) - 1
      /\ \A i \in 1 .. Len(channel) - 1 : channel'[i] = channel[i + 1]
    BY TailFacts DEF Base
<1>2. ASSUME NEW i \in DOMAIN channel', channel'[i] \in [watermark : Nat]
      PROVE  channel'[i].watermark <= emitted'
    <2>1. i \in 1 .. Len(channel) - 1
        BY <1>1
    <2>2. i + 1 \in DOMAIN channel /\ channel'[i] = channel[i + 1]
        BY <1>1, <2>1 DEF Base
    <2>3. QED
        BY <1>2, <2>2 DEF Base, Watermarks
<1>3. QED
    BY <1>1, <1>2 DEF Base, Watermarks

LEMMA DeliverWatermarkPreserves ==
    ASSUME IInv, Deliver, "watermark" \in DOMAIN Head(channel)
    PROVE  IInv'
<1>1. /\ ProvedLifecycle!AdvanceWatermark /\ watermark' = Head(channel).watermark
      /\ channel # <<>> /\ channel' = Tail(channel)
      /\ UNCHANGED <<coalescerVars, newest, emitted>>
    BY SameClockSteps DEF Deliver
<1>2. UNCHANGED <<now, contributors, interval, cache, heardAt, forwarded, forwardedAt>>
    BY <1>1 DEF ProvedLifecycle!AdvanceWatermark, ProvedLifecycle!state, coalescerVars
<1>3. Base
    BY DEF IInv
<1>4. ProvedCoalescer!IInv' /\ ProvedLifecycle!IInv'
    BY <1>1, <1>2, <1>3, CoalescerKeepsItsInvariant, LifecycleKeepsItsInvariant
<1>5. Head(channel) = channel[1] /\ channel[1] \in [watermark : Nat] /\ 1 \in DOMAIN channel
    <2>1. Head(channel) = channel[1] /\ channel[1] \in Message /\ 1 \in DOMAIN channel
        BY <1>1, <1>3, TailFacts DEF Base
    <2>2. channel[1] \notin Contribution
        BY <2>1, MessageFacts
    <2>3. QED
        BY <2>1, <2>2 DEF Message
<1>6. watermark' <= emitted
    BY <1>1, <1>3, <1>5 DEF Base, Watermarks
<1>7. channel' \in Seq(Message) /\ Watermarks'
    BY <1>1, <1>2, <1>3, <1>6, TailKeepsWatermarks
<1>8. ASSUME NEW d \in Contributors, Linked(d) PROVE Linked(d)'
    <2>1. ~IsOf(channel[1], d)
        BY <1>5, MessageFacts DEF IsOf
    <2>2. Queued(d)' /\ (InFlight(d)' <=> InFlight(d))
        BY <1>1, <1>2, <1>3, <1>8, <2>1, TailIsQueued DEF Base, Linked
    <2>3. QED
        BY <1>2, <1>8, <2>2 DEF Linked, Arrived, Kept, Covered, Ages
<1>9. QED
    BY <1>2, <1>4, <1>7, <1>8 DEF IInv, Base

LEMMA DeliverObservationPreserves ==
    ASSUME IInv, Deliver, "watermark" \notin DOMAIN Head(channel)
    PROVE  IInv'
<1> DEFINE o == channel[1]
           s == ProvedLifecycle!SnapshotOf(o, watermark, now)
<1>1. Base /\ channel # <<>> /\ channel' = Tail(channel)
      /\ UNCHANGED <<coalescerVars, newest, emitted, now>>
    BY DEF Deliver, IInv
<1>2. Head(channel) = o /\ o \in Contribution
    <2>1. Head(channel) = channel[1] /\ channel[1] \in Message
        BY <1>1, TailFacts DEF Base
    <2>2. channel[1] \notin [watermark : Nat]
        BY <2>1, MessageFacts
    <2>3. QED
        BY <2>1, <2>2 DEF Message
<1>3. o \in ProvedLifecycle!Observations /\ o \in ProvedLifecycle!Contribution
      /\ o.contributorId \in Contributors /\ o.observedAt \in Nat
    BY <1>2, MessageFacts, FieldTypes DEF Contribution, ProvedLifecycle!Observations
<1>4. ProvedLifecycle!ProcessElement(o)
    BY <1>2, SameProcessElement DEF Deliver
<1>5. UNCHANGED <<interval, cache, heardAt, forwarded, forwardedAt>> /\ watermark' = watermark
    BY <1>1, <1>4
       DEF coalescerVars, ProvedLifecycle!ProcessElement, ProvedLifecycle!clocks,
           ProvedLifecycle!IgnoreOlder, ProvedLifecycle!ObserveIncrementally,
           ProvedLifecycle!ObserveWithRebuild
<1>6. IF ProvedLifecycle!IsOlder(o)
        THEN contributors' = contributors
        ELSE contributors' = [contributors EXCEPT ![o.contributorId] = s]
    BY <1>1, <1>3, <1>4, LifecycleAssumptions, ProvedLifecycle!ProcessElementReplaces
       DEF Base
<1>7. /\ s \in ProvedLifecycle!Snapshot
      /\ s.observedAt = o.observedAt /\ s.element = o.element
      /\ s.eventExpiresAt >= o.observedAt + Ttl
      /\ s.processingExpiresAt = now + Ttl
    <2>1. now \in Nat /\ watermark \in Nat
        BY <1>1, StateTypes
    <2> HIDE DEF o
    <2>2. QED
        BY <1>3, <2>1, LifecycleAssumptions, ProvedLifecycle!SnapshotOfFacts
<1> HIDE DEF s
<1>8. ProvedCoalescer!IInv' /\ ProvedLifecycle!IInv'
    BY <1>1, <1>3, <1>4, CoalescerKeepsItsInvariant, LifecycleKeepsItsInvariant
<1>9. channel' \in Seq(Message) /\ Watermarks'
    BY <1>1, <1>5, TailKeepsWatermarks DEF Base, Watermarks
<1>10. ASSUME NEW d \in Contributors, Linked(d) PROVE Linked(d)'
    <2>1. /\ Queued(d)'
          /\ InFlight(d)' => InFlight(d)
          /\ InFlight(d) => InFlight(d)' \/ IsOf(channel[1], d)
          /\ IsOf(channel[1], d) =>
                /\ InFlight(d)
                /\ forwarded[d] # Null
                /\ forwardedAt[d] = now
                /\ channel[1].observedAt <= forwarded[d].observedAt
                /\ \/ InFlight(d)'
                   \/ /\ channel[1].observedAt = forwarded[d].observedAt
                      /\ channel[1].element = forwarded[d].element
        BY <1>1, <1>5, <1>10, TailIsQueued DEF Base, Linked
    <2>2. Ages(d)'
        BY <1>1, <1>5, <1>10 DEF Linked, Ages
    <2>3. Covered(d)' <=> Covered(d)
        BY <1>1, <1>5 DEF Covered
    <2>4. "contributorId" \in DOMAIN o
        BY <1>2, MessageFacts
    <2>5. CASE ~IsOf(o, d)
        <3>1. d # o.contributorId
            BY <2>5, <2>4 DEF IsOf
        <3>2. contributors'[d] = contributors[d]
            BY <1>1, <1>6, <3>1, StateTypes
        <3>3. QED
            BY <1>5, <1>10, <2>1, <2>2, <2>3, <2>5, <3>2 DEF Linked, Arrived, Kept
    <2>6. CASE IsOf(o, d) /\ ProvedLifecycle!IsOlder(o)
        <3>1. d = o.contributorId /\ contributors' = contributors
            BY <1>6, <2>6 DEF IsOf
        <3>2. contributors[d] # Null /\ o.observedAt < contributors[d].observedAt
            BY <2>6, <3>1 DEF ProvedLifecycle!IsOlder
        <3>3. /\ forwarded[d] # Null
              /\ contributors[d].observedAt <= forwarded[d].observedAt
            BY <1>10, <3>2 DEF Linked, Arrived
        <3>4. o.observedAt # forwarded[d].observedAt
            BY <1>1, <1>3, <3>2, <3>3, StateTypes, FieldTypes
        <3>5. InFlight(d)'
            BY <2>1, <2>6, <3>4
        <3>6. QED
            BY <1>5, <2>1, <2>2, <3>1, <3>2, <3>3, <3>5 DEF Linked, Arrived, Kept
    <2>7. CASE IsOf(o, d) /\ ~ProvedLifecycle!IsOlder(o)
        <3>1. d = o.contributorId
            BY <2>7 DEF IsOf
        <3>2. contributors'[d] = s /\ s # Null
            BY <1>1, <1>6, <1>7, <2>7, <3>1, StateTypes, FieldTypes
        <3>3. Arrived(d)'
            BY <1>1, <1>5, <1>7, <2>1, <2>7, <3>2 DEF Arrived
        <3>4. Kept(d)'
            BY <3>2 DEF Kept
        <3>5. QED
            BY <2>1, <2>2, <3>3, <3>4 DEF Linked
    <2>8. QED
        BY <2>5, <2>6, <2>7
<1>11. QED
    BY <1>5, <1>8, <1>9, <1>10 DEF IInv, Base

-----------------------------------------------------------------------------
(* The steps of the lifecycle's timers and of the clock *)

(* A timer removes a contributor only past one of its deadlines. *)
LEMMA TimerExpires ==
    ASSUME Base, LifecycleTimer, NEW c \in Contributors
    PROVE  /\ UNCHANGED <<now, watermark>>
           /\ \/ contributors'[c] = contributors[c]
              \/ /\ contributors[c] # Null /\ contributors'[c] = Null
                 /\ \/ contributors[c].eventExpiresAt <= watermark
                    \/ contributors[c].processingExpiresAt <= now
<1>1. /\ eventTimers \subseteq Nat /\ processingTimers \subseteq Nat
      /\ now \in Nat /\ watermark \in Nat
    BY StateTypes DEF Base, ProvedLifecycle!IInv, ProvedLifecycle!TypeOK
<1>2. contributors[c] # Null =>
        contributors[c].eventExpiresAt \in Nat /\ contributors[c].processingExpiresAt \in Nat
    BY StateTypes, FieldTypes
<1>3. ASSUME NEW gone, NEW e, NEW es, NEW p, NEW ps,
             ProvedLifecycle!ExpireContributors(gone, e, es, p, ps)
      PROVE  /\ UNCHANGED <<now, watermark>>
             /\ \/ contributors'[c] = contributors[c]
                \/ c \in gone /\ contributors'[c] = Null
    BY <1>3 DEF ProvedLifecycle!ExpireContributors, ProvedLifecycle!PersistState,
           ProvedLifecycle!Without, ProvedLifecycle!clocks, ProvedLifecycle!state
<1>4. CASE ProvedLifecycle!OnTimer
    <2>1. PICK t \in eventTimers : ProvedLifecycle!OnEventTimer(t)
        BY <1>4 DEF ProvedLifecycle!OnTimer
    <2>2. t \in Nat /\ t <= watermark
        BY <1>1, <2>1 DEF ProvedLifecycle!OnEventTimer
    <2>3. CASE aggregate = Null
        BY <2>1, <2>3
           DEF ProvedLifecycle!OnEventTimer, ProvedLifecycle!state, ProvedLifecycle!clocks
    <2>4. CASE aggregate # Null
        <3>1. /\ UNCHANGED <<now, watermark>>
              /\ \/ contributors'[c] = contributors[c]
                 \/ /\ c \in ProvedLifecycle!EventExpired(contributors, t)
                    /\ contributors'[c] = Null
            BY <1>3, <2>1, <2>4 DEF ProvedLifecycle!OnEventTimer
        <3>2. QED
            BY <1>1, <1>2, <2>2, <3>1
               DEF ProvedLifecycle!EventExpired, ProvedLifecycle!Present
    <2>5. QED
        BY <2>3, <2>4
<1>5. CASE ProvedLifecycle!OnFallbackTimer
    <2>1. PICK t \in processingTimers : ProvedLifecycle!OnProcessingTimer(t)
        BY <1>5 DEF ProvedLifecycle!OnFallbackTimer
    <2>2. t \in Nat /\ t <= now
        BY <1>1, <2>1 DEF ProvedLifecycle!OnProcessingTimer
    <2>3. CASE aggregate = Null
        BY <2>1, <2>3
           DEF ProvedLifecycle!OnProcessingTimer, ProvedLifecycle!state,
               ProvedLifecycle!clocks
    <2>4. CASE aggregate # Null
        <3>1. /\ UNCHANGED <<now, watermark>>
              /\ \/ contributors'[c] = contributors[c]
                 \/ /\ c \in ProvedLifecycle!ProcessingExpired(contributors, t)
                    /\ contributors'[c] = Null
            BY <1>3, <2>1, <2>4 DEF ProvedLifecycle!OnProcessingTimer
        <3>2. QED
            BY <1>1, <1>2, <2>2, <3>1
               DEF ProvedLifecycle!ProcessingExpired, ProvedLifecycle!Present
    <2>5. QED
        BY <2>3, <2>4
<1>6. QED
    BY <1>4, <1>5, SameTimers DEF LifecycleTimer

(***************************************************************************)
(* What a repetition relies on does not expire: on the processing clock    *)
(* because an interval is shorter than the TTL, on the watermark because   *)
(* the watermark is late and two intervals and the delay fit in.           *)
(***************************************************************************)
LEMMA CoveredDoesNotExpire ==
    ASSUME Base, NEW c \in Contributors, Linked(c), Covered(c), ~InFlight(c),
           contributors[c] # Null
    PROVE  /\ watermark < contributors[c].eventExpiresAt
           /\ now < contributors[c].processingExpiresAt
<1>1. PICK i \in Intervals : now <= forwardedAt[c] + i
    BY CoveredIsRecent
<1>2. /\ forwarded[c] # Null
      /\ contributors[c].processingExpiresAt = forwardedAt[c] + Ttl
      /\ contributors[c].eventExpiresAt >= forwarded[c].observedAt + Ttl
      /\ Epoch + forwardedAt[c] + i <= forwarded[c].observedAt + Ttl + Lateness
    BY DEF Linked, Arrived, Ages
<1>3. /\ now \in Nat /\ watermark \in Nat /\ forwardedAt[c] \in Nat /\ i \in Nat /\ i < Ttl
      /\ forwarded[c].observedAt \in Nat /\ contributors[c].eventExpiresAt \in Nat
    BY <1>2, StateTypes, FieldTypes, ConstantFacts
<1>4. now < contributors[c].processingExpiresAt
    BY <1>1, <1>2, <1>3, ConstantFacts
<1>5. /\ watermark <= emitted /\ emitted \in Nat /\ newest \in Nat
      /\ newest <= Epoch + now /\ (emitted # 0 => emitted + Lateness < newest)
    BY DEF Base, Watermarks
<1>6. CASE emitted = 0
    BY <1>2, <1>3, <1>4, <1>5, <1>6, ConstantFacts
<1>7. CASE emitted # 0
    <2>1. watermark + Lateness < Epoch + now
        BY <1>3, <1>5, <1>7, ConstantFacts
    <2>2. QED
        BY <1>1, <1>2, <1>3, <1>4, <2>1, ConstantFacts
<1>8. QED
    BY <1>6, <1>7

LEMMA LifecycleTimerPreserves ==
    ASSUME IInv, LifecycleTimer
    PROVE  IInv'
<1>1. Base /\ UNCHANGED <<coalescerVars, newest, emitted, channel>>
    BY DEF IInv, LifecycleTimer, linkVars
<1>2. UNCHANGED <<interval, cache, heardAt, forwarded, forwardedAt>>
    BY <1>1 DEF coalescerVars
<1>3. UNCHANGED <<now, watermark>>
    <2>1. ASSUME NEW gone, NEW e, NEW es, NEW p, NEW ps,
                 ProvedLifecycle!ExpireContributors(gone, e, es, p, ps)
          PROVE  UNCHANGED <<now, watermark>>
        BY <2>1 DEF ProvedLifecycle!ExpireContributors, ProvedLifecycle!clocks
    <2>2. QED
        BY <2>1, SameTimers
           DEF LifecycleTimer, ProvedLifecycle!OnTimer, ProvedLifecycle!OnFallbackTimer,
               ProvedLifecycle!OnEventTimer, ProvedLifecycle!OnProcessingTimer,
               ProvedLifecycle!clocks
<1>4. ProvedCoalescer!IInv' /\ ProvedLifecycle!IInv'
    BY <1>1, <1>3, SameTimers, CoalescerKeepsItsInvariant, LifecycleKeepsItsInvariant
       DEF LifecycleTimer
<1>5. channel' \in Seq(Message) /\ Watermarks'
    BY <1>1, <1>3 DEF Base, Watermarks
<1>6. ASSUME NEW d \in Contributors, Linked(d) PROVE Linked(d)'
    <2>1. \/ contributors'[d] = contributors[d]
          \/ /\ contributors[d] # Null /\ contributors'[d] = Null
             /\ \/ contributors[d].eventExpiresAt <= watermark
                \/ contributors[d].processingExpiresAt <= now
        BY <1>1, TimerExpires
    <2>2. /\ InFlight(d)' <=> InFlight(d)
          /\ Covered(d)' <=> Covered(d)
          /\ Queued(d)' /\ Ages(d)'
        BY <1>1, <1>2, <1>3, <1>6
           DEF InFlight, Covered, Linked, Queued, Ages, IsOf
    <2>3. CASE contributors'[d] = contributors[d]
        BY <1>2, <1>6, <2>2, <2>3 DEF Linked, Arrived, Kept
    <2>4. CASE contributors'[d] # contributors[d]
        <3>1. contributors[d] # Null /\ contributors'[d] = Null
            BY <2>1, <2>4
        <3>2. ~(Covered(d) /\ ~InFlight(d))
            <4> SUFFICES ASSUME Covered(d), ~InFlight(d) PROVE FALSE
                OBVIOUS
            <4>1. /\ watermark < contributors[d].eventExpiresAt
                  /\ now < contributors[d].processingExpiresAt
                BY <1>1, <1>6, <3>1, CoveredDoesNotExpire
            <4>2. /\ contributors[d].eventExpiresAt \in Nat /\ watermark \in Nat
                  /\ contributors[d].processingExpiresAt \in Nat /\ now \in Nat
                BY <1>1, <3>1, StateTypes, FieldTypes
            <4>3. QED
                BY <2>1, <2>4, <4>1, <4>2
        <3>3. QED
            BY <2>2, <3>1, <3>2 DEF Linked, Arrived, Kept
    <2>5. QED
        BY <2>3, <2>4
<1>7. QED
    BY <1>2, <1>4, <1>5, <1>6 DEF IInv, Base

LEMMA TickPreserves ==
    ASSUME IInv, Tick
    PROVE  IInv'
<1>1. /\ Base /\ channel = <<>> /\ now' = now + 1
      /\ ProvedCoalescer!Tick /\ ProvedLifecycle!Tick
      /\ UNCHANGED linkVars
    BY SameRefresh, SameClockSteps DEF IInv, Tick, ProvedLifecycle!Tick
<1>2. UNCHANGED <<interval, cache, heardAt, forwarded, forwardedAt,
                  contributors, watermark, newest, emitted, channel>>
    BY <1>1 DEF ProvedCoalescer!Tick, ProvedCoalescer!history, ProvedLifecycle!Tick,
                ProvedLifecycle!state, linkVars
<1>3. ProvedCoalescer!IInv' /\ ProvedLifecycle!IInv'
    BY <1>1, CoalescerKeepsItsInvariant, LifecycleKeepsItsInvariant
<1>4. now \in Nat /\ now' = now + 1 /\ interval \in Nat
    BY <1>1, StateTypes
<1>5. channel' \in Seq(Message) /\ Watermarks'
    BY <1>1, <1>2, <1>4, ConstantFacts DEF Base, Watermarks
<1>6. ASSUME NEW d \in Contributors, Linked(d) PROVE Linked(d)'
    <2>1. ~InFlight(d) /\ ~InFlight(d)' /\ Queued(d)'
        BY <1>1, <1>2 DEF InFlight, Queued
    <2>2. Arrived(d)'
        BY <1>2, <1>6, <2>1 DEF Linked, Arrived
    <2>3. Covered(d)' => Covered(d)
        <3>1. cache[d] # Null => cache[d].lastForwarded \in Nat
            BY <1>1, StateTypes, FieldTypes
        <3>2. QED
            BY <1>2, <1>4, <3>1 DEF Covered
    <2>4. Kept(d)'
        BY <1>2, <1>6, <2>1, <2>3 DEF Linked, Kept
    <2>5. Ages(d)'
        <3>1. heardAt[d] \in Nat
            BY <1>1, StateTypes
        <3>2. QED
            BY <1>2, <1>4, <1>6, <3>1, ConstantFacts DEF Linked, Ages
    <2>6. QED
        BY <2>1, <2>2, <2>4, <2>5 DEF Linked
<1>7. QED
    BY <1>2, <1>3, <1>5, <1>6 DEF IInv, Base

LEMMA StutteringPreserves ==
    ASSUME IInv, UNCHANGED vars
    PROVE  IInv'
<1>1. UNCHANGED <<coalescerVars, lifecycleVars, now, linkVars>>
    BY DEF vars
<1>2. UNCHANGED <<interval, cache, heardAt, forwarded, forwardedAt,
                  contributors, watermark, newest, emitted, channel>>
    BY <1>1 DEF coalescerVars, lifecycleVars, linkVars
<1>3. ProvedCoalescer!IInv' /\ ProvedLifecycle!IInv'
    BY <1>1, CoalescerKeepsItsInvariant, LifecycleKeepsItsInvariant DEF IInv
<1>4. channel' \in Seq(Message) /\ Watermarks'
    BY <1>1, <1>2 DEF IInv, Base, Watermarks
<1>5. \A d \in Contributors : Linked(d) => Linked(d)'
    BY <1>1, <1>2, UntouchedIsLinked
<1>6. QED
    BY <1>2, <1>3, <1>4, <1>5 DEF IInv, Base

-----------------------------------------------------------------------------
(* The theorems *)

LEMMA InitEstablishes == Init => IInv
<1> SUFFICES ASSUME Init PROVE IInv
    OBVIOUS
<1>1. ProvedCoalescer!Init /\ ProvedLifecycle!Init
    BY SameCoalescer, SameInit DEF Init
<1>2. ProvedCoalescer!IInv /\ ProvedLifecycle!IInv
    BY <1>1, CoalescerAssumptions, LifecycleAssumptions,
       ProvedCoalescer!InitEstablishes, ProvedLifecycle!InitEstablishes
<1>3. /\ channel = <<>> /\ newest = 0 /\ emitted = 0 /\ now = 0 /\ watermark = 0
      /\ contributors = [c \in Contributors |-> Null]
      /\ cache = [c \in Contributors |-> Null]
      /\ forwarded = [c \in Contributors |-> Null]
      /\ heardAt = [c \in Contributors |-> 0]
    BY <1>1
       DEF Init, ProvedCoalescer!Init, ProvedLifecycle!Init,
           ProvedLifecycle!NoContributors
<1>4. Base
    BY <1>2, <1>3, ConstantFacts DEF Base, Watermarks
<1>5. ASSUME NEW c \in Contributors PROVE Linked(c)
    BY <1>3 DEF Linked, Queued, Arrived, Kept, Covered, Ages
<1>6. QED
    BY <1>4, <1>5 DEF IInv

LEMMA StepPreserves ==
    ASSUME Timely
    PROVE  IInv /\ [Next]_vars => IInv'
<1> SUFFICES ASSUME IInv, [Next]_vars PROVE IInv'
    OBVIOUS
<1>1. ASSUME NEW c \in Contributors, NEW o \in Coalescer!Observation, Receive(c, o)
      PROVE  IInv'
    BY <1>1, SameCoalescer, ReceivePreserves
<1>2. ASSUME NEW c \in Contributors, CoalescerTimer(c)
      PROVE  IInv'
    BY <1>2, CoalescerTimerPreserves
<1>3. CASE ForwardOther
    BY <1>3, ForwardOtherPreserves
<1>4. CASE EmitWatermark
    BY <1>4, EmitWatermarkPreserves
<1>5. CASE Deliver
    BY <1>5, DeliverWatermarkPreserves, DeliverObservationPreserves
<1>6. CASE LifecycleTimer
    BY <1>6, LifecycleTimerPreserves
<1>7. CASE Tick
    BY <1>7, TickPreserves
<1>8. CASE Quiescent \/ UNCHANGED vars
    BY <1>8, StutteringPreserves DEF Quiescent
<1>9. QED
    BY <1>1, <1>2, <1>3, <1>4, <1>5, <1>6, <1>7, <1>8 DEF Next

(* The invariant holds of every reachable state. *)
THEOREM PipelineInvariance ==
    ASSUME Timely
    PROVE  Spec => []IInv
<1>1. IInv /\ [Next]_vars => IInv'
    BY StepPreserves
<1>2. QED
    BY <1>1, InitEstablishes, PTL DEF Spec

(***************************************************************************)
(* What waits in the coalescer is a repetition of what the lifecycle has:  *)
(* a refresh that is late, or an observation that the lifecycle would      *)
(* ignore as older, would break it.                                        *)
(***************************************************************************)
THEOREM RepetitionsWait ==
    ASSUME Timely
    PROVE  Spec => []OnlyRepetitionsWait
<1>1. IInv => OnlyRepetitionsWait
    <2> SUFFICES ASSUME IInv, NEW c \in Contributors,
                        channel = <<>>, cache[c] # Null, cache[c].pending
                 PROVE  /\ contributors[c] # Null
                        /\ contributors[c].element = cache[c].latest.element
                        /\ contributors[c].observedAt <= cache[c].latest.observedAt
        BY DEF OnlyRepetitionsWait
    <2>1. Base /\ Linked(c)
        BY StateTypes DEF IInv
    <2>2. ~InFlight(c) /\ Covered(c)
        BY DEF InFlight, Covered
    <2>3. /\ contributors[c] # Null
          /\ contributors[c].element = forwarded[c].element
          /\ contributors[c].observedAt <= forwarded[c].observedAt
        BY <2>1, <2>2 DEF Linked, Kept, Arrived
    <2>4. /\ forwarded[c].element = cache[c].latest.element
          /\ forwarded[c].observedAt <= cache[c].latest.observedAt
          /\ forwarded[c] \in ProvedCoalescer!Observation
          /\ cache[c].latest \in ProvedCoalescer!Observation
        BY <2>1, EntryFacts, FieldTypes
    <2>5. contributors[c].observedAt \in Nat
        BY <2>1, <2>3, StateTypes, FieldTypes
    <2>6. QED
        BY <2>3, <2>4, <2>5, FieldTypes
<1>2. QED
    BY <1>1, PipelineInvariance, PTL

(* What the channel delivers takes no contributor away. *)
LEMMA DeliverRemovesNone ==
    ASSUME Base, Deliver, NEW c \in Contributors, contributors[c] # Null
    PROVE  contributors'[c] # Null
<1>1. Head(channel) \in Message
    BY TailFacts DEF Base, Deliver
<1>2. CASE "watermark" \in DOMAIN Head(channel)
    BY <1>2, SameClockSteps
       DEF Deliver, ProvedLifecycle!AdvanceWatermark, ProvedLifecycle!state
<1>3. CASE "watermark" \notin DOMAIN Head(channel)
    <2> DEFINE o == Head(channel)
    <2>1. o \in Contribution
        BY <1>1, <1>3, MessageFacts DEF Message
    <2>2. /\ o \in ProvedLifecycle!Observations /\ ProvedLifecycle!ProcessElement(o)
          /\ o \in ProvedLifecycle!Contribution
        BY <1>3, <2>1, SameProcessElement, MessageFacts
           DEF Deliver, Contribution, ProvedLifecycle!Observations
    <2> HIDE DEF o
    <2>3. \/ contributors' = contributors
          \/ contributors' = [contributors EXCEPT ![o.contributorId] =
                                ProvedLifecycle!SnapshotOf(o, watermark, now)]
        BY <2>2, LifecycleAssumptions, ProvedLifecycle!ProcessElementReplaces DEF Base
    <2>4. now \in Nat /\ watermark \in Nat
        BY StateTypes
    <2>5. ProvedLifecycle!SnapshotOf(o, watermark, now) # Null
        BY <2>2, <2>4, LifecycleAssumptions, FieldTypes, ProvedLifecycle!SnapshotOfFacts
    <2>6. QED
        BY <2>3, <2>5, StateTypes
<1>4. QED
    BY <1>2, <1>3

(***************************************************************************)
(* Coalescing does not decide expiry: a contributor of which the coalescer *)
(* holds something leaves the element only when that has expired.          *)
(***************************************************************************)
THEOREM OnlyTheSilentExpire ==
    ASSUME Timely
    PROVE  Spec => ExpiresOnlyTheSilent
<1> DEFINE Expires == \A c \in Contributors :
        ( /\ contributors[c] # Null
          /\ contributors'[c] = Null
          /\ cache[c] # Null
          /\ ~InFlight(c) )
        => \/ cache[c].latest.observedAt + Ttl <= watermark
           \/ heardAt[c] + Ttl <= now
<1>1. IInv /\ [Next]_vars => [Expires]_vars
    <2> SUFFICES ASSUME IInv, Next, NEW c \in Contributors,
                        contributors[c] # Null, contributors'[c] = Null,
                        cache[c] # Null, ~InFlight(c)
                 PROVE  \/ cache[c].latest.observedAt + Ttl <= watermark
                        \/ heardAt[c] + Ttl <= now
        OBVIOUS
    <2>1. Base /\ Linked(c)
        BY StateTypes DEF IInv
    <2>2. LifecycleTimer
        BY <2>1, DeliverRemovesNone, SameClockSteps
           DEF Next, Receive, CoalescerTimer, ForwardOther, EmitWatermark, Tick,
               Quiescent, vars, lifecycleVars, ProvedLifecycle!Tick, ProvedLifecycle!state
    <2>3. \/ contributors[c].eventExpiresAt <= watermark
          \/ contributors[c].processingExpiresAt <= now
        BY <2>1, <2>2, TimerExpires
    <2>4. /\ contributors[c].eventExpiresAt \in Nat /\ watermark \in Nat
          /\ contributors[c].processingExpiresAt \in Nat /\ now \in Nat
          /\ heardAt[c] \in Nat /\ forwardedAt[c] \in Nat
        BY <2>1, StateTypes, FieldTypes
    <2>5. ~Covered(c)
        BY <2>1, <2>3, <2>4, CoveredDoesNotExpire
    <2>6. ~cache[c].pending
        BY <2>5 DEF Covered
    <2>7. /\ forwarded[c] = cache[c].latest
          /\ cache[c].latest \in ProvedCoalescer!Observation
        BY <2>1, <2>6, EntryFacts, FieldTypes
    <2>8. /\ contributors[c].processingExpiresAt = forwardedAt[c] + Ttl
          /\ contributors[c].eventExpiresAt >= cache[c].latest.observedAt + Ttl
          /\ heardAt[c] <= forwardedAt[c]
        BY <2>1, <2>6, <2>7 DEF Linked, Arrived, Ages
    <2>9. QED
        BY <2>3, <2>4, <2>7, <2>8, FieldTypes, ConstantFacts
<1>2. QED
    BY <1>1, PipelineInvariance, PTL DEF Spec, ExpiresOnlyTheSilent
=============================================================================
