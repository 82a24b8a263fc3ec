-------------------------- MODULE ElementLifecycle --------------------------
(***************************************************************************)
(* ElementLifecycleFunction: the keyed Flink operator that turns the       *)
(* contributions of one graph element into upsert and delete events.       *)
(*                                                                         *)
(* A Flink task runs its callbacks one at a time, so processElement and    *)
(* onTimer are atomic.  A new watermark fires every event timer that has   *)
(* come due before the next record is taken; a processing timer may fire   *)
(* any time after it has come due.  The watermark is moved by the other    *)
(* elements of the stream and is free to advance or to stall here.         *)
(***************************************************************************)
EXTENDS GraphLifecycle

CONSTANTS
    Elements,           \* the attribute maps observations may carry
    LegacyStates,       \* contributor maps of savepoints without an index
    MaxProcessingTime,  \* bound on the processing clock
    QuietAfter          \* no contribution is received after this time

ASSUME InputAssumption ==
    /\ Elements \subseteq Element
    /\ LegacyStates \subseteq ContributorMap \ {NoContributors}

ASSUME ClockAssumption ==
    /\ MaxProcessingTime \in Nat
    /\ QuietAfter \in Nat

VARIABLES
    contributors,     \* MapState<String, Snapshot>
    aggregate,        \* ValueState<Aggregate>: the last payload hash
    winners,          \* ValueState<AttributeWinners>
    eventTimer,       \* ValueState<Long>
    processingTimer,  \* ValueState<Long>
    eventTimers,      \* timers registered with Flink's timer service,
    processingTimers, \*   per time domain
    watermark,        \* max(currentWatermark, 0)
    now,              \* currentProcessingTime
    published,        \* the last event of this key in the topic, or Null
    output            \* the event collected by the last callback, or Null

state == <<contributors, aggregate, winners>>

timers == <<eventTimer, processingTimer, eventTimers, processingTimers>>

clocks == <<watermark, now>>

vars == <<contributors, aggregate, winners, eventTimer, processingTimer,
          eventTimers, processingTimers, watermark, now, published, output>>

-----------------------------------------------------------------------------
(* Events *)

Upsert(element) == [operation |-> "upsert", element |-> element]

Delete == [operation |-> "delete"]

Event == {Delete} \cup {Upsert(e) : e \in Element}

ASSUME NullEventAssumption == Null \notin Event

Collect(event) == output' = event /\ published' = event

CollectNothing == output' = Null /\ UNCHANGED published

(* Mutant: every refresh is published. *)
CollectAlways(element, previousHash) == Collect(Upsert(element))

(* An upsert is collected only if the payload hash changed. *)
CollectIfChanged(element, previousHash) ==
    IF PayloadHash(element) = previousHash
        THEN CollectNothing
        ELSE Collect(Upsert(element))

-----------------------------------------------------------------------------
(* Timers *)

(* replaceTimer on the registered set; the state becomes the deadline. *)
Replaced(registered, previous, deadline) ==
    IF previous = deadline THEN registered
    ELSE (registered \ {previous}) \cup ({deadline} \ {Null})

(* advanceTimer keeps an earlier wake-up. *)
Advanced(previous, deadline) ==
    IF previous = Null \/ deadline < previous THEN deadline ELSE previous

AdvanceTimers(snapshot) ==
    LET e == Advanced(eventTimer, CoalescedTimer(snapshot.eventExpiresAt))
        p == Advanced(processingTimer,
                      CoalescedTimer(snapshot.processingExpiresAt))
    IN  /\ eventTimer' = e
        /\ eventTimers' = Replaced(eventTimers, eventTimer, e)
        /\ processingTimer' = p
        /\ processingTimers' = Replaced(processingTimers, processingTimer, p)

(***************************************************************************)
(* scheduleTimers, called with the timer values and registrations that the *)
(* callback has left so far.                                               *)
(***************************************************************************)
ScheduleTimers(s, event, eventSet, processing, processingSet) ==
    /\ eventTimer' = NextEventTimer(s)
    /\ eventTimers' = Replaced(eventSet, event, NextEventTimer(s))
    /\ processingTimer' = NextProcessingTimer(s)
    /\ processingTimers' =
        Replaced(processingSet, processing, NextProcessingTimer(s))

EventTimerDue == \E t \in eventTimers : t <= watermark

ProcessingTimerDue == \E t \in processingTimers : t <= now

-----------------------------------------------------------------------------
(* Persistent state *)

LoadStateThrows == (aggregate = Null) # (Present(contributors) = {})

(* Mutant: the index survives the last contributor. *)
PersistStateKeepingIndex(s) ==
    /\ contributors' = s
    /\ IF Present(s) = {}
        THEN aggregate' = Null /\ winners' = winners
        ELSE aggregate' = PayloadHash(Merge(s)) /\ winners' = Rebuild(s)

PersistState(s) ==
    /\ contributors' = s
    /\ IF Present(s) = {}
        THEN aggregate' = Null /\ winners' = Null
        ELSE aggregate' = PayloadHash(Merge(s)) /\ winners' = Rebuild(s)

(* The index used by observe: a legacy state has none and gets one. *)
Index ==
    IF winners # Null THEN winners
    ELSE IF aggregate = Null THEN Null ELSE Rebuild(contributors)

-----------------------------------------------------------------------------
(* processElement *)

IsOlder(observation) ==
    LET existing == contributors[observation.contributorId]
    IN  existing # Null /\ observation.observedAt < existing.observedAt

Loses(observation) ==
    Index # Null /\ LosesAttribute(Index, observation.contributorId,
                                   observation.element)

NextIndex(observation, snapshot) ==
    LET c == observation.contributorId
    IN  IF Index = Null
        THEN Rebuild([NoContributors EXCEPT ![c] = snapshot])
        ELSE ObserveIndex(Index, c, snapshot, contributors)

(* observe reads a snapshot of every owner that is challenged. *)
MissingOwner(observation, snapshot) ==
    Index # Null
    /\ \E c \in OwnersRead(Index, observation.contributorId, snapshot) :
            contributors[c] = Null

(***************************************************************************)
(* The exceptions of observe and of the loadState it may fall back to:     *)
(* "contributors exist without aggregate state", its converse, a null      *)
(* aggregate beside an index, "missing attribute owner" and "invalid       *)
(* aggregate attribute index".  A callback that throws fails the job: it   *)
(* has no step here, and NeverThrows says that it does not happen.         *)
(***************************************************************************)
ObserveThrows(observation, snapshot) ==
    \/ (winners = Null \/ Loses(observation)) /\ LoadStateThrows
    \/ winners # Null /\ aggregate = Null
    \/ ~Loses(observation) /\ MissingOwner(observation, snapshot)
    \/ /\ ~Loses(observation)
       /\ ~ValidIndex(NextIndex(observation, snapshot))

(* An observation older than its contributor's last one changes nothing. *)
IgnoreOlder(observation) ==
    /\ IsOlder(observation)
    /\ CollectNothing
    /\ UNCHANGED <<state, timers, clocks>>

(***************************************************************************)
(* The common path: the index is updated from point reads, the hash is     *)
(* kept while the merged element is unchanged, and timers only move        *)
(* earlier.                                                                *)
(***************************************************************************)
ObserveIncrementally(observation, snapshot) ==
    LET index == NextIndex(observation, snapshot)
        hash  == IF winners # Null /\ index.element = winners.element
                    THEN aggregate ELSE PayloadHash(index.element)
    IN  /\ ~IsOlder(observation)
        /\ ~ObserveThrows(observation, snapshot)
        /\ ~Loses(observation)
        /\ contributors' =
            [contributors EXCEPT ![observation.contributorId] = snapshot]
        /\ winners' = index
        /\ aggregate' = hash
        /\ AdvanceTimers(snapshot)
        /\ IF hash = aggregate THEN CollectNothing
                               ELSE Collect(Upsert(index.element))
        /\ UNCHANGED clocks

(* A contributor gave up an attribute it owns: GraphLifecycle.apply. *)
ObserveWithRebuild(observation, snapshot) ==
    LET s == [contributors EXCEPT ![observation.contributorId] = snapshot]
    IN  /\ ~IsOlder(observation)
        /\ ~ObserveThrows(observation, snapshot)
        /\ Loses(observation)
        /\ PersistState(s)
        /\ ScheduleTimers(s, eventTimer, eventTimers,
                          processingTimer, processingTimers)
        /\ CollectIfChanged(Merge(s), aggregate)
        /\ UNCHANGED clocks

ProcessElement(observation) ==
    LET snapshot == SnapshotOf(observation, watermark, now)
    IN  /\ ~EventTimerDue
        /\ now <= QuietAfter
        /\ \/ IgnoreOlder(observation)
           \/ ObserveIncrementally(observation, snapshot)
           \/ ObserveWithRebuild(observation, snapshot)

-----------------------------------------------------------------------------
(* onTimer *)

(***************************************************************************)
(* The part of onTimer after loadState: `gone' are the contributors that   *)
(* expire at the timer's timestamp, and the fired timer has been cleared.  *)
(***************************************************************************)
ExpireContributors(gone, event, eventSet, processing, processingSet) ==
    LET s == Without(contributors, gone)
    IN  /\ ScheduleTimers(s, event, eventSet, processing, processingSet)
        /\ IF gone = {}
            THEN CollectNothing /\ UNCHANGED state
            ELSE /\ PersistState(s)
                 /\ IF Present(s) = {}
                        THEN Collect(Delete)
                        ELSE CollectIfChanged(Merge(s), aggregate)
        /\ UNCHANGED clocks

OnEventTimer(timestamp) ==
    /\ timestamp \in eventTimers
    /\ timestamp <= watermark
    /\ \A t \in eventTimers : timestamp <= t
    /\ ~LoadStateThrows
    /\ IF aggregate = Null
       THEN /\ eventTimer' = Null
            /\ eventTimers' = eventTimers \ {timestamp}
            /\ CollectNothing
            /\ UNCHANGED <<state, processingTimer, processingTimers, clocks>>
       ELSE ExpireContributors(EventExpired(contributors, timestamp),
                Null, eventTimers \ {timestamp},
                processingTimer, processingTimers)

OnProcessingTimer(timestamp) ==
    /\ ~EventTimerDue
    /\ timestamp \in processingTimers
    /\ timestamp <= now
    /\ \A t \in processingTimers : timestamp <= t
    /\ ~LoadStateThrows
    /\ IF aggregate = Null
       THEN /\ processingTimer' = Null
            /\ processingTimers' = processingTimers \ {timestamp}
            /\ CollectNothing
            /\ UNCHANGED <<state, eventTimer, eventTimers, clocks>>
       ELSE ExpireContributors(ProcessingExpired(contributors, timestamp),
                eventTimer, eventTimers,
                Null, processingTimers \ {timestamp})

-----------------------------------------------------------------------------
(* The clocks *)

AdvanceWatermark ==
    /\ ~EventTimerDue
    /\ watermark < MaxEventTime
    /\ \E w \in (watermark + 1) .. MaxEventTime : watermark' = w
    /\ output' = Null
    /\ UNCHANGED <<state, timers, now, published>>

Tick ==
    /\ now < MaxProcessingTime
    /\ now' = now + 1
    /\ output' = Null
    /\ UNCHANGED <<state, timers, watermark, published>>

-----------------------------------------------------------------------------
(* A new key, or one restored from a savepoint taken before the index. *)
Init ==
    /\ contributors \in {NoContributors} \cup LegacyStates
    /\ aggregate = IF Present(contributors) = {} THEN Null
                   ELSE PayloadHash(Merge(contributors))
    /\ winners = Null
    /\ eventTimer = NextEventTimer(contributors)
    /\ processingTimer = NextProcessingTimer(contributors)
    /\ eventTimers = {eventTimer} \ {Null}
    /\ processingTimers = {processingTimer} \ {Null}
    /\ watermark = 0
    /\ now = 0
    /\ published = IF Present(contributors) = {} THEN Null
                   ELSE Upsert(Merge(contributors))
    /\ output = Null

Observations == [contributorId : Contributors,
                 observedAt : 1 .. MaxEventTime,
                 element : Elements]

OnTimer == \E timestamp \in eventTimers : OnEventTimer(timestamp)

OnFallbackTimer ==
    \E timestamp \in processingTimers : OnProcessingTimer(timestamp)

(* Every clock is at its bound and nothing is left to do. *)
Quiescent ==
    /\ now = MaxProcessingTime
    /\ watermark = MaxEventTime
    /\ Present(contributors) = {}
    /\ UNCHANGED vars

Next == \/ \E observation \in Observations : ProcessElement(observation)
        \/ OnTimer
        \/ OnFallbackTimer
        \/ AdvanceWatermark
        \/ Tick
        \/ Quiescent

(***************************************************************************)
(* The wall clock moves and Flink fires the timers that are due.  Nothing  *)
(* is assumed of the watermark (a source may go idle) or of the input.     *)
(***************************************************************************)
Fairness == WF_vars(Tick) /\ WF_vars(OnTimer) /\ WF_vars(OnFallbackTimer)

Spec == Init /\ [][Next]_vars /\ Fairness

-----------------------------------------------------------------------------
(* Properties *)

TypeOK ==
    /\ contributors \in ContributorMap
    /\ aggregate \in {PayloadHash(e) : e \in Element} \cup {Null}
    /\ winners \in AttributeWinners \cup {Null}
    /\ eventTimer \in Nat \cup {Null}
    /\ processingTimer \in Nat \cup {Null}
    /\ eventTimers \in SUBSET Nat
    /\ processingTimers \in SUBSET Nat
    /\ watermark \in 0 .. MaxEventTime
    /\ now \in 0 .. MaxProcessingTime
    /\ published \in Event \cup {Null}
    /\ output \in Event \cup {Null}

(***************************************************************************)
(* The incrementally maintained index is the one a rebuild from all the    *)
(* contributors would give (AttributeWinners.observe against rebuild), and *)
(* the aggregate holds the hash of its element.  Only a legacy state that  *)
(* has not been touched yet has contributors and no index.                 *)
(***************************************************************************)
IndexIsRebuild ==
    /\ winners # Null => winners = Rebuild(contributors)
    /\ aggregate = IF Present(contributors) = {} THEN Null
                   ELSE PayloadHash(Merge(contributors))
    /\ Present(contributors) = {} => winners = Null

(***************************************************************************)
(* The compacted topic reconstructs the element: the last event of the key *)
(* is an upsert with the merge of the present contributors, or a delete    *)
(* (or nothing) when there are none.  A suppressed emission never hides a  *)
(* change.                                                                 *)
(***************************************************************************)
PublishedIsMerge ==
    IF Present(contributors) = {}
        THEN published \in {Null, Delete}
        ELSE published = Upsert(Merge(contributors))

(***************************************************************************)
(* No callback throws: no reachable state makes processElement or onTimer  *)
(* raise one of the IllegalStateExceptions (or the null aggregate) that    *)
(* would fail the job and, the input being replayed, fail it again.        *)
(***************************************************************************)
NeverThrows ==
    /\ EventTimerDue \/ ProcessingTimerDue => ~LoadStateThrows
    /\ \A observation \in Observations :
        IsOlder(observation)
            \/ ~ObserveThrows(observation,
                              SnapshotOf(observation, watermark, now))

(***************************************************************************)
(* In each time domain the stored timer is the one registered timer, and   *)
(* while a contributor is present it wakes the operator no later than the  *)
(* contributor's deadline rounded up; an element without contributors has  *)
(* no timer.  Were a wake-up lost, the contributor would never expire.     *)
(***************************************************************************)
TimersArmed ==
    /\ eventTimers = {eventTimer} \ {Null}
    /\ processingTimers = {processingTimer} \ {Null}
    /\ Present(contributors) = {} => eventTimer = Null /\ processingTimer = Null
    /\ \A c \in Present(contributors) :
        /\ eventTimer # Null
        /\ eventTimer <= CoalescedTimer(contributors[c].eventExpiresAt)
        /\ processingTimer # Null
        /\ processingTimer <=
                CoalescedTimer(contributors[c].processingExpiresAt)

(***************************************************************************)
(* Once a watermark has been processed, no contributor is left whose       *)
(* deadline, rounded up to the second, it has passed.                      *)
(***************************************************************************)
NoOverdueContributor ==
    ~EventTimerDue =>
        \A c \in Present(contributors) :
            CoalescedTimer(contributors[c].eventExpiresAt) > watermark

(***************************************************************************)
(* An event timer comes due only when the watermark passes it.  Flink does *)
(* not fire a timer registered behind the current watermark before the     *)
(* next one, so a callback must never leave such a timer.                  *)
(***************************************************************************)
NoTimerBehindWatermark ==
    [][~EventTimerDue /\ UNCHANGED watermark => ~EventTimerDue']_vars

(***************************************************************************)
(* With the source silent, every contributor expires and the element ends  *)
(* up deleted, even if the watermark never moves again: the processing     *)
(* clock is the fallback.                                                  *)
(***************************************************************************)
EventuallyRetracted == <>[](published \in {Null, Delete})

(* ElementLifecycle implements ElementContract. *)
Contract == INSTANCE ElementContract

RefinesContract == Contract!ContractSpec
=============================================================================
