----------------------- MODULE ContributionCoalescer ------------------------
(***************************************************************************)
(* ContributionCoalescer: the keyed operator in front of the lifecycle.    *)
(* For every (element, contributor) pair it forwards a new or a changed    *)
(* observation at once and a repeated one at most once per interval.       *)
(*                                                                         *)
(* The five ValueStates of a pair are written together and cleared         *)
(* together, so they are one record, or Null.  The job may be restarted    *)
(* from a savepoint with another interval: state and timers are restored   *)
(* as they were.                                                           *)
(***************************************************************************)
EXTENDS Integers, FiniteSets

CONSTANTS
    Pairs,              \* keys: (element id, contributor id)
    Elements,           \* what the element of an observation may look like
    Null,
    Ttl,                \* LifecyclePolicy.ttlSeconds, in clock units
    Intervals,          \* the configurable coalescing intervals
    Upgrades,           \* <<old, new>> intervals a redeployment may change
    Punctual,           \* processing timers fire before the clock moves on
    MaxEventTime,       \* bound on observation timestamps
    MaxProcessingTime,  \* bound on the processing clock
    QuietAfter          \* no observation is received after this time

(* EngineConfig rejects an interval that is not shorter than every TTL. *)
ASSUME IntervalAssumption ==
    /\ Ttl \in Nat \ {0}
    /\ Intervals \subseteq 0 .. (Ttl - 1)
    /\ Upgrades \subseteq Intervals \X Intervals

ASSUME BoundAssumption ==
    /\ MaxEventTime \in Nat
    /\ MaxProcessingTime \in Nat
    /\ QuietAfter \in Nat
    /\ QuietAfter + Ttl <= MaxProcessingTime
    /\ Punctual \in BOOLEAN

VARIABLES
    interval,     \* intervalMillis of the running deployment
    cache,        \* pair -> latest, lastForwarded, lastSeen, pending, timer
    timers,       \* pair -> processing timers registered with Flink
    now,          \* currentProcessingTime
    output,       \* <<pair, observation>> collected by the last step, or Null
    \* History, for the properties:
    forwarded,    \* pair -> the last observation forwarded, or Null
    forwardedAt,  \* pair -> the clock when it was forwarded
    heardAt       \* pair -> the clock of its last accepted observation

history == <<forwarded, forwardedAt, heardAt>>

vars == <<interval, cache, timers, now, output, forwarded, forwardedAt,
          heardAt>>

Observation == [observedAt : 1 .. MaxEventTime, element : Elements]

Cache == [latest : Observation,
          lastForwarded : Nat,
          lastSeen : Nat,
          pending : BOOLEAN,
          timer : Nat]

ASSUME NullAssumption ==
    /\ Null \notin Nat
    /\ Null \notin Cache
    /\ Null \notin Observation
    /\ Null \notin Pairs \X Observation

-----------------------------------------------------------------------------

Collect(pair, observation) ==
    /\ output' = <<pair, observation>>
    /\ forwarded' = [forwarded EXCEPT ![pair] = observation]
    /\ forwardedAt' = [forwardedAt EXCEPT ![pair] = now]

CollectNothing == output' = Null /\ UNCHANGED <<forwarded, forwardedAt>>

CleanupDeadline(seenAt) == seenAt + Ttl

(* Mutant: the new timer is written to the state but not registered. *)
StoreUnregistered(pair, entry, previous) ==
    /\ cache' = [cache EXCEPT ![pair] = entry]
    /\ timers' = [timers EXCEPT ![pair] = @ \ {previous}]

(* replaceTimer: a pair has one registered timer, the one in its state. *)
StoreWithTimer(pair, entry, previous) ==
    /\ cache' = [cache EXCEPT ![pair] = entry]
    /\ timers' = [timers EXCEPT ![pair] = (@ \ {previous}) \cup {entry.timer}]

CurrentTimer(pair) == IF cache[pair] = Null THEN Null ELSE cache[pair].timer

(* The entry written when an observation is forwarded on arrival. *)
ForwardedEntry(observation) ==
    [latest |-> observation, lastForwarded |-> now, lastSeen |-> now,
     pending |-> FALSE, timer |-> CleanupDeadline(now)]

(* Mutant: a repetition puts the refresh off. *)
WithheldPostponed(observation, lastForwarded) ==
    [latest |-> observation, lastForwarded |-> lastForwarded, lastSeen |-> now,
     pending |-> TRUE, timer |-> now + interval]

(* Mutant: only forwarded observations count as seen. *)
WithheldUnseen(observation, lastForwarded) ==
    [latest |-> observation, lastForwarded |-> lastForwarded,
     lastSeen |-> lastForwarded,
     pending |-> TRUE, timer |-> lastForwarded + interval]

(* The entry written when it is withheld until the next refresh. *)
WithheldEntry(observation, lastForwarded) ==
    [latest |-> observation, lastForwarded |-> lastForwarded, lastSeen |-> now,
     pending |-> TRUE, timer |-> lastForwarded + interval]

-----------------------------------------------------------------------------
(* processElement *)

Receives == now <= QuietAfter /\ UNCHANGED <<interval, now>>

Hear(pair) == heardAt' = [heardAt EXCEPT ![pair] = now]

PassThrough(pair, observation) ==
    /\ Receives
    /\ interval = 0
    /\ Collect(pair, observation)
    /\ Hear(pair)
    /\ UNCHANGED <<cache, timers>>

IgnoreOutOfOrder(pair, observation) ==
    /\ Receives
    /\ interval > 0
    /\ cache[pair] # Null
    /\ observation.observedAt < cache[pair].latest.observedAt
    /\ CollectNothing
    /\ UNCHANGED <<cache, timers, heardAt>>

InOrder(pair, observation) ==
    cache[pair] # Null
        => observation.observedAt >= cache[pair].latest.observedAt

(* Mutant: a changed element is not told from a repeated one. *)
ForwardsWhenDue(pair, observation) ==
    cache[pair] # Null => now >= cache[pair].lastForwarded + interval

(* New, changed, or unchanged with its refresh due. *)
ForwardsAtOnce(pair, observation) ==
    cache[pair] # Null =>
        \/ observation.element # cache[pair].latest.element
        \/ now >= cache[pair].lastForwarded + interval

Forward(pair, observation) ==
    /\ Receives
    /\ interval > 0
    /\ InOrder(pair, observation)
    /\ ForwardsAtOnce(pair, observation)
    /\ Collect(pair, observation)
    /\ Hear(pair)
    /\ StoreWithTimer(pair, ForwardedEntry(observation), CurrentTimer(pair))

Withhold(pair, observation) ==
    /\ Receives
    /\ interval > 0
    /\ InOrder(pair, observation)
    /\ ~ForwardsAtOnce(pair, observation)
    /\ CollectNothing
    /\ Hear(pair)
    /\ StoreWithTimer(pair,
            WithheldEntry(observation, cache[pair].lastForwarded),
            CurrentTimer(pair))

-----------------------------------------------------------------------------
(* onTimer *)

(***************************************************************************)
(* A due timer of the pair.  With interval 0 open() creates no state, so a *)
(* restored timer's callback dereferences null and the job fails: it has   *)
(* no step, and TimersBelongToState is violated.                           *)
(***************************************************************************)
Due(pair, timestamp) ==
    /\ timestamp \in timers[pair]
    /\ timestamp <= now
    /\ interval > 0
    /\ UNCHANGED <<interval, now, heardAt>>

(* Mutant: a refresh does not count as forwarded. *)
RefreshedUncounted(entry, timestamp) ==
    [entry EXCEPT !.pending = FALSE, !.timer = CleanupDeadline(entry.lastSeen)]

(* lastForwarded becomes the timer's timestamp, not the current time. *)
RefreshedEntry(entry, timestamp) ==
    [latest |-> entry.latest, lastForwarded |-> timestamp,
     lastSeen |-> entry.lastSeen, pending |-> FALSE,
     timer |-> CleanupDeadline(entry.lastSeen)]

ForwardPending(pair, timestamp) ==
    /\ Due(pair, timestamp)
    /\ CurrentTimer(pair) = timestamp
    /\ cache[pair].pending
    /\ Collect(pair, cache[pair].latest)
    /\ StoreWithTimer(pair, RefreshedEntry(cache[pair], timestamp), timestamp)

(* Mutant: a timer at the deadline is taken to be early. *)
SilentTooLate(entry, timestamp) == timestamp > CleanupDeadline(entry.lastSeen)

IsSilent(entry, timestamp) == timestamp >= CleanupDeadline(entry.lastSeen)

(***************************************************************************)
(* A timer with nothing to forward: one that is not the stored timer is    *)
(* ignored, a pair that has been silent for its TTL is forgotten, and      *)
(* another one is looked at again at its deadline.  (TimerMatchesState     *)
(* makes the first and the last of these defensive code.)                  *)
(***************************************************************************)
CleanUp(pair, timestamp) ==
    LET entry  == cache[pair]
        forget == CurrentTimer(pair) = timestamp /\ IsSilent(entry, timestamp)
    IN  /\ Due(pair, timestamp)
        /\ CurrentTimer(pair) = timestamp => ~entry.pending
        /\ CollectNothing
        /\ IF CurrentTimer(pair) = timestamp /\ ~forget
            THEN StoreWithTimer(pair,
                    [entry EXCEPT !.timer = CleanupDeadline(entry.lastSeen)],
                    timestamp)
            ELSE /\ timers' = [timers EXCEPT ![pair] = @ \ {timestamp}]
                 /\ cache' = [cache EXCEPT ![pair] = IF forget THEN Null ELSE @]

-----------------------------------------------------------------------------

TimerDue(pair) == \E t \in timers[pair] : t <= now

Tick ==
    /\ now < MaxProcessingTime
    /\ Punctual => \A pair \in Pairs : ~TimerDue(pair)
    /\ now' = now + 1
    /\ output' = Null
    /\ UNCHANGED <<interval, cache, timers, history>>

(* A redeployment from a savepoint with another interval. *)
Redeploy ==
    /\ \E i \in Intervals : <<interval, i>> \in Upgrades /\ interval' = i
    /\ output' = Null
    /\ UNCHANGED <<cache, timers, now, history>>

(* The clock is at its bound and every cache has been cleaned up. *)
Quiescent ==
    /\ now = MaxProcessingTime
    /\ \A pair \in Pairs : timers[pair] = {}
    /\ UNCHANGED vars

Init ==
    /\ interval \in Intervals
    /\ cache = [pair \in Pairs |-> Null]
    /\ timers = [pair \in Pairs |-> {}]
    /\ now = 0
    /\ output = Null
    /\ forwarded = [pair \in Pairs |-> Null]
    /\ forwardedAt = [pair \in Pairs |-> 0]
    /\ heardAt = [pair \in Pairs |-> 0]

ProcessElement ==
    \E pair \in Pairs, observation \in Observation :
        \/ PassThrough(pair, observation)
        \/ IgnoreOutOfOrder(pair, observation)
        \/ Forward(pair, observation)
        \/ Withhold(pair, observation)

OnTimer(pair) ==
    \E timestamp \in timers[pair] :
        \/ ForwardPending(pair, timestamp)
        \/ CleanUp(pair, timestamp)

Next == \/ ProcessElement
        \/ \E pair \in Pairs : OnTimer(pair)
        \/ Tick
        \/ Redeploy
        \/ Quiescent

(* The wall clock moves and Flink fires the timers that are due. *)
Fairness == WF_vars(Tick) /\ \A pair \in Pairs : WF_vars(OnTimer(pair))

Spec == Init /\ [][Next]_vars /\ Fairness

-----------------------------------------------------------------------------
(* Properties *)

TypeOK ==
    /\ interval \in Intervals
    /\ cache \in [Pairs -> Cache \cup {Null}]
    /\ timers \in [Pairs -> SUBSET Nat]
    /\ now \in 0 .. MaxProcessingTime
    /\ output \in (Pairs \X Observation) \cup {Null}
    /\ forwarded \in [Pairs -> Observation \cup {Null}]
    /\ forwardedAt \in [Pairs -> Nat]
    /\ heardAt \in [Pairs -> Nat]

(***************************************************************************)
(* The one registered timer of a pair is the one in its state, and it is   *)
(* the cleanup deadline unless a refresh is pending.  With two timers, or  *)
(* none, a refresh or the cleanup would be lost (replaceTimer, onTimer).   *)
(***************************************************************************)
TimerMatchesState ==
    \A pair \in Pairs :
        /\ timers[pair] = {CurrentTimer(pair)} \ {Null}
        /\ (cache[pair] # Null /\ ~cache[pair].pending)
                => cache[pair].timer = CleanupDeadline(cache[pair].lastSeen)

(***************************************************************************)
(* Coalescing loses nothing: what has not been forwarded is a repetition   *)
(* of what has, with a newer timestamp, and it is pending with a timer     *)
(* that comes before the TTL of the last forwarded observation runs out.   *)
(***************************************************************************)
NothingWithheldForGood ==
    \A pair \in Pairs : cache[pair] # Null =>
        LET entry == cache[pair]
        IN  /\ forwarded[pair] # Null
            /\ forwarded[pair].element = entry.latest.element
            /\ forwarded[pair].observedAt <= entry.latest.observedAt
            /\ (~entry.pending => forwarded[pair] = entry.latest)
            /\ (entry.pending => entry.timer < entry.lastForwarded + Ttl)

(***************************************************************************)
(* The lifecycle's processing-time fallback never expires a pair that is   *)
(* still observed: while a refresh is withheld, the deadline the lifecycle *)
(* took from the last forwarded observation has not passed.  This is what  *)
(* EngineConfig's "interval shorter than every TTL" is for.                *)
(***************************************************************************)
RefreshBeatsExpiry ==
    \A pair \in Pairs :
        (cache[pair] # Null /\ cache[pair].pending)
            => now < forwardedAt[pair] + Ttl

(***************************************************************************)
(* A pair is forgotten only when nothing of it is withheld and it has not  *)
(* been heard of for its TTL: forgotten earlier, the next repetition would *)
(* be forwarded as new and escape coalescing.                              *)
(***************************************************************************)
ForgetsOnlySilentPairs ==
    [][\A pair \in Pairs :
        (cache[pair] # Null /\ cache'[pair] = Null)
            => (~cache[pair].pending /\ now >= heardAt[pair] + Ttl)]_vars

(***************************************************************************)
(* Unchanged evidence of a cached pair is forwarded at most once per       *)
(* interval of the processing clock.  (A refresh withheld before a         *)
(* redeployment keeps the interval it was withheld under.)                 *)
(***************************************************************************)
RateLimit ==
    [][\A pair \in Pairs : \A observation \in Observation :
        ( /\ output' = <<pair, observation>>
          /\ interval > 0
          /\ cache[pair] # Null
          /\ observation.element = forwarded[pair].element )
        => \E i \in Intervals \ {0} : now >= forwardedAt[pair] + i]_vars

(***************************************************************************)
(* "0 makes the coalescer a stateless pass-through": no timer is left to   *)
(* call back into state that does not exist.                               *)
(***************************************************************************)
TimersBelongToState ==
    interval = 0 => \A pair \in Pairs : ~TimerDue(pair)

(***************************************************************************)
(* A pair that falls silent is forgotten in the end, whatever timers the   *)
(* redeployments have restored: no wake-up of it is lost or repeats itself *)
(* for ever.  (What was withheld has been forwarded by then, since         *)
(* ForgetsOnlySilentPairs.)                                                *)
(***************************************************************************)
SilentEventuallyForgotten == <>[](\A pair \in Pairs : cache[pair] = Null)
=============================================================================
