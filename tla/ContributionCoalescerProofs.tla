-------------------- MODULE ContributionCoalescerProofs ---------------------
(***************************************************************************)
(* Safety of ContributionCoalescer for every set of pairs and elements,    *)
(* every TTL and every set of intervals below it, as long as no            *)
(* redeployment turns coalescing off (see TimersBelongToState).            *)
(***************************************************************************)
EXTENDS ContributionCoalescer, TLAPS

CoalescingStaysOn == \A u \in Upgrades : u[2] = 0 => u[1] = 0

(* What the state of a cached pair says about the history of the pair. *)
EntryOK(pair) ==
    cache[pair] # Null =>
        LET entry == cache[pair]
        IN  /\ interval # 0
            /\ forwarded[pair] # Null
            /\ forwarded[pair].element = entry.latest.element
            /\ forwarded[pair].observedAt <= entry.latest.observedAt
            /\ entry.lastSeen = heardAt[pair]
            /\ entry.lastForwarded <= now
            /\ ~entry.pending => forwarded[pair] = entry.latest
            /\ entry.pending =>
                /\ entry.lastForwarded <= entry.lastSeen
                /\ \E i \in Intervals \ {0} :
                        entry.timer = entry.lastForwarded + i

(* With punctual timers no timer is overdue and no refresh is late. *)
PunctualOK(pair) ==
    Punctual =>
        /\ \A t \in timers[pair] : now <= t
        /\ cache[pair] # Null =>
                forwardedAt[pair] = cache[pair].lastForwarded

IInv ==
    /\ TypeOK
    /\ TimerMatchesState
    /\ \A pair \in Pairs : EntryOK(pair) /\ PunctualOK(pair)

-----------------------------------------------------------------------------

LEMMA IntervalFacts ==
    /\ Ttl \in Nat /\ Ttl > 0
    /\ \A i \in Intervals : i \in Nat /\ i < Ttl
BY IntervalAssumption

LEMMA EntryTypes ==
    /\ \A entry \in Cache :
        /\ entry # Null
        /\ entry.latest \in Observation
        /\ entry.lastForwarded \in Nat
        /\ entry.lastSeen \in Nat
        /\ entry.timer \in Nat
        /\ entry.timer # Null
    /\ \A o \in Observation : o # Null /\ o.observedAt \in Nat
BY NullAssumption, BoundAssumption DEF Cache, Observation

LEMMA InitEstablishes == Init => IInv
BY BoundAssumption
   DEF Init, IInv, TypeOK, TimerMatchesState, CurrentTimer, EntryOK, PunctualOK

-----------------------------------------------------------------------------
(* One lemma per step *)

LEMMA PassThroughPreserves ==
    ASSUME NEW pair \in Pairs, NEW o \in Observation, IInv, PassThrough(pair, o)
    PROVE  IInv'
<1>1. \A q \in Pairs : cache[q] = Null
    BY DEF IInv, EntryOK, PassThrough
<1>2. QED
    BY <1>1, IntervalFacts, BoundAssumption
       DEF IInv, TypeOK, TimerMatchesState, CurrentTimer, EntryOK, PunctualOK,
           PassThrough, Receives, Collect, Hear

LEMMA IgnoreOutOfOrderPreserves ==
    ASSUME NEW pair \in Pairs, NEW o \in Observation, IInv,
           IgnoreOutOfOrder(pair, o)
    PROVE  IInv'
BY DEF IInv, TypeOK, TimerMatchesState, CurrentTimer, EntryOK, PunctualOK,
       IgnoreOutOfOrder, Receives, CollectNothing

(***************************************************************************)
(* Every other step rewrites the entry and the timer of one pair with      *)
(* StoreWithTimer: what has to hold of the new entry.                      *)
(***************************************************************************)
LEMMA StorePreserves ==
    ASSUME NEW pair \in Pairs, NEW entry \in Cache, IInv,
           StoreWithTimer(pair, entry, CurrentTimer(pair)),
           UNCHANGED <<interval, now>>,
           \A q \in Pairs \ {pair} :
                /\ forwarded'[q] = forwarded[q]
                /\ forwardedAt'[q] = forwardedAt[q]
                /\ heardAt'[q] = heardAt[q],
           output' \in (Pairs \X Observation) \cup {Null},
           forwarded' \in [Pairs -> Observation \cup {Null}],
           forwardedAt' \in [Pairs -> Nat],
           heardAt' \in [Pairs -> Nat],
           ~entry.pending => entry.timer = CleanupDeadline(entry.lastSeen),
           EntryOK(pair)',
           Punctual => now <= entry.timer,
           Punctual => forwardedAt'[pair] = entry.lastForwarded
    PROVE  IInv'
<1>1. /\ cache' = [cache EXCEPT ![pair] = entry]
      /\ timers' = [timers EXCEPT
            ![pair] = (@ \ {CurrentTimer(pair)}) \cup {entry.timer}]
    BY DEF StoreWithTimer
<1>2. /\ cache \in [Pairs -> Cache \cup {Null}]
      /\ timers \in [Pairs -> SUBSET Nat]
      /\ \A q \in Pairs : timers[q] = {CurrentTimer(q)} \ {Null}
    BY DEF IInv, TypeOK, TimerMatchesState
<1>3. /\ cache'[pair] = entry
      /\ timers'[pair] = {entry.timer}
      /\ \A q \in Pairs \ {pair} :
            cache'[q] = cache[q] /\ timers'[q] = timers[q]
    BY <1>1, <1>2
<1>4. TypeOK'
    BY <1>1, <1>2, EntryTypes DEF IInv, TypeOK
<1>5. TimerMatchesState'
    BY <1>3, EntryTypes
       DEF IInv, TimerMatchesState, CurrentTimer, CleanupDeadline
<1>6. ASSUME NEW q \in Pairs PROVE EntryOK(q)' /\ PunctualOK(q)'
    <2>1. CASE q = pair
        BY <1>3, <2>1 DEF PunctualOK
    <2>2. CASE q # pair
        BY <1>3, <2>2 DEF IInv, EntryOK, PunctualOK
    <2>3. QED
        BY <2>1, <2>2
<1>7. QED
    BY <1>4, <1>5, <1>6 DEF IInv

LEMMA ForwardPreserves ==
    ASSUME NEW pair \in Pairs, NEW o \in Observation, IInv, Forward(pair, o)
    PROVE  IInv'
<1> DEFINE entry == ForwardedEntry(o)
<1>1. now \in Nat /\ Ttl \in Nat /\ interval \in Nat
    BY IntervalFacts, BoundAssumption DEF IInv, TypeOK
<1>2. entry \in Cache
    BY <1>1 DEF Cache, ForwardedEntry, CleanupDeadline
<1>3. cache'[pair] = entry
    BY DEF Forward, StoreWithTimer, IInv, TypeOK
<1>4. /\ forwarded' = [forwarded EXCEPT ![pair] = o]
      /\ forwardedAt' = [forwardedAt EXCEPT ![pair] = now]
      /\ heardAt' = [heardAt EXCEPT ![pair] = now]
      /\ output' = <<pair, o>>
      /\ UNCHANGED <<interval, now>>
    BY DEF Forward, Collect, Hear, Receives
<1>5. /\ forwarded'[pair] = o /\ forwardedAt'[pair] = now /\ heardAt'[pair] = now
      /\ forwarded' \in [Pairs -> Observation \cup {Null}]
      /\ forwardedAt' \in [Pairs -> Nat]
      /\ heardAt' \in [Pairs -> Nat]
    BY <1>1, <1>4 DEF IInv, TypeOK
<1>6. EntryOK(pair)'
    BY <1>1, <1>3, <1>4, <1>5, EntryTypes DEF EntryOK, ForwardedEntry, Forward
<1>7. StoreWithTimer(pair, entry, CurrentTimer(pair))
    BY DEF Forward
<1>8. /\ entry.timer = CleanupDeadline(entry.lastSeen)
      /\ now <= entry.timer
      /\ entry.lastForwarded = now
    BY <1>1 DEF ForwardedEntry, CleanupDeadline
<1> HIDE DEF entry
<1>9. QED
    BY <1>2, <1>4, <1>5, <1>6, <1>7, <1>8, StorePreserves

LEMMA WithholdPreserves ==
    ASSUME NEW pair \in Pairs, NEW o \in Observation, IInv, Withhold(pair, o)
    PROVE  IInv'
<1> DEFINE last  == cache[pair].lastForwarded
           entry == WithheldEntry(o, last)
<1>1. now \in Nat /\ interval \in Nat /\ interval \in Intervals \ {0}
    BY IntervalFacts, BoundAssumption DEF IInv, TypeOK, Withhold
<1>2. /\ cache[pair] \in Cache
      /\ last \in Nat
      /\ o.element = cache[pair].latest.element
      /\ now < last + interval
      /\ cache[pair].latest.observedAt <= o.observedAt
    BY <1>1, EntryTypes DEF IInv, TypeOK, Withhold, ForwardsAtOnce, InOrder
<1>3. entry \in Cache
    BY <1>1, <1>2 DEF Cache, WithheldEntry
<1>4. cache'[pair] = entry
    BY DEF Withhold, StoreWithTimer, IInv, TypeOK
<1>5. /\ UNCHANGED <<forwarded, forwardedAt>>
      /\ heardAt' = [heardAt EXCEPT ![pair] = now]
      /\ output' = Null
      /\ UNCHANGED <<interval, now>>
    BY DEF Withhold, CollectNothing, Hear, Receives
<1>6. /\ heardAt'[pair] = now
      /\ heardAt' \in [Pairs -> Nat]
      /\ forwarded' \in [Pairs -> Observation \cup {Null}]
      /\ forwardedAt' \in [Pairs -> Nat]
    BY <1>1, <1>5 DEF IInv, TypeOK
<1>7. /\ cache[pair] # Null
      /\ EntryOK(pair)
      /\ PunctualOK(pair)
    BY <1>2, EntryTypes DEF IInv
<1>8. /\ forwarded[pair] # Null
      /\ forwarded[pair].element = o.element
      /\ forwarded[pair].observedAt <= o.observedAt
      /\ last <= now
    <2>1. forwarded[pair] \in Observation
        BY <1>7 DEF IInv, TypeOK, EntryOK
    <2>2. QED
        BY <1>2, <1>7, <2>1, EntryTypes DEF EntryOK
<1>9. /\ entry.latest = o /\ entry.lastSeen = now /\ entry.pending
      /\ entry.lastForwarded = last
      /\ entry.timer = last + interval
    BY DEF WithheldEntry
<1>10. StoreWithTimer(pair, entry, CurrentTimer(pair))
    BY DEF Withhold
<1> HIDE DEF entry
<1>11. EntryOK(pair)'
    BY <1>1, <1>4, <1>5, <1>6, <1>8, <1>9 DEF EntryOK
<1>12. /\ Punctual => now <= entry.timer
       /\ Punctual => forwardedAt'[pair] = entry.lastForwarded
    BY <1>1, <1>2, <1>5, <1>7, <1>9 DEF PunctualOK
<1>13. QED
    BY <1>3, <1>5, <1>6, <1>9, <1>10, <1>11, <1>12, StorePreserves

LEMMA ForwardPendingPreserves ==
    ASSUME NEW pair \in Pairs, NEW t \in timers[pair], IInv,
           ForwardPending(pair, t)
    PROVE  IInv'
<1> DEFINE old   == cache[pair]
           entry == RefreshedEntry(old, t)
<1>1. now \in Nat /\ Ttl \in Nat /\ t \in Nat
    BY IntervalFacts, BoundAssumption DEF IInv, TypeOK
<1>2. /\ old \in Cache
      /\ old # Null
      /\ old.timer = t
      /\ old.pending
      /\ t <= now
      /\ CurrentTimer(pair) = t
    BY <1>1, NullAssumption, BoundAssumption, IntervalFacts
       DEF IInv, TypeOK, TimerMatchesState, ForwardPending, Due, CurrentTimer
<1>3. /\ EntryOK(pair)
      /\ PunctualOK(pair)
    BY DEF IInv
<1>4. PICK i \in Intervals \ {0} : t = old.lastForwarded + i
    BY <1>2, <1>3 DEF EntryOK
<1>5. /\ old.lastForwarded <= old.lastSeen
      /\ interval # 0
      /\ old.lastSeen = heardAt[pair]
      /\ i \in Nat /\ i < Ttl
      /\ old.lastForwarded \in Nat
      /\ old.lastSeen \in Nat
      /\ old.latest \in Observation
    BY <1>2, <1>3, IntervalFacts, EntryTypes DEF EntryOK
<1>6. /\ entry.latest = old.latest /\ entry.lastSeen = old.lastSeen
      /\ entry.lastForwarded = t /\ ~entry.pending
      /\ entry.timer = old.lastSeen + Ttl
      /\ entry \in Cache
    BY <1>1, <1>2, <1>5 DEF RefreshedEntry, Cache, CleanupDeadline
<1>7. /\ forwarded' = [forwarded EXCEPT ![pair] = old.latest]
      /\ forwardedAt' = [forwardedAt EXCEPT ![pair] = now]
      /\ output' = <<pair, old.latest>>
      /\ UNCHANGED <<interval, now, heardAt>>
      /\ StoreWithTimer(pair, entry, CurrentTimer(pair))
    BY <1>2 DEF ForwardPending, Collect, Due
<1> HIDE DEF entry
<1>8. /\ cache'[pair] = entry
      /\ forwarded'[pair] = old.latest
      /\ forwardedAt'[pair] = now
      /\ forwarded' \in [Pairs -> Observation \cup {Null}]
      /\ forwardedAt' \in [Pairs -> Nat]
      /\ heardAt' \in [Pairs -> Nat]
      /\ output' \in (Pairs \X Observation) \cup {Null}
    BY <1>1, <1>5, <1>7 DEF IInv, TypeOK, StoreWithTimer
<1>9. EntryOK(pair)'
    BY <1>1, <1>2, <1>5, <1>6, <1>7, <1>8, EntryTypes DEF EntryOK
<1>10. Punctual => now = t
    BY <1>1, <1>2, <1>3 DEF PunctualOK
<1>11. QED
    BY <1>1, <1>4, <1>5, <1>6, <1>7, <1>8, <1>9, <1>10, StorePreserves
       DEF CleanupDeadline

(* By the invariant the timer is the stored one and the pair is silent. *)
LEMMA CleanUpForgets ==
    ASSUME NEW pair \in Pairs, NEW t \in timers[pair], IInv, CleanUp(pair, t)
    PROVE  /\ cache[pair] # Null
           /\ ~cache[pair].pending
           /\ t = heardAt[pair] + Ttl
           /\ t <= now
           /\ cache' = [cache EXCEPT ![pair] = Null]
           /\ timers' = [timers EXCEPT ![pair] = {}]
<1>1. /\ cache[pair] \in Cache
      /\ cache[pair] # Null
      /\ timers[pair] = {t}
      /\ CurrentTimer(pair) = t
      /\ cache[pair].timer = t
    BY NullAssumption DEF IInv, TypeOK, TimerMatchesState, CurrentTimer
<1>2. /\ ~cache[pair].pending
      /\ t = CleanupDeadline(cache[pair].lastSeen)
      /\ cache[pair].lastSeen = heardAt[pair]
      /\ t <= now
    BY <1>1 DEF CleanUp, Due, IInv, TimerMatchesState, EntryOK
<1>3. IsSilent(cache[pair], t)
    BY <1>1, <1>2, EntryTypes, IntervalFacts DEF IsSilent, CleanupDeadline
<1>4. /\ cache' = [cache EXCEPT ![pair] = Null]
      /\ timers' = [timers EXCEPT ![pair] = @ \ {t}]
    BY <1>1, <1>3 DEF CleanUp
<1>5. QED
    BY <1>1, <1>2, <1>4 DEF CleanupDeadline, IInv, TypeOK

LEMMA CleanUpPreserves ==
    ASSUME NEW pair \in Pairs, NEW t \in timers[pair], IInv, CleanUp(pair, t)
    PROVE  IInv'
<1>1. /\ cache' = [cache EXCEPT ![pair] = Null]
      /\ timers' = [timers EXCEPT ![pair] = {}]
    BY CleanUpForgets
<1>2. output' = Null /\ UNCHANGED <<interval, now, history>>
    BY DEF CleanUp, CollectNothing, Due, history
<1>3. QED
    BY <1>1, <1>2
       DEF IInv, TypeOK, TimerMatchesState, CurrentTimer, EntryOK, PunctualOK,
           history, CleanupDeadline

LEMMA TickPreserves ==
    ASSUME IInv, Tick
    PROVE  IInv'
<1>1. now \in Nat /\ now' = now + 1 /\ now' \in 0 .. MaxProcessingTime
    BY BoundAssumption DEF Tick, IInv, TypeOK
<1>2. output' = Null /\ UNCHANGED <<interval, cache, timers, history>>
    BY DEF Tick
<1>3. ASSUME NEW pair \in Pairs PROVE EntryOK(pair)'
    <2>1. cache[pair] # Null => cache[pair].lastForwarded \in Nat
        BY EntryTypes DEF IInv, TypeOK
    <2>2. QED
        BY <1>1, <1>2, <2>1 DEF IInv, EntryOK, history
<1>4. ASSUME NEW pair \in Pairs PROVE PunctualOK(pair)'
    <2>1. timers[pair] \subseteq Nat
        BY DEF IInv, TypeOK
    <2>2. Punctual => \A t \in timers[pair] : ~(t <= now)
        BY DEF Tick, TimerDue
    <2>3. QED
        BY <1>1, <1>2, <2>1, <2>2 DEF IInv, PunctualOK, history
<1>5. TypeOK' /\ TimerMatchesState'
    BY <1>1, <1>2
       DEF IInv, TypeOK, TimerMatchesState, CurrentTimer, CleanupDeadline, history
<1>6. QED
    BY <1>3, <1>4, <1>5 DEF IInv

LEMMA RedeployPreserves ==
    ASSUME CoalescingStaysOn, IInv, Redeploy
    PROVE  IInv'
<1>1. interval' \in Intervals /\ (interval' = 0 => interval = 0)
    BY IntervalAssumption DEF Redeploy, CoalescingStaysOn
<1>2. QED
    BY <1>1
       DEF IInv, TypeOK, TimerMatchesState, CurrentTimer, EntryOK, PunctualOK,
           CleanupDeadline, Redeploy, history

LEMMA StepPreserves ==
    ASSUME CoalescingStaysOn, IInv, [Next]_vars
    PROVE  IInv'
<1>1. CASE ProcessElement
    BY <1>1, PassThroughPreserves, IgnoreOutOfOrderPreserves, ForwardPreserves,
       WithholdPreserves DEF ProcessElement
<1>2. CASE \E pair \in Pairs : OnTimer(pair)
    BY <1>2, ForwardPendingPreserves, CleanUpPreserves DEF OnTimer
<1>3. CASE Tick
    BY <1>3, TickPreserves
<1>4. CASE Redeploy
    BY <1>4, RedeployPreserves
<1>5. CASE UNCHANGED vars
    BY <1>5
       DEF vars, IInv, TypeOK, TimerMatchesState, CurrentTimer, EntryOK,
           PunctualOK, CleanupDeadline
<1>6. QED
    BY <1>1, <1>2, <1>3, <1>4, <1>5 DEF Next, Quiescent

-----------------------------------------------------------------------------
(* The theorems *)

(* The invariant holds of every reachable state. *)
THEOREM CoalescerInvariance ==
    ASSUME CoalescingStaysOn
    PROVE  Spec => []IInv
<1>1. IInv /\ [Next]_vars => IInv'
    BY StepPreserves
<1>2. QED
    BY <1>1, InitEstablishes, PTL DEF Spec

(* Type correctness of the coalescer's state. *)
THEOREM CoalescerTypeCorrect ==
    ASSUME CoalescingStaysOn
    PROVE  Spec => []TypeOK
<1>1. IInv => TypeOK
    BY DEF IInv
<1>2. QED
    BY <1>1, CoalescerInvariance, PTL

(* The stored timer of a pair is its only registered timer. *)
THEOREM TimerCorrect ==
    ASSUME CoalescingStaysOn
    PROVE  Spec => []TimerMatchesState
<1>1. IInv => TimerMatchesState
    BY DEF IInv
<1>2. QED
    BY <1>1, CoalescerInvariance, PTL

(* What is withheld is a repetition with an armed refresh. *)
THEOREM NothingLost ==
    ASSUME CoalescingStaysOn
    PROVE  Spec => []NothingWithheldForGood
<1>1. IInv => NothingWithheldForGood
    <2>1. SUFFICES ASSUME IInv, NEW pair \in Pairs, cache[pair] # Null
                   PROVE  /\ EntryOK(pair)
                          /\ cache[pair].pending => cache[pair].timer <
                                cache[pair].lastForwarded + Ttl
        BY DEF NothingWithheldForGood, EntryOK
    <2>2. EntryOK(pair) /\ cache[pair] \in Cache
        BY <2>1 DEF IInv, TypeOK
    <2>3. QED
        BY <2>1, <2>2, EntryTypes, IntervalFacts DEF EntryOK
<1>2. QED
    BY <1>1, CoalescerInvariance, PTL

(* With punctual timers, a withheld refresh precedes the fallback expiry. *)
THEOREM RefreshIsInTime ==
    ASSUME CoalescingStaysOn, Punctual = TRUE
    PROVE  Spec => []RefreshBeatsExpiry
<1>1. IInv => RefreshBeatsExpiry
    <2>1. SUFFICES ASSUME IInv, NEW pair \in Pairs,
                          cache[pair] # Null, cache[pair].pending
                   PROVE  now < forwardedAt[pair] + Ttl
        BY DEF RefreshBeatsExpiry
    <2>2. /\ EntryOK(pair) /\ PunctualOK(pair)
          /\ cache[pair] \in Cache
          /\ cache[pair].timer \in timers[pair]
          /\ now \in Nat
        BY <2>1, EntryTypes, BoundAssumption
           DEF IInv, TypeOK, TimerMatchesState, CurrentTimer
    <2>3. QED
        BY <2>1, <2>2, EntryTypes, IntervalFacts DEF EntryOK, PunctualOK
<1>2. QED
    BY <1>1, CoalescerInvariance, PTL

(* Only a pair that was silent for its TTL loses its cache. *)
THEOREM OnlySilentPairsForgotten ==
    ASSUME CoalescingStaysOn
    PROVE  Spec => ForgetsOnlySilentPairs
<1> DEFINE Forgets == \A pair \in Pairs :
        (cache[pair] # Null /\ cache'[pair] = Null)
            => (~cache[pair].pending /\ now >= heardAt[pair] + Ttl)
<1>1. IInv /\ [Next]_vars => [Forgets]_vars
    <2> SUFFICES ASSUME IInv, [Next]_vars, NEW pair \in Pairs,
                        cache[pair] # Null, cache'[pair] = Null
                 PROVE  ~cache[pair].pending /\ now >= heardAt[pair] + Ttl
        OBVIOUS
    <2>1. cache \in [Pairs -> Cache \cup {Null}]
        BY DEF IInv, TypeOK
    <2>2. ASSUME NEW q \in Pairs, NEW entry \in Cache, NEW previous,
                 StoreWithTimer(q, entry, previous)
          PROVE  FALSE
        BY <2>1, <2>2, EntryTypes DEF StoreWithTimer
    <2>3. ASSUME NEW q \in Pairs, NEW o \in Observation, Forward(q, o)
          PROVE  FALSE
        <3>1. ForwardedEntry(o) \in Cache
            BY BoundAssumption, IntervalFacts
               DEF IInv, TypeOK, ForwardedEntry, Cache, CleanupDeadline
        <3>2. QED
            BY <2>2, <2>3, <3>1 DEF Forward
    <2>4. ASSUME NEW q \in Pairs, NEW o \in Observation, Withhold(q, o)
          PROVE  FALSE
        <3>1. cache[q].lastForwarded \in Nat /\ now \in Nat /\ interval \in Nat
            BY <2>1, <2>4, EntryTypes, BoundAssumption, IntervalFacts
               DEF IInv, TypeOK, Withhold, ForwardsAtOnce
        <3>2. WithheldEntry(o, cache[q].lastForwarded) \in Cache
            BY <3>1 DEF WithheldEntry, Cache
        <3>3. QED
            BY <2>2, <2>4, <3>2 DEF Withhold
    <2>5. ASSUME NEW q \in Pairs, NEW t \in timers[q], ForwardPending(q, t)
          PROVE  FALSE
        <3>1. cache[q] \in Cache /\ t \in Nat /\ Ttl \in Nat
            BY <2>1, <2>5, IntervalFacts, NullAssumption
               DEF IInv, TypeOK, ForwardPending, TimerMatchesState, CurrentTimer
        <3>2. RefreshedEntry(cache[q], t) \in Cache
            BY <3>1, EntryTypes DEF RefreshedEntry, Cache, CleanupDeadline
        <3>3. QED
            BY <2>2, <2>5, <3>2 DEF ForwardPending
    <2>6. ASSUME NEW q \in Pairs, NEW t \in timers[q], CleanUp(q, t)
          PROVE  ~cache[pair].pending /\ now >= heardAt[pair] + Ttl
        <3>1. /\ cache' = [cache EXCEPT ![q] = Null]
              /\ ~cache[q].pending
              /\ heardAt[q] + Ttl <= now
            BY <2>6, CleanUpForgets
        <3>2. pair = q
            BY <2>1, <3>1
        <3>3. QED
            BY <3>1, <3>2, IntervalFacts, BoundAssumption DEF IInv, TypeOK
    <2>7. CASE ProcessElement
        BY <2>3, <2>4, <2>7 DEF ProcessElement, PassThrough, IgnoreOutOfOrder
    <2>8. CASE \E q \in Pairs : OnTimer(q)
        BY <2>5, <2>6, <2>8 DEF OnTimer
    <2>9. CASE Tick \/ Redeploy \/ UNCHANGED vars
        BY <2>9 DEF Tick, Redeploy, vars
    <2>10. QED
        BY <2>7, <2>8, <2>9 DEF Next, Quiescent
<1>2. QED
    BY <1>1, CoalescerInvariance, PTL DEF Spec, ForgetsOnlySilentPairs

(* Unchanged evidence is forwarded at most once per interval. *)
THEOREM ForwardingIsRateLimited ==
    ASSUME CoalescingStaysOn, Punctual = TRUE
    PROVE  Spec => RateLimit
<1> DEFINE Limited ==
        \A pair \in Pairs : \A observation \in Observation :
            ( /\ output' = <<pair, observation>>
              /\ interval > 0
              /\ cache[pair] # Null
              /\ observation.element = forwarded[pair].element )
            => \E i \in Intervals \ {0} : now >= forwardedAt[pair] + i
<1>1. IInv /\ [Next]_vars => [Limited]_vars
    <2> SUFFICES ASSUME IInv, Next,
                        NEW pair \in Pairs, NEW o \in Observation,
                        output' = <<pair, o>>, interval > 0,
                        cache[pair] # Null, vars' # vars,
                        o.element = forwarded[pair].element
                 PROVE  \E i \in Intervals \ {0} : now >= forwardedAt[pair] + i
        OBVIOUS
    <2>1. /\ EntryOK(pair)
          /\ forwardedAt[pair] = cache[pair].lastForwarded
          /\ cache[pair] \in Cache
          /\ cache[pair].lastForwarded \in Nat
          /\ now \in Nat
          /\ interval \in Intervals
        BY EntryTypes, BoundAssumption DEF IInv, TypeOK, PunctualOK
    <2>2. output' # Null
        BY NullAssumption
    <2>3. ASSUME NEW q \in Pairs, NEW p \in Observation, Forward(q, p)
          PROVE  now >= forwardedAt[pair] + interval
        <3>1. q = pair /\ p = o
            BY <2>3 DEF Forward, Collect
        <3>2. o.element = cache[pair].latest.element
            BY <2>1 DEF EntryOK
        <3>3. QED
            BY <2>1, <2>3, <3>1, <3>2 DEF Forward, ForwardsAtOnce
    <2>4. ASSUME NEW q \in Pairs, NEW t \in timers[q], ForwardPending(q, t)
          PROVE  \E i \in Intervals \ {0} : now >= forwardedAt[pair] + i
        <3>1. q = pair
            BY <2>4 DEF ForwardPending, Collect
        <3>2. cache[pair].pending /\ cache[pair].timer <= now
            BY <2>4, <3>1 DEF ForwardPending, Due, CurrentTimer
        <3>3. QED
            BY <2>1, <3>2 DEF EntryOK
    <2>5. CASE ProcessElement
        <3>1. ASSUME NEW q \in Pairs, NEW p \in Observation
              PROVE  /\ ~PassThrough(q, p)
                     /\ ~IgnoreOutOfOrder(q, p)
                     /\ ~Withhold(q, p)
            BY <2>2 DEF PassThrough, IgnoreOutOfOrder, Withhold, CollectNothing
        <3>2. QED
            BY <2>1, <2>3, <2>5, <3>1 DEF ProcessElement
    <2>6. CASE \E q \in Pairs : OnTimer(q)
        BY <2>2, <2>4, <2>6 DEF OnTimer, CleanUp, CollectNothing
    <2>7. CASE Tick \/ Redeploy
        BY <2>2, <2>7 DEF Tick, Redeploy
    <2>8. QED
        BY <2>5, <2>6, <2>7 DEF Next, Quiescent
<1>2. QED
    BY <1>1, CoalescerInvariance, PTL DEF Spec, RateLimit
=============================================================================
