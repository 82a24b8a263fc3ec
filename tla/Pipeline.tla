------------------------------ MODULE Pipeline ------------------------------
(***************************************************************************)
(* The operators of ServiceGraphJob in sequence, for one element and one   *)
(* subtask each: the coalescer of the element's contributors, the          *)
(* watermark generator behind it, a channel that keeps their order, and    *)
(* the element's lifecycle.                                                *)
(*                                                                         *)
(* Other elements appear only where they touch this one: what they forward *)
(* moves the watermark.  The telemetry that arrives at clock time `now' is *)
(* between Epoch + now - MaxDelay and Epoch + now: a small MaxDelay is a   *)
(* live stream, a large one a backlog that is being caught up.  Before the *)
(* clock moves on the coalescer's due timers have fired and the channel is *)
(* drained.                                                                *)
(***************************************************************************)
EXTENDS Integers, Sequences

CONSTANTS
    Contributors, Attributes, Values, Null, Ttl, Elements,
    Intervals,          \* the configurable coalescing intervals
    Lateness,           \* allowedLatenessSeconds
    Epoch,              \* telemetry time when the clock is at 0
    MaxDelay,           \* largest age of a datapoint that reaches the job
    MaxReceived,        \* bound on the contributions received
    MaxInFlight,        \* bound on the channel
    MaxEventTime,       \* bound on timestamps
    MaxProcessingTime,  \* bound on the processing clock
    QuietAfter          \* nothing is received after this time

ASSUME PipelineAssumption ==
    /\ Lateness \in Nat
    /\ Epoch \in Nat
    /\ MaxDelay \in Nat
    /\ MaxReceived \in Nat
    /\ MaxInFlight \in Nat \ {0}
    /\ Epoch + QuietAfter <= MaxEventTime

VARIABLES
    \* ContributionCoalescer:
    interval, cache, refreshTimers, coalesced, forwarded, forwardedAt, heardAt,
    \* ElementLifecycle:
    contributors, aggregate, winners, eventTimer, processingTimer,
    eventTimers, processingTimers, watermark, published, output,
    \* the clock of both:
    now,
    \* between them:
    newest,   \* BoundedOutOfOrdernessWatermarks.maxTimestamp, or 0
    emitted,  \* the last watermark emitted
    channel,  \* observations and watermarks on their way
    received  \* contributions received so far

coalescerVars ==
    <<interval, cache, refreshTimers, coalesced, forwarded, forwardedAt, heardAt>>

lifecycleVars ==
    <<contributors, aggregate, winners, eventTimer, processingTimer,
      eventTimers, processingTimers, watermark, published, output>>

linkVars == <<newest, emitted, channel>>

vars == <<coalescerVars, lifecycleVars, now, linkVars, received>>

Coalescer == INSTANCE ContributionCoalescer
    WITH Pairs <- Contributors, Upgrades <- {}, Punctual <- TRUE,
         timers <- refreshTimers, output <- coalesced

Lifecycle == INSTANCE ElementLifecycle
    WITH TicksPerSecond <- 1, LegacyStates <- {}, QuietAfter <- MaxProcessingTime

(* What the operators assume of their constants. *)
ASSUME CoalescerAssumption ==
    /\ Coalescer!IntervalAssumption
    /\ Coalescer!BoundAssumption
    /\ Coalescer!NullAssumption

ASSUME LifecycleAssumption ==
    /\ Lifecycle!ContributorsAssumption
    /\ Lifecycle!TimeAssumption
    /\ Lifecycle!NullAssumption
    /\ Lifecycle!InputAssumption
    /\ Lifecycle!ClockAssumption
    /\ Lifecycle!NullEventAssumption

-----------------------------------------------------------------------------
(* The timestamp of telemetry that may arrive now. *)
Arriving(timestamp) ==
    /\ now <= QuietAfter
    /\ Epoch + now - MaxDelay <= timestamp
    /\ timestamp <= Epoch + now

Later(s, t) == IF s > t THEN s ELSE t

(* What the coalescer collects is timestamped and put on the channel. *)
Transmit ==
    IF coalesced' = Null
        THEN UNCHANGED linkVars
        ELSE LET c == coalesced'[1]
                 o == coalesced'[2]
             IN  /\ Len(channel) < MaxInFlight
                 /\ newest' = Later(newest, o.observedAt)
                 /\ channel' = Append(channel,
                        [contributorId |-> c, observedAt |-> o.observedAt,
                         element |-> o.element])
                 /\ UNCHANGED emitted

Receive(c, observation) ==
    /\ received < MaxReceived
    /\ received' = received + 1
    /\ Arriving(observation.observedAt)
    /\ \/ Coalescer!PassThrough(c, observation)
       \/ Coalescer!IgnoreOutOfOrder(c, observation)
       \/ Coalescer!Forward(c, observation)
       \/ Coalescer!Withhold(c, observation)
    /\ Transmit
    /\ UNCHANGED lifecycleVars

CoalescerTimer(c) ==
    /\ Coalescer!OnTimer(c)
    /\ Transmit
    /\ UNCHANGED <<lifecycleVars, received>>

(* The coalescer of another element forwards something. *)
ForwardOther ==
    /\ \E timestamp \in 1 .. MaxEventTime :
        /\ Arriving(timestamp)
        /\ timestamp > newest
        /\ newest' = timestamp
    /\ UNCHANGED <<coalescerVars, lifecycleVars, now, emitted, channel, received>>

(* Mutant: the watermark claims that nothing older can follow. *)
HastyWatermark == newest

(* onPeriodicEmit: behind the newest timestamp by the allowed lateness. *)
BoundedWatermark == newest - Lateness - 1

EmitWatermark ==
    /\ BoundedWatermark > emitted
    /\ Len(channel) < MaxInFlight
    /\ emitted' = BoundedWatermark
    /\ channel' = Append(channel, [watermark |-> emitted'])
    /\ UNCHANGED <<coalescerVars, lifecycleVars, now, newest, received>>

(* The lifecycle takes the next record or watermark. *)
Deliver ==
    /\ channel # <<>>
    /\ IF "watermark" \in DOMAIN Head(channel)
        THEN Lifecycle!AdvanceWatermark /\ watermark' = Head(channel).watermark
        ELSE Lifecycle!ProcessElement(Head(channel)) /\ UNCHANGED now
    /\ channel' = Tail(channel)
    /\ UNCHANGED <<coalescerVars, newest, emitted, received>>

LifecycleTimer ==
    /\ Lifecycle!OnTimer \/ Lifecycle!OnFallbackTimer
    /\ UNCHANGED <<coalescerVars, linkVars, received>>

Tick ==
    /\ channel = <<>>
    /\ Coalescer!Tick
    /\ Lifecycle!Tick
    /\ UNCHANGED <<linkVars, received>>

(* The clock is at its bound and neither operator has anything left. *)
Quiescent ==
    /\ Coalescer!Quiescent
    /\ channel = <<>>
    /\ Lifecycle!Present(contributors) = {}
    /\ UNCHANGED vars

-----------------------------------------------------------------------------

Init ==
    /\ Coalescer!Init
    /\ Lifecycle!Init
    /\ newest = 0
    /\ emitted = 0
    /\ channel = <<>>
    /\ received = 0

Next == \/ \E c \in Contributors : \E o \in Coalescer!Observation : Receive(c, o)
        \/ \E c \in Contributors : CoalescerTimer(c)
        \/ ForwardOther
        \/ EmitWatermark
        \/ Deliver
        \/ LifecycleTimer
        \/ Tick
        \/ Quiescent

(***************************************************************************)
(* The clock moves, due timers fire and the channel is drained.  A source  *)
(* that goes idle emits no watermark, so that is not assumed.              *)
(***************************************************************************)
Fairness ==
    /\ WF_vars(Tick)
    /\ WF_vars(\E c \in Contributors : CoalescerTimer(c))
    /\ WF_vars(Deliver)
    /\ WF_vars(LifecycleTimer)

Spec == Init /\ [][Next]_vars /\ Fairness

-----------------------------------------------------------------------------
(* Properties *)

TypeOK ==
    /\ Coalescer!TypeOK
    /\ Lifecycle!TypeOK
    /\ newest \in 0 .. MaxEventTime
    /\ emitted \in 0 .. MaxEventTime
    /\ Len(channel) <= MaxInFlight
    /\ received \in 0 .. MaxReceived

(* An observation of c is on its way to the lifecycle. *)
InFlight(c) ==
    \E i \in DOMAIN channel :
        "contributorId" \in DOMAIN channel[i] /\ channel[i].contributorId = c

(***************************************************************************)
(* Coalescing does not decide expiry: with nothing of it on its way, a     *)
(* contributor leaves the element only if what the job has heard of it,    *)
(* forwarded or withheld, has expired on one of the clocks.  This relates  *)
(* the coalescer's processing timers, the lateness of the watermark and    *)
(* the lifecycle's deadlines.                                              *)
(***************************************************************************)
ExpiresOnlyTheSilent ==
    [][\A c \in Contributors :
        ( /\ contributors[c] # Null
          /\ contributors'[c] = Null
          /\ cache[c] # Null
          /\ ~InFlight(c) )
        => \/ cache[c].latest.observedAt + Ttl <= watermark
           \/ heardAt[c] + Ttl <= now]_vars

(***************************************************************************)
(* Only a repetition is withheld: while the newest observation of a        *)
(* contributor waits in the coalescer, and nothing is on its way, the      *)
(* lifecycle holds the same element.                                       *)
(***************************************************************************)
OnlyRepetitionsWait ==
    \A c \in Contributors :
        ( /\ channel = <<>>
          /\ cache[c] # Null
          /\ cache[c].pending )
        => /\ contributors[c] # Null
           /\ contributors[c].element = cache[c].latest.element
           /\ contributors[c].observedAt <= cache[c].latest.observedAt

(***************************************************************************)
(* A contributor that has fallen silent is gone from both operators in the *)
(* end, and the element is deleted, without another watermark.             *)
(***************************************************************************)
EventuallyRetracted ==
    <>[](/\ published \in {Null, Lifecycle!Delete}
         /\ \A c \in Contributors : cache[c] = Null)
=============================================================================
