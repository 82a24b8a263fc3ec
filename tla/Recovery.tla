------------------------------ MODULE Recovery ------------------------------
(***************************************************************************)
(* The job of ServiceGraphJob under Flink's checkpoints, for one element:  *)
(* a source that reads the log of observations, the element's lifecycle,   *)
(* the at-least-once sink and the compacted topic.  The coalescer is       *)
(* configured as a pass-through.                                           *)
(*                                                                         *)
(* A checkpoint holds the state of the operator, its registered timers and *)
(* the source's offset; it completes when the sink has flushed what        *)
(* preceded it.  Records that are processed between the barrier and the    *)
(* completion commute with that flush, so a checkpoint is one step that    *)
(* finds nothing unsent.  A failure puts the operator and the source back  *)
(* to the last checkpoint and the watermark to its beginning; the topic    *)
(* keeps what has reached it.  Time that passes while the job is down, and *)
(* what the log receives meanwhile, may as well pass after the restart.    *)
(***************************************************************************)
EXTENDS Integers, Sequences

CONSTANTS
    Contributors, Attributes, Values, Null, Ttl, Elements,
    MaxEventTime,       \* bound on timestamps
    MaxProcessingTime,  \* bound on the processing clock
    QuietAfter,         \* nothing is observed and nothing fails after this time
    MaxLog,             \* bound on the log
    MaxSending,         \* bound on the events the producer buffers
    MaxFailures         \* failures that the restart strategy survives

ASSUME RecoveryAssumption ==
    /\ QuietAfter \in Nat
    /\ QuietAfter + Ttl <= MaxProcessingTime
    /\ MaxLog \in Nat
    /\ MaxSending \in Nat \ {0}
    /\ MaxFailures \in Nat

VARIABLES
    \* ElementLifecycle; `emitted' is the last event it has collected:
    contributors, aggregate, winners, eventTimer, processingTimer,
    eventTimers, processingTimers, watermark, now, emitted, output,
    \* around it:
    log,         \* the observations in the metrics topic
    offset,      \* how much of it the source has read
    sending,     \* events the producer has not yet written
    topic,       \* the last event of this key in the graph topic, or Null
    checkpoint,  \* the last completed checkpoint
    failures,
    \* history:
    reached,     \* how far any attempt has read
    passed,      \* the highest watermark of any attempt
    expired,     \* a contributor has expired since the checkpoint
    raced        \* such an expiry was undone, or came amid a replay

state == <<contributors, aggregate, winners>>

timers == <<eventTimer, processingTimer, eventTimers, processingTimers>>

operator == <<state, timers, watermark, emitted, output>>

vars == <<operator, now, log, offset, sending, topic, checkpoint, failures,
          reached, passed, expired, raced>>

Lifecycle == INSTANCE ElementLifecycle
    WITH TicksPerSecond <- 1, LegacyStates <- {}, published <- emitted,
         QuietAfter <- MaxProcessingTime

(* What the lifecycle assumes of its constants. *)
ASSUME LifecycleAssumption ==
    /\ Lifecycle!ContributorsAssumption
    /\ Lifecycle!TimeAssumption
    /\ Lifecycle!NullAssumption
    /\ Lifecycle!InputAssumption
    /\ Lifecycle!ClockAssumption
    /\ Lifecycle!NullEventAssumption

-----------------------------------------------------------------------------
(* What the lifecycle collects goes to the producer. *)
Send ==
    IF output' = Null
        THEN UNCHANGED sending
        ELSE Len(sending) < MaxSending /\ sending' = Append(sending, output')

Greater(m, n) == IF m > n THEN m ELSE n

(* Telemetry is exported. *)
Observe(observation) ==
    /\ now <= QuietAfter
    /\ Len(log) < MaxLog
    /\ log' = Append(log, observation)
    /\ UNCHANGED <<operator, now, offset, sending, topic, checkpoint, failures,
                   reached, passed, expired, raced>>

(* The source reads the next record and the lifecycle processes it. *)
Read ==
    /\ offset < Len(log)
    /\ Lifecycle!ProcessElement(log[offset + 1])
    /\ offset' = offset + 1
    /\ reached' = Greater(reached, offset')
    /\ Send
    /\ UNCHANGED <<now, log, topic, checkpoint, failures,
                   passed, expired, raced>>

(* A timer of the lifecycle fires. *)
Timer ==
    /\ Lifecycle!OnTimer \/ Lifecycle!OnFallbackTimer
    /\ Send
    /\ expired' = (expired \/ contributors' # contributors)
    /\ raced' = (raced \/ (contributors' # contributors /\ offset < reached))
    /\ UNCHANGED <<now, log, offset, topic, checkpoint, failures, reached,
                   passed>>

(* Other elements move the watermark. *)
Watermark ==
    /\ Lifecycle!AdvanceWatermark
    /\ passed' = Greater(passed, watermark')
    /\ UNCHANGED <<log, offset, sending, topic, checkpoint, failures,
                   reached, expired, raced>>

(* After the last telemetry the job has read all of it before time goes on. *)
Tick ==
    /\ now < QuietAfter \/ offset = Len(log)
    /\ Lifecycle!Tick
    /\ UNCHANGED <<log, offset, sending, topic, checkpoint, failures,
                   reached, passed, expired, raced>>

(* The broker has written the producer's next event. *)
Deliver ==
    /\ sending # <<>>
    /\ topic' = Head(sending)
    /\ sending' = Tail(sending)
    /\ UNCHANGED <<operator, now, log, offset, checkpoint, failures,
                   reached, passed, expired, raced>>

(* Mutant: the sink does not flush, as with DeliveryGuarantee.NONE. *)
MayCompleteUnflushed == TRUE

(* DeliveryGuarantee.AT_LEAST_ONCE *)
MayComplete == sending = <<>>

Snapshot ==
    [contributors |-> contributors, aggregate |-> aggregate,
     winners |-> winners,
     eventTimer |-> eventTimer, processingTimer |-> processingTimer,
     eventTimers |-> eventTimers, processingTimers |-> processingTimers,
     emitted |-> emitted, offset |-> offset]

Checkpoint ==
    /\ MayComplete
    /\ checkpoint # Snapshot
    /\ checkpoint' = Snapshot
    /\ expired' = FALSE
    /\ UNCHANGED <<operator, now, log, offset, sending, topic, failures,
                   reached, passed, raced>>

(* Mutant: the source goes on where the failed attempt has been. *)
ResumeWhereRead == offset

(* The source starts from the checkpoint, not from what it has read. *)
ResumeAt == checkpoint.offset

(* The job fails and restarts from its last checkpoint. *)
FailAndRestore ==
    /\ failures < MaxFailures
    /\ now <= QuietAfter
    /\ failures' = failures + 1
    /\ contributors' = checkpoint.contributors
    /\ aggregate' = checkpoint.aggregate
    /\ winners' = checkpoint.winners
    /\ eventTimer' = checkpoint.eventTimer
    /\ processingTimer' = checkpoint.processingTimer
    /\ eventTimers' = checkpoint.eventTimers
    /\ processingTimers' = checkpoint.processingTimers
    /\ emitted' = checkpoint.emitted
    /\ offset' = ResumeAt
    /\ watermark' = 0
    /\ output' = Null
    /\ sending' = <<>>
    /\ raced' = (raced \/ expired)
    /\ UNCHANGED <<now, log, topic, checkpoint, reached, passed, expired>>

(* The clocks are at their bounds and nothing is left to do. *)
Quiescent ==
    /\ Lifecycle!Quiescent
    /\ offset = Len(log)
    /\ sending = <<>>
    /\ UNCHANGED vars

-----------------------------------------------------------------------------

Init ==
    /\ Lifecycle!Init
    /\ log = <<>>
    /\ offset = 0
    /\ sending = <<>>
    /\ topic = Null
    /\ checkpoint = Snapshot
    /\ failures = 0
    /\ reached = 0
    /\ passed = 0
    /\ expired = FALSE
    /\ raced = FALSE

Next == \/ \E observation \in Lifecycle!Observations : Observe(observation)
        \/ Read
        \/ Timer
        \/ Watermark
        \/ Tick
        \/ Deliver
        \/ Checkpoint
        \/ FailAndRestore
        \/ Quiescent

(***************************************************************************)
(* The clock moves, Flink fires the timers that are due and reads what is  *)
(* there, and the producer sends.  Nothing is assumed of the watermark, of *)
(* checkpoints or of failures.                                             *)
(***************************************************************************)
Fairness ==
    /\ WF_vars(Tick)
    /\ WF_vars(Timer)
    /\ WF_vars(Read)
    /\ WF_vars(Deliver)

Spec == Init /\ [][Next]_vars /\ Fairness

-----------------------------------------------------------------------------
(* Properties *)

(* What the topic says of the element is what its contributors say. *)
TopicIsMerge ==
    IF Lifecycle!Present(contributors) = {}
        THEN topic \in {Null, Lifecycle!Delete}
        ELSE topic = Lifecycle!Upsert(Lifecycle!Merge(contributors))

(* A failure's replay is over, and what it collected has been sent. *)
CaughtUp == offset >= reached /\ sending = <<>>

(***************************************************************************)
(* A failure is repaired unless an expiry took part: the replay of a       *)
(* deterministic operator repeats the events that the topic already has,   *)
(* suppressed by the restored hash only where they are in the topic, and   *)
(* ends with the one the topic is to have.                                 *)
(***************************************************************************)
ReplayRepairs == CaughtUp /\ ~raced => TopicIsMerge

(***************************************************************************)
(* The documentation of the topic: from complete replacements and          *)
(* deletions it reconstructs the latest graph.  Expiries count: the replay *)
(* is also over for them when the watermark is back and no timer is due.   *)
(***************************************************************************)
TopicReconstructs ==
    ( /\ CaughtUp
      /\ watermark >= passed
      /\ ~Lifecycle!EventTimerDue
      /\ ~Lifecycle!ProcessingTimerDue )
    => TopicIsMerge

(***************************************************************************)
(* No failure leaves a ghost: when all is silent the topic ends with a     *)
(* delete (or with nothing), whatever was sent before a failure, and       *)
(* however the restored timers and the replay interleave.                  *)
(***************************************************************************)
NoGhost == <>[](topic \in {Null, Lifecycle!Delete})
=============================================================================
