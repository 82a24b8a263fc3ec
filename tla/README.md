# Verification of semconv-graph

A TLA+ development of this repository: the Flink job that turns service-graph
metrics into graph-element events (`services/otel-servicegraph-diff`), with its
checkpoints and the hooks that upgrade it; the indexer that projects those events into
ArangoDB and the initializer that prepares it (`services/servicegraph-indexer`); the
code generator whose files keep all of them on one registry
(`tools/semconv_codegen`); and the local environment's commands (`tools/local_demo`).
TLC checks the modules on small instances; TLAPS proves the safety
properties for every value of the constants (section 5 says from which assumptions).
Paths below are relative to the repository; `J/` stands for
`services/otel-servicegraph-diff/runtime/java/src/main/java/io/extendedotel/flink/`
`I/` for `services/servicegraph-indexer/src/servicegraph_indexer/` and `G/` for
`tools/semconv_codegen/`.

## 1. The system

```
Collector --OTLP--> Kafka --> MetricParser --> coalescer --> watermarks --> lifecycle --> Kafka --> indexer --> ArangoDB
                              (stateless)      (per element,  (per subtask)  (per element)  compacted  (consumer     + Gremlin
                                                contributor)                                topic       group)
```

| Component | Source | State | Operations |
|---|---|---|---|
| metric parser, semantic registry | `J/ingest`, `J/semantic` | none (immutable registry; counters for the log) | parse an OTLP request, extract valid entities, derive ids, emit contributions, count rejections |
| stream job | `J/ServiceGraphJob.java`, `J/transport` | source offsets, watermark, checkpoint | out-of-orderness watermarks, idleness, checkpoints, at-least-once sink |
| contribution coalescer | `J/coalesce` | per (element, contributor): latest, lastForwarded, lastSeen, pending, timer; a registered processing timer | `processElement`, `onTimer`, `open` after a redeployment |
| element lifecycle | `J/lifecycle` | per element: contributors, aggregate hash, attribute index, two stored timers; registered event and processing timers | `processElement`, `onTimer` in two time domains |
| serialization | `J/serialization`, `J/model` | none | CBOR state frames, JSON events with sorted keys |
| engine configuration | `J/config` | none | parse and validate the environment |
| deployment commands | `J/operations`, the hooks of `deploy/helm/servicegraph-flink` | marker and savepoint paths on a volume, the state of the job | inspect, savepoint, submit, record |
| indexer | `I/indexer.py` | consumer position and committed offset, documents | poll, convert, replace, delete, commit |
| topology initializer | `I/initialize.py`, `I/schema.py` | collections, graph, indexes | check-then-create everything, verify what exists |
| code generator | `G/` | the files of the working tree | validate a registry, render a dozen files, write them, check them |
| client SDK | `packages/extended-opentelemetry-semconv` | none | validate a traversal, submit it, read documents back into entities and edges |
| local environment | `tools/local_demo` | images, containers, cluster, two files, port-forwards | up, status, query, down; what tests and benchmarks do with it |
| demo traffic, benchmarks, charts | `services/servicegraph-demo`, `benchmarks`, `deploy` | - | demonstration, measurement and packaging |

How they interact: a contribution (element, contributor, observation time) is
keyed by element and contributor for the coalescer and by element for the
lifecycle. The two operators share no state, but the coalescer's delay is only
sound against the deadlines that the lifecycle derives from what is forwarded.
The lifecycle's events reach the indexer through a compacted topic keyed by the
element id; the indexer keeps nothing but its committed offset, so what it may
lose or repeat is decided by the order of its writes and its commit. What types and
attributes exist is compiled into each of them by the generator, so that what one may
send to the next is decided by the releases they were built from. Upgrades of the job
hand its state over through files that name savepoints.

What is hard here, and what makes each part correct:

- **Extraction.** Every entity type of a registry is tried on every observation,
  each may fail on its own, and both sides of a call may describe the same node.
  Correct: an edge comes with both endpoints, a contributor never contradicts
  itself (the lifecycle replaces its last word, the coalescer takes equal words for
  repetitions), a malformed entity does not hide its peers, and the direction of a
  call does not decide what a node looks like.
- **Lifecycle.** State is kept three times over (contributors, a hash, an
  incrementally updated index of which contributor owns which attribute), timers
  are stored and registered, rounded to seconds, moved only earlier on refreshes,
  and live in two time domains that advance independently of each other.
  Correct: the index equals a rebuild, the last event in the topic is the merge
  of the contributors, no callback can throw, no wake-up is lost, nobody is
  overdue, a silent element is retracted even if the watermark stops.
- **Coalescer.** A repetition exists only in its cache, and a timer is all that
  brings it back. Correct: nothing is withheld for good or too long for the
  lifecycle's fallback, unchanged evidence is rate limited, silent pairs are
  forgotten and others are not.
- **Indexer.** Crashes between any two writes, replays, rebalances, compaction
  under a reader. Correct: committed means applied; a bad record stops the
  indexer instead of vanishing; the database converges to the topic.
- **Stream job.** Watermarks race processing-time timers. Correct: coalescing
  decides neither what expires nor what a change is. The sink keeps what was written
  after the checkpoint the operators restart from.
- **Initializer.** Check-then-create races between the initializer Job and every
  indexer that starts. Correct: who returns has found the whole topology, a complete
  one is left alone, and losing a race only costs a retry.
- **Recovery.** The operators go back to a checkpoint, the topic does not. Correct:
  the replay leaves the topic with the right last word, and nothing stays for good.
- **Deployment.** A hook may be killed between any two steps and Flink goes on with
  what it was told. Correct: no state is passed over, nor rolled back further than a
  killed hook's savepoint, success is reported only of what was deployed, and repeating
  a failed upgrade gets through.
- **Registry and releases.** A dozen files must come from one registry, and components
  of different releases work together during an upgrade. Correct: what CI lets pass
  agrees with itself, the indexer can convert whatever the job emits, a client can
  read whatever is stored.
- **Local environment.** Some forty steps wait for other programs, any may fail with or
  without its effect, and Ctrl-C may strike anywhere, also in the clauses that tidy up.
  Correct: every command ends, closes its forwards, claims only what is complete, and
  cleans up whatever an earlier command has left.

`PROJECT.json` lists every component with its status and every hazard at the line
where it bites.

## 2. Modules

| Module | Models | Reads as |
|---|---|---|
| `GraphLifecycle` | `GraphLifecycle.java`, `AttributeWinners.java`, `LifecyclePolicy.snapshot` | constant operators: merge, winners, expiry, deadlines, timer rounding |
| `ElementLifecycle` | `ElementLifecycleFunction.java` | the keyed operator for one element, one action per callback outcome |
| `ElementContract` | - | abstract specification of what the lifecycle promises, without index, hash and timers |
| `ContributionCoalescer` | `ContributionCoalescer.java` | the keyed operator for any set of pairs, with redeployments |
| `Pipeline` | `ServiceGraphJob.configure` | composition: the coalescer, the watermark generator, a channel and the lifecycle, the first and last by `INSTANCE` |
| `Extraction` | `MetricParser.java`, `SemanticRegistry.java` | operators from a data point to contributions, and `flatMap` over requests |
| `Indexer` | `indexer.py` | replicas of one consumer group on one partition, the topic and the database |
| `Topology` | `initialize.py` | processes that check and create, request by request, against one database |
| `Recovery` | `ServiceGraphJob.java`: checkpoints, restart strategy, source, sink | composition: a log, the lifecycle by `INSTANCE`, the producer's buffer, the topic and the last checkpoint |
| `Deployment` | `DeploymentCommands.java`, the two hooks of the chart | Helm's operation as a sequence of steps over the job and the files on the claim |
| `SemanticCodegen` | `G/generator.py`, `registry/*.py`, `semantic_schema.py`, `dimensions.py`, `java_registry.py` | operators: which registries are refused, and what each file says of the others |
| `RegistryRelease` | `write_files`, `check_files`, and how job, indexer and client use the files | a working tree, releases, and an upgrade of four components at work |
| `LocalDemo` | `environment.py`, `cli.py` | commands as lists of steps over what exists |
| `ElementLifecycleProofs`, `ContributionCoalescerProofs`, `PipelineProofs`, `RecoveryProofs`, `ExtractionProofs`, `IndexerProofs`, `RegistryReleaseProofs`, `InstallationProofs` | - | the theorems; the last one those of `Deployment`, `Topology` and `LocalDemo`, which share no name |
| `MC...` | - | an instance for TLC of each module that has runs |

### From code to model

**Lifecycle.** One element key. Java maps are total functions with `Null` for an
absent key; an element is its attribute map, since kind, type and endpoints are
part of its id. `payloadHash` is an injective function of the element. Contributor
ids are naturals, ordered as `String.compareTo` orders the ids. `ProcessElement`
has the three outcomes of `observe`/`processElement`: an older observation is
ignored; otherwise the index is updated from point reads (`ObserveIncrementally`),
or everything is rebuilt when the contributor dropped an attribute that it owns
(`ObserveWithRebuild`). `OnEventTimer` and `OnProcessingTimer` are `onTimer`: load
the state, drop the expired, reschedule, persist, emit. Every exception the code
can raise appears in `ObserveThrows` or `LoadStateThrows`; a throwing callback has
no step, and `NeverThrows` says none occurs. `Init` is a new key, or one restored
from a savepoint that has contributors and no index. The clock unit is a fraction
of a second (`TicksPerSecond`), so that the rounding of timers matters.

**Coalescer.** The five value states of a pair are written and cleared together
and are one record. `processElement` is `PassThrough`, `IgnoreOutOfOrder`,
`Forward` or `Withhold`; `onTimer` is `ForwardPending` or `CleanUp`. `Redeploy`
restarts the job with another interval: state and timers come back, `open` does
not look at them. `forwarded`, `forwardedAt` and `heardAt` are history variables
for the properties; no guard reads them.

**Pipeline.** `Receive` is the coalescer's `processElement`, `CoalescerTimer` its
`onTimer`; what either collects goes through `BoundedOutOfOrdernessWatermarks`
(`newest`) onto a channel (`Transmit`), from which `Deliver` hands records and
watermarks to the lifecycle. Other elements matter only because they move the
watermark (`ForwardOther`). `MaxDelay` bounds the age of telemetry that reaches the
job: small for a live stream, larger than the TTL for a backlog. Both operators share
the clock and run on it as they do in their own modules. A source that goes idle is
one that emits no watermark for as long as it likes.

**Extraction.** An attribute key is a prefix and a name, a value has a sort (string,
boolean, integer, double, non-finite) and a number that tells it from others of its
sort. `Validate`, `Extractable` and `ExtractValid` are `validate`, `extract` and
`extractValid`; an exception is `Null` or the absence of the entity. `AddAll` is `add`
for a set: Java adds in the order of ids to a sorted map, and ids of one set are
distinct. Its "conflicting graph identity" exception is missing because ids contain
what it compares (`IdDetermines`). `evidence` collects each data point with its
result, so that invariants relate any two of them; counters and log leave no trace.

**Topology.** `Schema` is the sequence of resources of the schema in the order of the
code. `Inspect` is the look at one of them, `Create` its creation if it was missing:
another process may act in between, and then the creation fails. `InspectGraph` keeps
the definitions it has read in `existing`, and `EnsureDefinition` compares with those.
`Init` is any coherent database, with parts missing or of another type. `Restart` is
Kubernetes: an indexer is restarted always, the pod of the Job `BackoffLimit` times.
The indexers call the same `initialize`, which is why they are among the
`Initializers`. Whether the database answers within its deadline is a `Crash`.

**Indexer.** An element's events share a partition, so one partition is enough.
The document of an event is a function of the event; the database is therefore
the offset last written per element. `Poll` decodes a batch, keeps the newest
record per element and converts; a rejected record ends the process before the
first write. `Replace` and `Remove` apply one document at a time, replacements
before deletes. `Commit` follows the last write. `Crash`, `Rebalance`, `Publish`
and `Compact` are the environment. Start-up (`initialize`) has no effect on this
state.

**Recovery.** One element; the coalescer is a pass-through. `Read` and `Timer` are the
lifecycle's callbacks, whose output goes to `sending`, the producer's buffer, and from
there to `topic` (`Deliver`). `Checkpoint` is one step although barriers take time: the
sink flushes before a checkpoint completes (`MayComplete`), and what is processed
meanwhile commutes with the flush. `FailAndRestore` puts state, timers and source back
and the watermark to its beginning. `reached`, `passed`, `expired` and `raced` are
history variables. One partition and one producer session: a producer that survives
its job and writes after the next one has begun is not modelled.

**Deployment.** Savepoints are numbered in the order they are taken. `step` is where
Helm's operation stands; `Roll` is the upgrade of the resources between the hooks,
which replaces the JobManager and with it the memory of an ended job. The savepoint
hook has one pod (`backoffLimit: 0`), the submitter three. `StopJob` only asks Flink to
stop: `StopCompletes` and `StopFails` are Flink's, and reach the hook only if it still
waits (`printed`). The exit codes 42, 43 and 44 of the commands are `SkipSubmission`
and `RefuseSubmission`. Releases are not uninstalled, and one claim belongs to one job.
`RecordHandoff` and `RecordLatest` are the two files the hook writes, and `Kill` may
strike between them. `abandoned` is a history variable: the savepoints whose hook was
killed before it had written both, or was gone before Flink had finished.

**Registry and releases.** A registry is three sets of definitions; a file is the value
its text renders, and the working tree keeps for each path the extension it was rendered
from. `Generates` is the conjunction of everything that raises: validation, unknown
types, class names and collection names that coincide. `CheckFiles` is
`--check`, `Commit` the CI step that runs it. `Upgrade` replaces one component; the
indexer's installs the topology first. `Elements` is the parser over the release's own
Java registry and the dimensions of the Collector's release, `Document` and
`Convertible` are `event_to_document`, `Readable` the client's reconstruction. What is
assumed of registries has a name: `UpstreamAssumption`, `AliasAssumption` (no property
called `source_id` or `target_id`, which the generator does not reserve) and
`ClassAssumption` (entities of one class name are one entity, which it does not check).
`UpstreamAssumption` is about the pinned model (`G/upstream`), which nothing validates:
unique names, no relationships, every reference defined, scalar identities.

**Local environment.** Each external command, request or wait is a step of a section
(`check`, `try`, `diagnose`, `cleanup`, `forget`, `finally`); `AfterFailure` says what a
failure skips, as `try`, `except` and `finally` do. `Make` and `Fail` include effects
whose command reports an error all the same; removals do not check exit codes
(`EraseFails`). A `finally` that raises or is interrupted skips its own rest: `CloseFails`
is the second `wait(timeout=5)` of `PortForward.close`, `Interrupt` keeps the closing
section (`Closing`) only when it strikes before it, and a session's diagnostics stand
before its cleanup as in `tests/e2e/conftest.py`. `disturbed` remembers that one of
these, or Ctrl-C at the start of a forward, has happened. `Ask` is a read of the semantic
client, which alone has no deadline; that it ends (`Answer`, `AnswerFails`) is possible
and not assumed. `Inside` is what goes with a container or a cluster, `Needs` what has to
be there for a pod to become ready. Environments are told apart by their suffix, so one
is enough; `ingest` is the variant with Collector and Flink that the sessions use.

## 3. Runs

| Run | Instance | Question |
|---|---|---|
| `lifecycle` | 2 contributors, 2 attributes, 3 attribute maps, TTL of one second in half-second ticks, 4 ticks of each clock, legacy savepoint | index, publication, exceptions, timers, overdue contributors; the contract; eventual retraction |
| `coalescer` | 1 pair, 2 elements, TTL 4, intervals 0, 2, 3, redeployments that keep coalescing on, 9 ticks | nothing lost, in time, rate limit, cleanup |
| `coalescer_turned_off` | the same, redeployment to interval 0 | violation: timers without state |
| `pipeline` | 1 contributor, 2 elements, TTL 3, intervals 0 and 1, delay up to 1, lateness 0, 3 contributions, 2 in flight | a live stream: coalescing decides neither expiry nor changes; silence retracts |
| `extraction` | every two of 162 requests over 4 entity types and 5 relationships | endpoints, contributor identity, peers, symmetry |
| `indexer` | 2 replicas, 2 elements, 3 records, polls of 2, a crash, a rebalance | committed means applied; malformed stops; convergence |
| `topology` | the Job and an indexer, one resource of each kind, 2 edge definitions, every initial database, a crash, 2 retries | ready means complete; a complete topology is left alone; the indexer gets ready |
| `recovery` | 2 contributors, 2 values, a log of 2, a buffer of 2, 1 failure, TTL 1, 2 ticks | a failure is repaired by its replay if no expiry takes part; nothing stays for good |
| `recovery_raced` | the same with 1 contributor and 1 value | violation: a delete survives the failure that undid it |
| `deployment` | 3 submitter pods, 7 revisions of which 3 are wanted, 4 faults | which savepoint a job is started from; what success means; repeated upgrades settle |
| `registry_release` | 9 extensions, 2 changes, an interruption or a bad merge, 2 data points of which one is sent | files agree; events can be indexed, documents read; the graph catches up |
| `local_demo` | one user, both variants, 2 test operations, 5 kinds of fault | cleanup, forwards, claims, termination |

Seven configurations are kept beside the runs, and TLC finds the property of each
violated; section 4 says what that shows. Four drop a hypothesis:
`MCCoalescerLateTimer.cfg` (`RateLimit`), `MCPipelineLongInterval.cfg` and
`MCPipelineBacklog.cfg` (`ExpiresOnlyTheSilent`), `MCIndexerSlowPoll.cfg`
(`CommittedIsApplied`). Three check what the documents lead one to expect and the code
does not do: `MCRegistryReleaseInstalls.cfg` (`ReleaseInstalls`),
`MCDeploymentHalfRecorded.cfg` (`RestoresRecordedStop`) and `MCLocalDemoSession.cfg`
(`SessionsCleanUp`).

**Why the bounds are enough.** The lifecycle compares observation times of
contributors pairwise and attributes independently of each other: two
contributors (a tie, an owner and a challenger) and two attributes (one shared,
one that can be dropped) reach every branch, and the theorems remove the bound.
Four ticks are two TTLs, so an element is created, refreshed, expired in part and
in full, and created again. Pairs of the coalescer share only the clock. TTL 4
with intervals 2 and 3 puts a refresh before, and a cleanup after, a deadline; nine
ticks allow several refreshes and a cleanup. Three records and polls of at most
two give a partially overlapping replay of the same element and one record that
is compacted or malformed; crash and rebalance may both hit the same poll.
`QuietAfter` ends the input early enough for the last deadline to come due within
the bound on the clock.

The pipeline is at its limit: `2 * interval + delay = TTL + lateness`, and
`MCPipelineLongInterval` and `MCPipelineBacklog` exceed it. Three contributions are a first one, one that is withheld, and
one that is withheld after the refresh, which is the worst case for the deadline. The
two invariants of extraction that compare data points compare two, so two calls are
enough; the registry has an entity for each way validation can go (a plain
string, an optional enum, a numeric enum in the identity, an integer identity, a type
that one evidence source does not support) and the data points include every kind of
value each refuses. In the topology the resources are independent but for their
parents; the two edge definitions are the least with which the list that is read
once can be outdated.

In `recovery` two observations are one before and one after the checkpoint, or both to
be replayed; the buffer of two holds an upsert and the delete that supersedes it; a
second failure would restore the same checkpoint once more. Four faults in `deployment`
are enough to lose a savepoint's path, then fail a stop and exhaust the three pods of a
submitter; seven revisions leave a repetition after all of them. The extensions of
`registry_release` contain one of each kind that is refused, one that reuses a
relationship's name, relationships that are never observed and one whose types appear in
every file; two of them follow one another. One user of `local_demo` runs command after
command, so that each meets what the ones before it have left.

`indexer`, `topology`, `extraction`, `deployment` and `registry_release` are checked
without deadlock checking: a consumer at the end of a quiet topic, an initializer that
is ready or out of retries, a parser after its last payload, an operator whose upgrades
are used up and a registry that nobody changes really have nothing to do. The other systems say
when they are done (`Quiescent`).

**Fairness.** `Tick`: the wall clock moves. `OnTimer`, `OnFallbackTimer`: Flink
fires timers that are due. Nothing is assumed of the watermark, which an idle
source stops, or of the input. In the indexer a replica that is up goes on
(`Work`), its container is restarted, and the group assigns a free partition;
nothing obliges anyone to publish, compact, crash or rebalance. In the pipeline also the
channel is drained. In the topology every process that is up goes on and Kubernetes
restarts one that failed, the Job up to its limit: `EventuallyReady` claims readiness
of the indexers only, and only if nothing alien is in the way (`Possible`). Crashes and
rebalances are finitely many in a behaviour: an indexer that crashes in every poll
never converges, and no code could make it. In `Recovery` the clock, due timers, the
source and the producer go on; checkpoints, the watermark and failures are free. In
`Deployment` the hooks that are not killed go on, Flink completes a stop unless it fails,
and the operator repeats a failed upgrade; `Settles` claims nothing before a first
savepoint is recorded. In `RegistryRelease` only the indexer's polls are fair: nobody
has to upgrade anything. In `LocalDemo` a command that was started goes on (`Proceed`),
which `wait_for`'s deadline, the timeout of every subprocess and request and the guarded
transport of the probes (`gremlin_transport.py`) justify, and the indexer projects. The
read of the semantic client (`Ask`) is outside of that: `client.py` connects with the
driver's default transport, which waits for an answer as long as it takes. So
`EveryCommandEnds` claims no more than that a command ends or awaits that answer.

**Scheduling assumed of Flink.** A task runs one callback at a time. A new
watermark fires every event timer it has passed, in order, before the next record
is taken. Processing timers fire at or after their time; `Punctual` restricts them
to before the clock moves on.

## 4. What the violations show

- `coalescer_turned_off`: `docs/configuration/flink.md` says of the interval "`0`
  makes the coalescer a stateless pass-through". After a redeployment to 0, timers
  registered before still fire; `open` returned before creating the state handles
  and `onTimer` uses them. The job fails, and fails again after each restart.
- `recovery_raced`: "The compacted topic can reconstruct the latest graph from complete
  replacements and deletions" (`docs/concepts/system-flow.md`). An element expires and
  its delete is written; the job fails before the next checkpoint and comes back with
  the contributor, the hash and the timers. If the next observation, equal to the last,
  is read before the restored timer fires, it moves the deadline and its hash is the
  restored one: nothing is emitted, and the topic says "deleted" of an element that is
  observed, until it changes or really expires. Without an expiry in the replay
  (`ReplayRepairs`), or when all falls silent (`NoGhost`), the topic is right.

The configurations beside the runs:

- `MCCoalescerLateTimer`: repeated observations "forward at most once per
  configured interval" (`docs/concepts/graph-element-lifecycle.md`). `onTimer`
  stores the timer's timestamp as `lastForwarded`, so after a late timer the next
  refresh follows too soon. The effect is an extra event downstream, never a lost
  one.
- `MCPipelineLongInterval`: `EngineConfig` and `docs/configuration/flink.md` ask for an
  interval shorter than every TTL. That is enough for the processing-time fallback
  (`RefreshBeatsExpiry`) but not for event time: a refresh forwards an observation
  that is up to an interval old and withholds the next for another interval. Unless
  twice the interval fits into TTL and lateness, the watermark expires an element that
  is observed all the time, and it is deleted and created again.
- `MCPipelineBacklog`: "Coalescer timers use processing time because they regulate
  runtime work; they do not decide graph expiry"
  (`docs/concepts/graph-element-lifecycle.md`). While a backlog is read faster than the
  clock moves, they do: the refresh waits for the clock, the watermark does not.
- `MCIndexerSlowPoll`: "Replays are idempotent because replacements use stable
  keys and deletes tolerate missing documents"
  (`docs/concepts/system-flow.md`). Idempotent writes do not help when two
  replicas replay the same partition: one that exceeds `max.poll.interval.ms`
  while writing finishes over the newer, committed writes of its successor. Its
  own commit fails, but the older documents stay until the element changes again.
  With one replica, or with polls in time, it cannot happen
  (`CommittedOffsetsAreApplied`).
- `MCRegistryReleaseInstalls`: a relationship whose name is in use for other endpoints
  changes an edge definition that exists, and the initializer raises on it: a release
  that CI let pass cannot be installed over the one before.
- `MCDeploymentHalfRecorded`: "Every Helm upgrade stops the active job with a savepoint,
  rolls the runtime, and restores the job from that savepoint"
  (`deploy/helm/servicegraph-flink/templates/NOTES.txt`). The hook writes the path to
  `revision-N.savepoint`, then to `latest.savepoint`, and may be killed in between. Helm's
  retry has the revision N+1: it finds an ended job, has no file of its own, takes
  `latest`, and rolls the job back to the upgrade before, although the newer path is on
  the claim. Written the other way round the two files would not do that.
- `MCLocalDemoSession`: "Without `--keep-e2e-cluster`, pytest removes the Kind cluster,
  Docker containers, temporary images, and kubeconfig automatically"
  (`docs/deployment/local-kind.md`). When tests have failed, the fixture calls
  `diagnostics()` first; one of its commands that exceeds its 60 seconds raises, and
  `cleanup()` behind it never runs. The steps of `CleanupLeavesNothing` are those of a
  cleanup that is reached.

Modelling `Deployment` and `LocalDemo` showed more that no run states. An install whose
pod dies between `flink run` and `record-runtime` is refused as legacy state for ever,
although "a repeated install skips an already active job"
(`deploy/helm/servicegraph-flink/README.md`). A stop that completes after the hook's
deadline leaves a savepoint nobody has recorded, and the retry restores the one before;
`RestoresTheLastStop` therefore claims the newest savepoint whose hook was not killed
before it ended, whichever of the two ways it was killed. An `up` that finds five things
running writes its state file whether or not the killed run that made them had seeded the
graph. A port-forward stays open when closing the other one raises (`close()` has no
`finally` of its own), when Ctrl-C strikes within `close()`, or between the start of
`kubectl` and the assignment that remembers it; `NoForwardLeft` excepts these three and
a session whose diagnostics raise, by `disturbed`. And `query` has no deadline on its
read, so a stalled forward keeps it for ever.

## 5. What is proved

All of it holds for every value of the constants allowed by the named assumptions
in the modules.

**Lifecycle** (`ElementLifecycleProofs`).
`IInv == TypeOK /\ IndexIsRebuild /\ PublishedIsMerge /\ TimersArmed`. None of the
four is inductive alone: what is published is decided by comparing hashes, the hash
is kept or recomputed from the index, and the index after one observation is a
rebuild only if it was one before. The centre is `ObserveIndexIsRebuild`: adding
one snapshot to the index from point reads gives what `rebuild` would give, when
the observation is not older than its contributor's last one and drops no
attribute it owns. It rests on the total order of `Wins` and on the existence of a
winner among finitely many contributors. `NeverThrows`, `NoOverdueContributor` and
`NoTimerBehindWatermark` follow.

**Refinement** (`ElementLifecycleProofs`). Each step of `ElementLifecycle` is a step of
`ElementContract` or leaves its variables alone: incremental merge is the
declarative one, and an event is published exactly when the merge changes. The
refinement mapping is the identity on the shared variables.

**Coalescer** (`ContributionCoalescerProofs`). The invariant adds to the type and
timer invariants what a cached entry says of the history of its pair. Two
hypotheses appear where they are needed, and the violations show that they are:
`CoalescingStaysOn` (no redeployment to interval 0) everywhere, `Punctual` for
`RefreshBeatsExpiry` and `RateLimit`. With them `EngineConfig`'s rule "interval
shorter than every TTL" is exactly what makes a refresh arrive in time.

**Pipeline** (`PipelineProofs`), under `Timely`:
`MaxDelay <= Ttl /\ \A i \in Intervals : 2 * i + MaxDelay <= Ttl + Lateness`. Both
conjuncts are needed. The second is tight (`MCPipelineLongInterval`,
`MCPipelineBacklog`): a refresh may be one interval old when it is forwarded and has to
last for another one. Without the first the coalescer forgets a contributor while
older telemetry of it may still come; that is forwarded as new, and the lifecycle
ignores it as older than what it holds. `OnlyRepetitionsWait` and
`ExpiresOnlyTheSilent` relate the coalescer's cache to the lifecycle's map; what
connects the two, and makes the invariant inductive, is what was forwarded last and
when. `Linked` says for each contributor: what is on the channel was forwarded at the
present time, and the last of it is what was forwarded last (`Queued`); what has
arrived has that observation's element and deadlines (`Arrived`); while a repetition
would be withheld, the contributor is present (`Kept`); and bounds on the ages of what
is held and forwarded (`Ages`). `CoveredDoesNotExpire` is the arithmetic: on the
processing clock an interval is below the TTL, on the watermark, which stays behind
`Epoch + now` by the lateness (`Watermarks`), the condition leaves room. The operators'
own invariants come from their proofs, instantiated (`ProvedCoalescer`,
`ProvedLifecycle`); their assumptions on constants are assumptions of the module
`Pipeline`, evaluated in every run. With interval 0 there is no cache and nothing to
show.

**Recovery** (`RecoveryProofs`). `ReplayRepairs` holds for every log and every sequence
of checkpoints and failures. The lifecycle's output is a function of the observations
applied, but for the deadlines: `TimelessSaysTheSame` says that merge and hash do not
depend on them, which is why a replay at another time says the same. `Path(h)` is the
witness: `h[k]` is what the contributors have said, without deadlines, after the first
`k` records, from the checkpoint's offset to where any attempt has read. The operator
is on that path at its offset, whichever attempt it is. It is silent only if its
restored hash equals that of the merge, so if nothing new remains to be said, the
producer or the topic already ends with it. `Repairable` adds that an expiry, which is
not in the log, happens only when no replay is under way; what it says otherwise is
what `raced` excepts.

**Indexer** (`IndexerProofs`), under `PollsInTime`. `CommittedIsApplied` needs to
know that only the owner writes, that between polls the owner stands at the
committed offset, and that what a writer has not written yet is at least as new as
everything retained below its position (`OwnerOK`, `WritesOK`).

**Topology** (`InstallationProofs`). `TopologyInv` adds to the properties what a process has behind
it: everything before its step is there and matches (`Progress`), and one that began
on a complete topology has found nothing to add (`NothingToAdd`). Both survive the
steps of others because processes only ever add (`Grows`): nobody removes a resource
or changes a definition. No bound on processes, resources, crashes or retries remains.

**Extraction** (`ExtractionProofs`). An id names kind, type and endpoints
(`IdDetermines`), so adding elements keeps ids unique and loses none (`AddAllKeeps`).
`EndpointsAreEmitted` then follows from where edges are made: between entities of sets
that are added as well. `ContributorsAreConsistent` rests on
`ContributorFixesInteraction`: what the hash covers is everything that the elements
are computed from. The registry is any that satisfies `RegistryAssumption`, in
particular `"edge"` is not an entity type. `ContributionsAreWellFormed` follows an
attribute from its validation to the node that carries it. `MalformedModelsHideNone`
compares an entity's fields with the fields of its type alone: the models of a data
point are tried one by one, and what one of them throws is caught there. For
`SidesAreSymmetric` the image of a data point under the exchange of client and server
is an involution on keys, and a node that both sides store is merged by the smaller
JSON text per attribute, which does not see the order. That needs `JsonAssumption`: the
values one field may store have different JSON texts.

**Deployment** (`InstallationProofs`). `DeploymentInv` relates files, hook and job: every
recorded number is a savepoint that was taken; between two hooks `latest` names the
newest concluded one, whose hook was not killed before it ended, and so does the handoff
of a revision whose hook has gone past it; a job that is
running or ended has left a marker, or its claim is recognised as unmarked
(`FilesInv`, `HookInv`, `JobInv`, `InstallInv`). `LastStopRestored` and
`StateNotPassedOver` are read off the one step that starts a job. No bound on pods,
revisions or faults remains.

**Local environment** (`InstallationProofs`). A command is data here, a list of steps for
each of its sections, and `DemoInv` says what the lists promise together, after any
failure, Ctrl-C or kill, within the tidying clauses as well as before them. *Forwards:*
until the closing is disturbed, what is open is among what a section that still runs will
close, the `finally` clause or, in a session, its cleanup, where all that removes comes
after the closing (`ForwardsClose`, `ErasesLast`); from then on nothing is claimed of
forwards (`Owed`), and the other two parts go on to hold. *Removal:* a cleanup that has not begun covers all that such an
environment can have, one that has met no fault all that still exists (`SweepErases`);
the services that work on meanwhile add only inside of hosts that are covered.
*Claim:* what the state file of an `up` stands for is there or shown by a step before
the last one, which writes the file (`ClaimIsLast`). The lemmas above the scripts give
what each list closes, removes and shows from its parts; one lemma per kind of step then
carries the invariant, and one per action applies it. The theorems take `OneUser`: the
commands on one environment are one person's. A session draws its own names; two people
on the demo do disturb each other, since nothing locks. The number of tests and the
faults are arbitrary.

**Registry and releases** (`RegistryReleaseProofs`). `GeneratedFilesAgree` is about the
generator alone: for any registry it accepts, what the files say of identities,
endpoints, dimensions, classes and collections agrees. `GeneratedFilesGrow` says file by
file what a larger registry keeps (`KeepsFiles`): field models, entity types and edges
stay as they were, since an attribute that an entity refers to is defined once
(`AttributesStay`); relationships and dimensions are kept; the job recognizes the same
entities with the same fields; collections, identifying properties and aliases stay and
edge definitions only grow, which is what `MCRegistryReleaseInstalls` is about. The
invariant carries both
through time: what is released was accepted and includes what was released before, and
the releases of Collector, job, client and indexer are ordered by inclusion, because
consumers are upgraded first. `EventsStayIndexable` and `DocumentsStayReadable` follow,
for any number of releases and data points.

The type invariants of modules with theorems are proved, and run again only where they
say more than types (extraction); that of `Pipeline` is stated for the reader of the
variables.

**Only model-checked:** the liveness properties (`EventuallyRetracted`,
`SilentEventuallyForgotten`, `Converges`, `EventuallyReady`, `NoGhost`,
`Settles`, `EverythingIndexed`, `EveryCommandEnds`): temporal reasoning with fairness,
and `ENABLED`, are outside what the prover handles.

## 6. Not modelled

CBOR and JSON framing, SHA-256, the wording of ids, logging, metrics, command
lines and manifests. A hash stands for what it is computed from; the one place where
this is not exact, non-finite doubles in JSON, is named in `Extraction`. Several keys
in one task: keyed state and timers are disjoint by construction in Flink. The
network between the parts is Kafka's and Flink's protocol. In the topology: the
content of the provider's document and the orphan collections of an existing graph,
neither of which the code compares. In recovery: the coalescer's own state, several
partitions, a producer of a failed attempt that writes late. In deployment: uninstalling
(a reinstall restarts the revision numbers, and an old revision's handoff on a kept
claim would be preferred), and a runtime marker of another version, which is refused
always. In the registry: briefs, stabilities, the order of references, the text of the
generated modules. Of the client: submitting traversals and the check that they mutate
nothing. Two people running commands on one local environment at the same time: `up`
reads the status long before it creates anything, and nothing locks. In the local
environment also: a `kubectl port-forward` that outlives its command (it holds a port of
its own, and no command knows of it), an external command that still runs after its
parent was killed, `--keep-e2e-cluster`, which asks for no cleanup, and the inside of
client libraries, which are taken to keep the deadlines they are given. The traffic
generator, the benchmark and the charts keep no state another part relies on.

## 7. What would come next

1. Referential integrity over time: an edge's TTL is the least of its own and its
   endpoints' (`LifecyclePolicy.ttlSeconds`), and `EndpointsEmitted` says that they are
   observed together. Abstract specification: no edge in the topic outlives the
   contributions of its endpoints; two instances of `ElementLifecycle` with one clock.
2. Proofs: the indexer as an implementation of an abstract "projection" specification.
3. `Recovery` with the coalescer in front of the lifecycle: what it withholds is in the
   checkpoint as well, and a replay meets another clock.
