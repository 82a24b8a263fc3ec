------------------------- MODULE InstallationProofs -------------------------
(***************************************************************************)
(* Safety of what installs, upgrades and removes the system, for every     *)
(* value of the constants: Deployment (the hooks of the Flink chart),      *)
(* Topology (the initializer Job and the start of the indexers) and        *)
(* LocalDemo (the commands of the local environment).  They share nothing: *)
(* each part is proved of its own specification.                           *)
(***************************************************************************)
EXTENDS Deployment, Topology, LocalDemo, TLAPS

-----------------------------------------------------------------------------
(* Deployment: every number of pods, revisions and faults *)

(* The steps of an operation after the job has ended. *)
Submitting == {"roll", "inspect", "run", "record"}

(***************************************************************************)
(* What the files say: nothing of later revisions; `latest' names the      *)
(* newest savepoint whose hook has ended, and so does the handoff that the *)
(* submitter will read.                                                    *)
(***************************************************************************)
FilesInv ==
    /\ \A r \in Revisions : r > revision => handoff[r] = NoSavepoint
    /\ step \in {"savepoint", "await"} => handoff[revision] = NoSavepoint
    /\ latest # NoSavepoint => latest \in Concluded /\ latest # printed
    /\ \A s \in Concluded : s # printed => latest # NoSavepoint /\ s <= latest
    /\ step \in Submitting /\ IsUpgrade => handoff[revision] = latest
    /\ step = "run" /\ IsUpgrade => handoff[revision] # NoSavepoint

(***************************************************************************)
(* What a hook has been told is the savepoint of the last stop, which is   *)
(* abandoned only with the hook.                                           *)
(***************************************************************************)
HookInv ==
    /\ printed # NoSavepoint =>
        /\ step \in {"await", "latest"}
        /\ printed = savepoints
        /\ printed \notin abandoned
        /\ job.state \in Terminal
    /\ step = "latest" => printed # NoSavepoint /\ handoff[revision] = printed

(***************************************************************************)
(* The job: it runs while it is being stopped, it has ended when Helm      *)
(* replaces the JobManager, and only this revision's submitter starts it.  *)
(***************************************************************************)
JobInv ==
    /\ stopping => job.state = "RUNNING" /\ step \notin Submitting
    /\ step = "roll" => job.state \in Terminal
    /\ step = "run" => job.state = "MISSING"
    /\ step = "inspect" /\ job.state = "RUNNING" => job.revision = revision
    /\ step \in {"record", "deployed"} => job.revision = revision

(* The first installation finds an empty claim and leaves no marker before *)
(* it has succeeded.                                                       *)
InstallInv ==
    /\ step = "none" <=> revision = 0
    /\ step \in {"savepoint", "await", "latest", "roll"} => IsUpgrade
    /\ step \in {"none"} \cup PostInstall /\ ~IsUpgrade => ~marker
    /\ step = "none" => job.state = "MISSING"
    /\ step = "run" /\ ~IsUpgrade => ~checkpoints /\ savepoints = 0
    /\ step \in PostInstall => pods > 0

(***************************************************************************)
(* The inductive invariant.  None of the properties is inductive: each     *)
(* speaks of one moment of an operation, and what it relies on was done by *)
(* another hook, possibly of an operation that failed.                     *)
(***************************************************************************)
DeploymentInv == DeploymentTypeOK /\ FilesInv /\ HookInv /\ JobInv /\ InstallInv

LEMMA DeploymentInitEstablishes == DeploymentInit => DeploymentInv
<1> USE DeploymentAssumption
    DEF DeploymentInit, Revisions, Savepoint, Active, Terminal, PreUpgrade,
        PostInstall, IsUpgrade, Steps, Jobs, Submitting
<1>1. DeploymentInit => DeploymentTypeOK
    <2>1. DeploymentInit =>
            /\ job \in Jobs
            /\ handoff \in [Revisions -> Savepoint \cup {NoSavepoint}]
        OBVIOUS
    <2>2. DeploymentInit =>
            /\ step \in Steps
            /\ {printed, latest} \subseteq Savepoint \cup {NoSavepoint}
        OBVIOUS
    <2>3. DeploymentInit => /\ revision \in 0 .. MaxRevision
                  /\ pods \in 0 .. Pods
                  /\ faults \in 0 .. MaxFaults
                  /\ savepoints \in Nat
        OBVIOUS
    <2>4. DeploymentInit =>
            /\ {stopping, marker, checkpoints} \subseteq BOOLEAN
            /\ abandoned \subseteq 1 .. savepoints
        OBVIOUS
    <2> HIDE DEF Jobs, Savepoint, Steps, Revisions, DeploymentInit
    <2> QED BY <2>1, <2>2, <2>3, <2>4 DEF DeploymentTypeOK
<1>2. DeploymentInit => FilesInv /\ HookInv /\ JobInv /\ InstallInv
    BY DEF FilesInv, HookInv, JobInv, InstallInv, Concluded
<1> QED BY <1>1, <1>2 DEF DeploymentInv

(* The steps of Helm and of its hooks. *)
LEMMA HelmPreserves ==
    ASSUME DeploymentInv, Install \/ Upgrade \/ Retry \/ Roll
    PROVE  DeploymentInv'
<1> USE DeploymentAssumption
    DEF DeploymentInv, DeploymentTypeOK, FilesInv, HookInv, JobInv, InstallInv,
        Revisions, Savepoint, Active, Terminal, PreUpgrade, PostInstall, IsUpgrade,
        Steps, Jobs, Submitting, Concluded, helm, flink, files
<1>1. CASE Install
    BY <1>1 DEF Install
<1>2. CASE Upgrade \/ Retry
    <2>1. BeginUpgrade /\ step \in {"deployed", "failed"}
        BY <1>2 DEF Upgrade, Retry
    <2> QED BY <2>1 DEF BeginUpgrade
<1>3. CASE Roll
    BY <1>3 DEF Roll
<1> QED BY <1>1, <1>2, <1>3

LEMMA SavepointHookPreserves ==
    ASSUME DeploymentInv,
           \/ RefuseUpgrade \/ ReusePreserved \/ StopJob
           \/ RecordHandoff \/ RecordLatest
    PROVE  DeploymentInv'
<1> USE DeploymentAssumption
    DEF DeploymentInv, DeploymentTypeOK, FilesInv, HookInv, JobInv, InstallInv,
        Revisions, Savepoint, Active, Terminal, PreUpgrade, PostInstall, IsUpgrade,
        Steps, Jobs, Submitting, Concluded, helm, flink, files
<1>1. CASE RefuseUpgrade
    BY <1>1 DEF RefuseUpgrade
<1>2. CASE ReusePreserved
    BY <1>2 DEF ReusePreserved, Preserved
<1>3. CASE StopJob
    BY <1>3 DEF StopJob
<1>4. CASE RecordHandoff
    BY <1>4 DEF RecordHandoff
<1>5. CASE RecordLatest
    BY <1>5 DEF RecordLatest, LatestRecorded
<1> QED BY <1>1, <1>2, <1>3, <1>4, <1>5

LEMMA SubmitterPreserves ==
    ASSUME DeploymentInv,
           \/ RefuseSubmission \/ SkipSubmission \/ DecideToSubmit
           \/ RunJob \/ RecordRuntime
    PROVE  DeploymentInv'
<1> USE DeploymentAssumption
    DEF DeploymentInv, DeploymentTypeOK, FilesInv, HookInv, JobInv, InstallInv,
        Revisions, Savepoint, Active, Terminal, PreUpgrade, PostInstall, IsUpgrade,
        Steps, Jobs, Submitting, Concluded, helm, flink, files
<1>1. CASE RefuseSubmission
    BY <1>1 DEF RefuseSubmission, PodFails
<1>2. CASE SkipSubmission
    BY <1>2 DEF SkipSubmission
<1>3. CASE DecideToSubmit
    BY <1>3 DEF DecideToSubmit, Legacy
<1>4. CASE RunJob
    BY <1>4 DEF RunJob
<1>5. CASE RecordRuntime
    BY <1>5 DEF RecordRuntime
<1> QED BY <1>1, <1>2, <1>3, <1>4, <1>5

(* What Flink and the cluster do meanwhile. *)
LEMMA EnvironmentPreserves ==
    ASSUME DeploymentInv,
           \/ TakeCheckpoint \/ StopCompletes \/ StopFails \/ JobFails
           \/ ReplaceJobManager \/ Kill
    PROVE  DeploymentInv'
<1> USE DeploymentAssumption
    DEF DeploymentInv, DeploymentTypeOK, FilesInv, HookInv, JobInv, InstallInv,
        Revisions, Savepoint, Active, Terminal, PreUpgrade, PostInstall, IsUpgrade,
        Steps, Jobs, Submitting, Concluded, helm, flink, files
<1>1. CASE TakeCheckpoint
    BY <1>1 DEF TakeCheckpoint
<1>2. CASE StopCompletes
    <2>1. DeploymentTypeOK'
        <3>1. job \in Jobs /\ job' = [job EXCEPT !.state = "FINISHED"]
            BY <1>2 DEF StopCompletes
        <3>2. job' \in Jobs
            BY <3>1
        <3>3. savepoints' = savepoints + 1 /\ stopping' = FALSE
            BY <1>2 DEF StopCompletes
        <3>4. savepoints \in Nat /\ savepoints' \in Nat \ {0}
            BY <3>3
        <3>5. printed' \in Savepoint \cup {NoSavepoint}
            BY <1>2, <3>4 DEF StopCompletes
        <3>6. abandoned' \subseteq abandoned \cup {savepoints'}
            BY <1>2 DEF StopCompletes
        <3>7. abandoned' \subseteq 1 .. savepoints'
            BY <3>3, <3>4, <3>6
        <3>8. UNCHANGED <<helm, checkpoints, files, faults>>
            BY <1>2 DEF StopCompletes
        <3> HIDE DEF Jobs, Savepoint, Steps, Revisions
        <3> QED BY <3>2, <3>3, <3>4, <3>5, <3>7, <3>8
    <2>2. FilesInv'
        BY <1>2 DEF StopCompletes
    <2>3. HookInv'
        BY <1>2 DEF StopCompletes
    <2>4. JobInv'
        BY <1>2 DEF StopCompletes
    <2>5. InstallInv'
        BY <1>2 DEF StopCompletes
    <2> QED BY <2>1, <2>2, <2>3, <2>4, <2>5
<1>3. CASE StopFails
    <2>1. DeploymentTypeOK'
        <3>1. step' \in Steps /\ job' \in Jobs /\ faults' \in 0 .. MaxFaults
            BY <1>3 DEF StopFails, AfterFailedStop
        <3> QED BY <1>3, <3>1 DEF StopFails
    <2>2. FilesInv'
        BY <1>3 DEF StopFails, AfterFailedStop
    <2>3. HookInv'
        BY <1>3 DEF StopFails, AfterFailedStop
    <2>4. JobInv'
        BY <1>3 DEF StopFails, AfterFailedStop
    <2>5. InstallInv'
        BY <1>3 DEF StopFails, AfterFailedStop
    <2> QED BY <2>1, <2>2, <2>3, <2>4, <2>5
<1>4. CASE JobFails
    <2>1. DeploymentTypeOK'
        <3>1. step' \in Steps /\ job' \in Jobs /\ faults' \in 0 .. MaxFaults
            BY <1>4 DEF JobFails, AfterFailedStop
        <3> QED BY <1>4, <3>1 DEF JobFails
    <2>2. FilesInv'
        BY <1>4 DEF JobFails, AfterFailedStop
    <2>3. HookInv'
        BY <1>4 DEF JobFails, AfterFailedStop
    <2>4. JobInv'
        BY <1>4 DEF JobFails, AfterFailedStop
    <2>5. InstallInv'
        BY <1>4 DEF JobFails, AfterFailedStop
    <2> QED BY <2>1, <2>2, <2>3, <2>4, <2>5
<1>5. CASE ReplaceJobManager
    BY <1>5 DEF ReplaceJobManager
<1>6. CASE Kill
    <2>1. DeploymentTypeOK'
        <3>1. /\ step' \in Steps /\ pods' \in 0 .. Pods
              /\ printed' \in Savepoint \cup {NoSavepoint}
              /\ faults' \in 0 .. MaxFaults
            BY <1>6 DEF Kill, PodFails
        <3>2. abandoned' \subseteq abandoned \cup ({printed} \ {NoSavepoint})
            BY <1>6 DEF Kill
        <3>3. printed # NoSavepoint => printed \in 1 .. savepoints
            OBVIOUS
        <3>4. UNCHANGED <<revision, job, stopping, savepoints, checkpoints, files>>
            BY <1>6 DEF Kill
        <3>5. abandoned' \subseteq 1 .. savepoints'
            BY <3>2, <3>3, <3>4
        <3> HIDE DEF Jobs, Savepoint, Steps, Revisions
        <3> QED BY <3>1, <3>4, <3>5
    <2>2. FilesInv'
        <3>1. UNCHANGED <<revision, files, savepoints>>
            BY <1>6 DEF Kill
        <3>2. step' \in {"failed", "inspect"}
            BY <1>6 DEF Kill, PodFails
        <3>3. step' = "inspect" => step \in PostInstall
            BY <1>6 DEF Kill
        <3>4. Concluded' = Concluded \ {printed} /\ printed' = NoSavepoint
            BY <1>6 DEF Kill
        <3> QED BY <3>1, <3>2, <3>3, <3>4
    <2>3. HookInv'
        BY <1>6 DEF Kill, PodFails
    <2>4. JobInv'
        BY <1>6 DEF Kill, PodFails
    <2>5. InstallInv'
        BY <1>6 DEF Kill, PodFails
    <2> QED BY <2>1, <2>2, <2>3, <2>4, <2>5
<1> QED BY <1>1, <1>2, <1>3, <1>4, <1>5, <1>6

LEMMA DeploymentStutterPreserves ==
    DeploymentInv /\ UNCHANGED deploymentVars => DeploymentInv'
BY DEF DeploymentInv, DeploymentTypeOK, FilesInv, HookInv, JobInv, InstallInv,
    IsUpgrade, Concluded, deploymentVars, helm, flink, files

LEMMA DeploymentStepPreserves ==
    DeploymentInv /\ [DeploymentNext]_deploymentVars => DeploymentInv'
BY HelmPreserves, SavepointHookPreserves, SubmitterPreserves,
   EnvironmentPreserves, DeploymentStutterPreserves DEF DeploymentNext, Hooks

LEMMA DeploymentInvariance == DeploymentSpec => []DeploymentInv
BY DeploymentInitEstablishes, DeploymentStepPreserves, PTL DEF DeploymentSpec

(* Type correctness of the hooks, of Flink's job and of the claim. *)
THEOREM DeploymentTypeCorrect == DeploymentSpec => []DeploymentTypeOK
<1>1. DeploymentInv => DeploymentTypeOK
    BY DEF DeploymentInv
<1> QED BY <1>1, DeploymentInvariance, PTL

(***************************************************************************)
(* However many hooks are killed and upgrades repeated: what Helm reports  *)
(* as deployed is this revision's job.                                     *)
(***************************************************************************)
THEOREM SuccessIsDeployed == DeploymentSpec => []SuccessMeansDeployed
<1>1. DeploymentInv => SuccessMeansDeployed
    BY DEF DeploymentInv, JobInv, SuccessMeansDeployed
<1> QED BY <1>1, DeploymentInvariance, PTL

(* Only RunJob starts a job. *)
LEMMA OnlyRunJobStarts ==
    ASSUME DeploymentInv, [DeploymentNext]_deploymentVars,
           job.state = "MISSING", job'.state = "RUNNING"
    PROVE  RunJob
BY DEF DeploymentInv, DeploymentTypeOK, Jobs, DeploymentNext, Hooks, Install,
    Upgrade, Retry, BeginUpgrade, Roll,
    RefuseUpgrade, ReusePreserved, StopJob, RecordHandoff, RecordLatest,
    RefuseSubmission, SkipSubmission, DecideToSubmit, RecordRuntime,
    TakeCheckpoint, StopCompletes, StopFails, JobFails, ReplaceJobManager,
    Kill, Active, Terminal, deploymentVars, helm, flink, files

(***************************************************************************)
(* Every upgrade restores the newest savepoint whose hook has ended,       *)
(* however many hooks were killed at whatever step before it.              *)
(***************************************************************************)
THEOREM LastStopRestored == DeploymentSpec => RestoresTheLastStop
<1>1. DeploymentInv /\ [DeploymentNext]_deploymentVars =>
        [ UpgradeStartsJob
            => /\ job'.from \in Concluded
               /\ \A s \in Concluded : s <= job'.from ]_deploymentVars
    <2> SUFFICES ASSUME DeploymentInv, [DeploymentNext]_deploymentVars,
                        UpgradeStartsJob
                 PROVE  /\ job'.from \in Concluded
                        /\ \A s \in Concluded : s <= job'.from
        OBVIOUS
    <2>1. RunJob /\ IsUpgrade
        BY OnlyRunJobStarts DEF UpgradeStartsJob
    <2>2. job'.from = latest /\ latest # NoSavepoint
        BY <2>1 DEF RunJob, DeploymentInv, FilesInv, Submitting
    <2>3. printed = NoSavepoint
        BY <2>1 DEF RunJob, DeploymentInv, HookInv
    <2>4. NoSavepoint \notin Concluded
        BY DeploymentAssumption DEF DeploymentInv, DeploymentTypeOK, Concluded
    <2> QED BY <2>2, <2>3, <2>4 DEF DeploymentInv, FilesInv
<1> QED BY <1>1, DeploymentInvariance, PTL DEF DeploymentSpec, RestoresTheLastStop

(***************************************************************************)
(* No submission, first or repeated, starts an empty job over a claim that *)
(* holds checkpoints or savepoints.                                        *)
(***************************************************************************)
THEOREM StateNotPassedOver == DeploymentSpec => NoStatePassedOver
<1>1. DeploymentInv /\ [DeploymentNext]_deploymentVars =>
        [ ( /\ job.state = "MISSING"
            /\ job'.state = "RUNNING"
            /\ job'.from = NoSavepoint )
                => ~checkpoints /\ savepoints = 0 ]_deploymentVars
    <2> SUFFICES ASSUME DeploymentInv, [DeploymentNext]_deploymentVars,
                        job.state = "MISSING", job'.state = "RUNNING",
                        job'.from = NoSavepoint
                 PROVE  ~checkpoints /\ savepoints = 0
        OBVIOUS
    <2>1. RunJob
        BY OnlyRunJobStarts
    <2> QED BY <2>1 DEF RunJob, DeploymentInv, FilesInv, InstallInv
<1> QED BY <1>1, DeploymentInvariance, PTL DEF DeploymentSpec, NoStatePassedOver

-----------------------------------------------------------------------------
(* Topology: any number of processes, any schema and any state that the    *)
(* database was left in                                                    *)

(* Everything before the position k of the schema exists and matches. *)
Done(k) == \A j \in DOMAIN Schema : j < k => db[Schema[j]] = "matching"

(***************************************************************************)
(* What a process past the graph's check has read of it is still there:    *)
(* definitions are only added, and those before its position match.        *)
(***************************************************************************)
GraphDone(i) ==
    /\ graph # Null
    /\ ~graph.unexpected
    /\ \A d \in EdgeDefinitions :
        existing[i].definitions[d] # "absent"
            => graph.definitions[d] = existing[i].definitions[d]
    /\ \A j \in DOMAIN Definitions :
        j < position[i] - GraphStep => graph.definitions[Definitions[j]] = "matching"

Progress(i) ==
    result[i] = Null =>
        /\ Done(position[i])
        /\ missing[i] /\ position[i] < GraphStep => db[Schema[position[i]]] # "alien"
        /\ position[i] > GraphStep => GraphDone(i)

(* A process that began with a complete topology has nothing to add. *)
NothingToAdd(i) ==
    noop[i] => /\ Complete
               /\ ~missing[i]
               /\ position[i] > GraphStep => existing[i] = CompleteGraph

TopologyInv ==
    /\ TypeOK
    /\ ReadyMeansComplete
    /\ NoopOnComplete
    /\ \A i \in Initializers : Progress(i) /\ NothingToAdd(i)
-----------------------------------------------------------------------------
(* What other processes rely on *)

(* Nothing that exists is removed or changed. *)
Grows ==
    /\ \A r \in Resources :
        db'[r] = db[r] \/ (db[r] = "absent" /\ db'[r] = "matching")
    /\ graph # Null =>
        /\ graph' # Null
        /\ graph'.unexpected = graph.unexpected
        /\ \A d \in EdgeDefinitions :
            graph.definitions[d] # "absent"
                => graph'.definitions[d] = graph.definitions[d]

(* The process i does nothing. *)
Idle(i) ==
    /\ position'[i] = position[i]
    /\ missing'[i] = missing[i]
    /\ existing'[i] = existing[i]
    /\ changed'[i] = changed[i]
    /\ result'[i] = result[i]
    /\ noop'[i] = noop[i]

(* Positions of the schema. *)
LEMMA Positions ==
    /\ Len(Schema) \in Nat
    /\ DOMAIN Schema = 1 .. Len(Schema)
    /\ Len(Definitions) \in Nat
    /\ DOMAIN Definitions = 1 .. Len(Definitions)
    /\ GraphStep \in Nat
    /\ LastStep \in Nat
    /\ \A k \in DOMAIN Schema : Schema[k] \in Resources
    /\ \A k \in DOMAIN Definitions : Definitions[k] \in EdgeDefinitions
    /\ "absent" \in Statuses /\ "matching" \in Statuses
BY SchemaAssumption DEF GraphStep, LastStep, Resources, EdgeDefinitions, Statuses

LEMMA CompleteGraphType ==
    CompleteGraph \in Graphs
BY DEF CompleteGraph, Graphs, Statuses

(* A graph is complete if its parts are. *)
LEMMA CompleteGraphParts ==
    ASSUME NEW g \in Graphs,
           ~g.unexpected,
           \A d \in EdgeDefinitions : g.definitions[d] = "matching"
    PROVE  g = CompleteGraph
BY DEF Graphs, CompleteGraph

(* One more definition in a graph. *)
LEMMA DefinitionAdded ==
    ASSUME NEW g \in Graphs, NEW d \in EdgeDefinitions,
           NEW h, h = [g EXCEPT !.definitions[d] = "matching"]
    PROVE  /\ h \in Graphs
           /\ h.unexpected = g.unexpected
           /\ h.definitions = [g.definitions EXCEPT ![d] = "matching"]
BY DEF Graphs, Statuses

-----------------------------------------------------------------------------
(* Type correctness *)

(* The part of TypeOK that is about the processes. *)
ProcessesOK ==
    /\ position \in [Initializers -> 1 .. (LastStep + 1)]
    /\ missing \in [Initializers -> BOOLEAN]
    /\ existing \in [Initializers -> Graphs \cup {Null}]
    /\ result \in [Initializers -> Outcomes \cup {Null}]
    /\ \A i \in Initializers :
        /\ missing[i] => result[i] = Null /\ position[i] <= GraphStep
        /\ position[i] > GraphStep => existing[i] # Null

(* The three ways in which a step of initialize() ends keep it. *)
LEMMA AdvanceType ==
    ASSUME ProcessesOK, NEW i \in Initializers, Advance(i), position[i] <= LastStep,
           position[i] >= GraphStep => existing[i] # Null
    PROVE  ProcessesOK'
BY Positions DEF ProcessesOK, Advance

LEMMA FoundMissingType ==
    ASSUME ProcessesOK, NEW i \in Initializers, FoundMissing(i),
           result[i] = Null, position[i] <= GraphStep
    PROVE  ProcessesOK'
BY Positions DEF ProcessesOK, FoundMissing

LEMMA EndType ==
    ASSUME ProcessesOK, NEW i \in Initializers,
           NEW outcome \in Outcomes,
           End(i, outcome)
    PROVE  ProcessesOK'
BY Positions DEF ProcessesOK, End

(* The resource or the definition that a process is looking at. *)
LEMMA AtStep ==
    ASSUME TypeOK, NEW i \in Initializers
    PROVE  /\ position[i] \in Nat /\ position[i] >= 1
           /\ position[i] < GraphStep =>
                /\ position[i] \in DOMAIN Schema
                /\ Schema[position[i]] \in Resources
                /\ position[i] <= LastStep
           /\ GraphStep < position[i] /\ position[i] <= LastStep =>
                /\ position[i] - GraphStep \in DOMAIN Definitions
                /\ Definitions[position[i] - GraphStep] \in EdgeDefinitions
           /\ GraphStep <= LastStep
BY Positions DEF TypeOK, GraphStep, LastStep

LEMMA TypeStep ==
    TopologyInv /\ [Next]_vars => TypeOK'
<1> SUFFICES ASSUME TopologyInv, [Next]_vars
             PROVE  TypeOK'
    OBVIOUS
<1> USE Positions, NullAssumption, CompleteGraphType
<1>0. TypeOK /\ ProcessesOK
    BY DEF TopologyInv, TypeOK, ProcessesOK
<1>a. ASSUME ProcessesOK', UNCHANGED <<retries, crashes, noop>>,
             db' \in [Resources -> Statuses], graph' \in Graphs \cup {Null},
             changed' \in [Initializers -> BOOLEAN]
      PROVE  TypeOK'
    BY <1>0, <1>a DEF TypeOK, ProcessesOK
<1>1. ASSUME NEW i \in Initializers, Inspect(i)
      PROVE  TypeOK'
    <2>1. ProcessesOK'
        BY <1>0, <1>1, AtStep, AdvanceType, FoundMissingType, EndType
        DEF Inspect, Running, Outcomes
    <2>2. UNCHANGED <<retries, crashes, noop, db, graph, changed>>
        BY <1>1 DEF Inspect, Running, FoundMissing, End
    <2>3. QED
        BY <1>0, <1>a, <2>1, <2>2 DEF TypeOK
<1>2. ASSUME NEW i \in Initializers, Create(i)
      PROVE  TypeOK'
    <2> DEFINE r == Schema[position[i]]
    <2>1. r \in Resources
        BY <1>0, <1>2, AtStep DEF Create
    <2>2. ProcessesOK'
        BY <1>0, <1>2, AtStep, AdvanceType, EndType DEF Create, Running, Outcomes
    <2>3. CASE /\ db' = [db EXCEPT ![r] = IF @ = "absent" THEN "matching" ELSE @]
               /\ changed' = [changed EXCEPT ![i] = @ \/ Kind[r] # "database"]
        <3>1. db' \in [Resources -> Statuses]
            BY <1>0, <2>1, <2>3 DEF TypeOK
        <3>2. changed' \in [Initializers -> BOOLEAN]
            BY <1>0, <2>3 DEF TypeOK
        <3>3. UNCHANGED <<retries, crashes, noop, graph>>
            BY <1>2 DEF Create, Running
        <3>4. QED
            BY <1>0, <1>a, <2>2, <3>1, <3>2, <3>3 DEF TypeOK
    <2>4. CASE UNCHANGED <<db, changed>>
        BY <1>0, <1>a, <1>2, <2>2, <2>4 DEF TypeOK, Create, Running
    <2>5. QED
        BY <1>2, <2>3, <2>4 DEF Create, End
<1>3. ASSUME NEW i \in Initializers, InspectGraph(i)
      PROVE  TypeOK'
    <2>1. ProcessesOK'
        <3>1. CASE FoundMissing(i)
            BY <1>0, <1>3, <3>1, AtStep, FoundMissingType DEF InspectGraph, Running
        <3>2. CASE End(i, "failed")
            BY <1>0, <3>2, EndType DEF Outcomes
        <3>3. CASE /\ graph # Null
                   /\ existing' = [existing EXCEPT ![i] = graph]
                   /\ position' = [position EXCEPT ![i] = @ + 1]
                   /\ UNCHANGED <<missing, result>>
            BY <1>0, <1>3, <3>3, AtStep DEF InspectGraph, ProcessesOK, TypeOK
        <3>4. QED
            BY <1>3, <3>1, <3>2, <3>3 DEF InspectGraph
    <2>2. UNCHANGED <<retries, crashes, noop, db, graph, changed>>
        BY <1>3 DEF InspectGraph, Running, FoundMissing, End
    <2>3. QED
        BY <1>0, <1>a, <2>1, <2>2 DEF TypeOK
<1>4. ASSUME NEW i \in Initializers, CreateGraph(i)
      PROVE  TypeOK'
    <2>1. ProcessesOK'
        BY <1>0, <1>4, EndType DEF CreateGraph, Outcomes
    <2>2. graph' \in Graphs \cup {Null}
        BY <1>0, <1>4 DEF CreateGraph, TypeOK
    <2>3. UNCHANGED <<retries, crashes, noop, db, changed>>
        BY <1>4 DEF CreateGraph, Running, End
    <2>4. QED
        BY <1>0, <1>a, <2>1, <2>2, <2>3 DEF TypeOK
<1>5. ASSUME NEW i \in Initializers, EnsureDefinition(i)
      PROVE  TypeOK'
    <2> DEFINE d == Definitions[position[i] - GraphStep]
    <2>1. d \in EdgeDefinitions
        BY <1>0, <1>5, AtStep DEF EnsureDefinition
    <2>2. graph \in Graphs
        BY <1>0, <1>5
        DEF TypeOK, TopologyInv, Progress, GraphDone, EnsureDefinition, Running
    <2>3. ProcessesOK'
        <3>1. existing[i] # Null
            BY <1>0, <1>5, AtStep DEF TypeOK, EnsureDefinition
        <3>2. QED
            BY <1>0, <1>5, <3>1, AtStep, AdvanceType, EndType
            DEF EnsureDefinition, Outcomes
    <2>4. graph' \in Graphs \cup {Null}
        <3>1. \/ graph' = graph
              \/ graph' = [graph EXCEPT !.definitions[d] = "matching"]
            BY <1>5 DEF EnsureDefinition
        <3>2. QED
            BY <2>1, <2>2, <3>1, DefinitionAdded
    <2>5. changed' \in [Initializers -> BOOLEAN]
        BY <1>0, <1>5 DEF TypeOK, EnsureDefinition, End
    <2>6. UNCHANGED <<retries, crashes, noop, db>>
        BY <1>5 DEF EnsureDefinition, Running
    <2>7. QED
        BY <1>0, <1>a, <2>3, <2>4, <2>5, <2>6 DEF TypeOK
<1>6. ASSUME NEW i \in Initializers, Finish(i)
      PROVE  TypeOK'
    <2>1. ProcessesOK'
        BY <1>0, <1>6, EndType DEF Finish, Outcomes
    <2>2. UNCHANGED <<retries, crashes, noop, db, graph, changed>>
        BY <1>6 DEF Finish, Running, End
    <2>3. QED
        BY <1>0, <1>a, <2>1, <2>2 DEF TypeOK
<1>7. ASSUME NEW i \in Initializers, Restart(i)
      PROVE  TypeOK'
    <2>1. ProcessesOK'
        BY <1>0, <1>7 DEF ProcessesOK, Restart, GraphStep, LastStep
    <2>2. retries' \in [Initializers -> 0 .. BackoffLimit]
        BY <1>0, <1>7, SchemaAssumption DEF TypeOK, Restart
    <2>3. /\ changed' \in [Initializers -> BOOLEAN]
          /\ noop' \in [Initializers -> BOOLEAN]
        <3>1. Complete \in BOOLEAN
            BY DEF Complete
        <3>2. QED
            BY <1>0, <1>7, <3>1 DEF TypeOK, Restart
    <2>4. UNCHANGED <<db, graph, crashes>>
        BY <1>7 DEF Restart
    <2>5. QED
        BY <1>0, <2>1, <2>2, <2>3, <2>4 DEF TypeOK, ProcessesOK
<1>8. ASSUME NEW i \in Initializers, Crash(i)
      PROVE  TypeOK'
    <2>1. ProcessesOK'
        BY <1>0, <1>8, EndType DEF Crash, Outcomes
    <2>2. crashes' \in 0 .. MaxCrashes
        BY <1>0, <1>8, SchemaAssumption DEF TypeOK, Crash
    <2>3. UNCHANGED <<retries, noop, db, graph, changed>>
        BY <1>8 DEF Crash, End
    <2>4. QED
        BY <1>0, <2>1, <2>2, <2>3 DEF TypeOK, ProcessesOK
<1>9. CASE UNCHANGED vars
    BY <1>0, <1>9 DEF TypeOK, vars, process
<1>10. QED
    BY <1>1, <1>2, <1>3, <1>4, <1>5, <1>6, <1>7, <1>8, <1>9 DEF Next, Work

-----------------------------------------------------------------------------
(* The safety properties *)

(* Every action only adds to the database. *)
LEMMA EveryStepGrows ==
    TopologyInv /\ [Next]_vars => Grows
<1> SUFFICES ASSUME TopologyInv, [Next]_vars
             PROVE  Grows
    OBVIOUS
<1> USE Positions DEF Grows
<1>1. ASSUME NEW i \in Initializers, Create(i)
      PROVE  Grows
    <2>1. Schema[position[i]] \in Resources /\ db \in [Resources -> Statuses]
        BY <1>1, AtStep DEF Create, TopologyInv, TypeOK
    <2>2. QED
        BY <1>1, <2>1 DEF Create
<1>2. ASSUME NEW i \in Initializers, CreateGraph(i)
      PROVE  Grows
    BY <1>2 DEF CreateGraph
<1>3. ASSUME NEW i \in Initializers, EnsureDefinition(i)
      PROVE  Grows
    <2> DEFINE d == Definitions[position[i] - GraphStep]
    <2>1. d \in EdgeDefinitions
        BY <1>3, AtStep DEF EnsureDefinition, TopologyInv
    <2>2. graph \in Graphs /\ graph # Null
        BY <1>3 DEF TypeOK, TopologyInv, Progress, GraphDone, EnsureDefinition, Running
    <2>3. CASE graph' = graph
        BY <1>3, <2>3 DEF EnsureDefinition
    <2>4. CASE /\ graph.definitions[d] = "absent"
               /\ graph' = [graph EXCEPT !.definitions[d] = "matching"]
        <3>1. /\ graph' \in Graphs
              /\ graph'.unexpected = graph.unexpected
              /\ graph'.definitions = [graph.definitions EXCEPT ![d] = "matching"]
            BY <2>1, <2>2, <2>4, DefinitionAdded
        <3>2. graph.definitions \in [EdgeDefinitions -> Statuses]
            BY <2>2 DEF Graphs
        <3>3. UNCHANGED db
            BY <1>3 DEF EnsureDefinition
        <3>4. QED
            BY <2>1, <2>4, <3>1, <3>2, <3>3, NullAssumption
    <2>5. QED
        BY <1>3, <2>3, <2>4 DEF EnsureDefinition
<1>4. CASE UNCHANGED <<db, graph>>
    BY <1>4
<1>5. QED
    BY <1>1, <1>2, <1>3, <1>4
    DEF Next, Work, Inspect, InspectGraph, Finish, Restart, Crash, vars

LEMMA CompleteStays ==
    ASSUME TypeOK, TypeOK', Complete, Grows
    PROVE  Complete'
<1>1. \A r \in Resources : db'[r] = "matching"
    BY DEF Complete, Grows
<1>2. graph' \in Graphs /\ graph # Null
    BY NullAssumption, CompleteGraphType DEF Complete, Grows, TypeOK
<1>3. graph' = CompleteGraph
    <2>1. ~graph'.unexpected
        BY <1>2 DEF Complete, Grows, CompleteGraph
    <2>2. \A d \in EdgeDefinitions : graph'.definitions[d] = "matching"
        BY <1>2 DEF Complete, Grows, CompleteGraph
    <2>3. QED
        BY <1>2, <2>1, <2>2, CompleteGraphParts
<1>4. QED
    BY <1>1, <1>3 DEF Complete

(* What the invariant says of one process. *)
Safe(i) ==
    /\ Ready(i) => Complete
    /\ noop[i] => result[i] \in {Null, "unchanged", "crashed"} /\ ~changed[i]
    /\ Progress(i)
    /\ NothingToAdd(i)

(* It survives what the others do. *)
LEMMA OthersKeepSafe ==
    ASSUME TypeOK, TypeOK', Grows, NEW i \in Initializers, Idle(i), Safe(i)
    PROVE  Safe(i)'
<1>1. Complete => Complete'
    BY CompleteStays
<1>2. Progress(i)'
    <2>1. \A k : Done(k) => Done(k)'
        BY Positions DEF Done, Grows
    <2>2. GraphDone(i) => GraphDone(i)'
        BY Positions DEF GraphDone, Grows, Idle
    <2>3. position[i] < GraphStep /\ db[Schema[position[i]]] # "alien"
            => db'[Schema[position[i]]] # "alien"
        BY AtStep DEF Grows
    <2>4. QED
        BY <2>1, <2>2, <2>3 DEF Progress, Idle, Safe
<1>3. QED
    BY <1>1, <1>2 DEF Safe, Idle, Ready, NothingToAdd

(* And the process that acts keeps it. *)
LEMMA ActingKeepsSafe ==
    ASSUME TopologyInv, TypeOK', Grows, NEW i \in Initializers, Safe(i),
           Work(i) \/ Crash(i)
    PROVE  Safe(i)'
<1> USE Positions, NullAssumption DEF Safe, Outcomes
<1>0. TypeOK /\ (Complete => Complete')
    BY CompleteStays DEF TopologyInv
<1>a. ASSUME NEW outcome \in {"failed", "crashed"}, End(i, outcome), noop' = noop,
             noop[i] => outcome = "crashed", changed'[i] = changed[i]
      PROVE  Safe(i)'
    BY <1>0, <1>a DEF End, TypeOK, Ready, Progress, NothingToAdd
<1>1. CASE Inspect(i)
    <2> DEFINE r == Schema[position[i]]
    <2>1. r \in Resources /\ position[i] \in Nat /\ position[i] < GraphStep
        BY <1>0, <1>1, AtStep DEF Inspect
    <2>2. noop[i] => Accepts(db[r])
        BY <2>1 DEF NothingToAdd, Complete, Accepts
    <2>3. CASE Accepts(db[r]) /\ Advance(i) /\ UNCHANGED changed
        <3>1. Done(position[i] + 1)
            BY <1>1, <2>1, <2>3 DEF Inspect, Running, Progress, Done, Accepts
        <3>2. UNCHANGED <<db, graph, noop>>
            BY <1>1 DEF Inspect, Running
        <3>3. /\ position'[i] = position[i] + 1 /\ ~missing'[i]
              /\ UNCHANGED <<result, existing>>
            BY <1>0, <2>3 DEF Advance, TypeOK
        <3>4. Progress(i)'
            BY <2>1, <3>1, <3>2, <3>3 DEF Progress, Done
        <3>5. QED
            BY <1>0, <1>1, <2>1, <2>3, <3>2, <3>3, <3>4
            DEF Inspect, Running, Ready, NothingToAdd
    <2>4. CASE ~Accepts(db[r]) /\ db[r] = "absent" /\ FoundMissing(i)
        BY <1>0, <1>1, <2>1, <2>2, <2>4
        DEF Inspect, Running, FoundMissing, TypeOK, Ready, Progress, NothingToAdd,
            Done, GraphDone
    <2>5. CASE ~Accepts(db[r]) /\ End(i, "failed")
        BY <1>1, <1>a, <2>2, <2>5 DEF Inspect, Running, End
    <2>6. QED
        BY <1>1, <2>3, <2>4, <2>5 DEF Inspect
<1>2. CASE Create(i)
    <2> DEFINE r == Schema[position[i]]
    <2>1. /\ r \in Resources /\ position[i] \in Nat /\ position[i] < GraphStep
          /\ ~noop[i] /\ noop' = noop /\ db[r] # "alien" /\ UNCHANGED graph
        BY <1>0, <1>2, AtStep DEF Create, Running, Progress, NothingToAdd
    <2>2. CASE /\ db' = [db EXCEPT ![r] = IF @ = "absent" THEN "matching" ELSE @]
               /\ Advance(i)
        <3>1. db'[r] = "matching"
            BY <1>0, <2>1, <2>2 DEF TypeOK, Statuses
        <3>2. \A j \in DOMAIN Schema :
                j < position[i] + 1 => db'[Schema[j]] = "matching"
            BY <1>2, <2>1, <3>1 DEF Grows, Create, Running, Progress, Done
        <3>3. position'[i] = position[i] + 1 /\ ~missing'[i] /\ UNCHANGED result
            BY <1>0, <2>2 DEF Advance, TypeOK
        <3>4. Progress(i)'
            BY <2>1, <3>2, <3>3 DEF Progress, Done
        <3>5. QED
            BY <1>2, <2>1, <3>3, <3>4 DEF Create, Running, Ready, NothingToAdd
    <2>3. CASE End(i, "failed")
        BY <1>a, <2>1, <2>3 DEF End
    <2>4. QED
        BY <1>2, <2>2, <2>3 DEF Create
<1>3. CASE InspectGraph(i)
    <2>1. /\ position[i] = GraphStep /\ result[i] = Null /\ ~missing[i]
          /\ UNCHANGED <<db, graph, noop>> /\ Done(GraphStep)
        BY <1>3 DEF InspectGraph, Running, Progress
    <2>2. noop[i] => graph = CompleteGraph /\ graph # Null /\ ~graph.unexpected
        <3>1. ~CompleteGraph.unexpected /\ CompleteGraph # Null
            BY CompleteGraphType DEF CompleteGraph
        <3>2. QED
            BY <3>1 DEF NothingToAdd, Complete
    <2>3. CASE graph = Null /\ FoundMissing(i)
        BY <1>0, <2>1, <2>2, <2>3
        DEF FoundMissing, TypeOK, Ready, Progress, NothingToAdd, Done, GraphDone
    <2>4. CASE graph # Null /\ graph.unexpected /\ End(i, "failed")
        BY <1>a, <2>1, <2>2, <2>4 DEF End
    <2>5. CASE /\ graph # Null
               /\ ~graph.unexpected
               /\ existing' = [existing EXCEPT ![i] = graph]
               /\ position' = [position EXCEPT ![i] = @ + 1]
               /\ UNCHANGED <<missing, changed, result>>
        <3>1. existing'[i] = graph /\ position'[i] = GraphStep + 1
            BY <1>0, <2>1, <2>5 DEF TypeOK
        <3>2. Done(position[i])'
            BY <2>1, <2>5, <3>1 DEF Done, GraphStep
        <3>3. GraphDone(i)'
            BY <2>1, <2>5, <3>1 DEF GraphDone
        <3>4. Progress(i)'
            BY <2>1, <2>5, <3>1, <3>2, <3>3 DEF Progress
        <3>5. QED
            BY <1>0, <2>1, <2>2, <2>5, <3>1, <3>4 DEF Ready, NothingToAdd
    <2>6. QED
        BY <1>3, <2>3, <2>4, <2>5 DEF InspectGraph
<1>4. CASE CreateGraph(i)
    <2>1. /\ result[i] = Null /\ ~noop[i] /\ UNCHANGED <<db, noop>> /\ Done(GraphStep)
        BY <1>4 DEF CreateGraph, Running, Progress, NothingToAdd
    <2>2. CASE graph' = CompleteGraph /\ End(i, "created")
        <3>1. Complete'
            BY <2>1, <2>2 DEF Complete, Done, GraphStep, Resources
        <3>2. QED
            BY <1>0, <2>1, <2>2, <3>1 DEF End, TypeOK, Ready, Progress, NothingToAdd
    <2>3. CASE End(i, "failed")
        BY <1>a, <2>1, <2>3 DEF End
    <2>4. QED
        BY <1>4, <2>2, <2>3 DEF CreateGraph
<1>5. CASE EnsureDefinition(i)
    <2> DEFINE d == Definitions[position[i] - GraphStep]
    <2>1. /\ d \in EdgeDefinitions /\ position[i] \in Nat /\ GraphStep < position[i]
          /\ result[i] = Null /\ UNCHANGED <<db, noop>>
          /\ Done(position[i]) /\ GraphDone(i)
        BY <1>0, <1>5, AtStep DEF EnsureDefinition, Running, Progress
    <2>2. graph \in Graphs /\ existing[i] \in Graphs
        BY <1>0, <2>1 DEF GraphDone, TypeOK
    <2>3. noop[i] => existing[i].definitions[d] = "matching"
        BY <2>1 DEF NothingToAdd, CompleteGraph
    <2>4. ASSUME Advance(i), graph'.definitions[d] = "matching",
                 noop[i] => UNCHANGED changed
          PROVE  Safe(i)'
        <3>1. /\ position'[i] = position[i] + 1 /\ ~missing'[i]
              /\ UNCHANGED <<result, existing>>
            BY <1>0, <2>4 DEF Advance, TypeOK
        <3>2. /\ graph' # Null /\ ~graph'.unexpected
              /\ \A e \in EdgeDefinitions :
                    existing[i].definitions[e] # "absent"
                        => graph'.definitions[e] = existing[i].definitions[e]
            BY <2>1 DEF Grows, GraphDone
        <3>3. \A j \in DOMAIN Definitions :
                j < position[i] + 1 - GraphStep
                    => graph'.definitions[Definitions[j]] = "matching"
            BY <2>1, <2>4 DEF Grows, GraphDone
        <3>4. Done(position[i])'
            BY <2>1, <3>1 DEF Done, GraphStep
        <3>5. GraphDone(i)'
            BY <2>1, <3>1, <3>2, <3>3 DEF GraphDone
        <3>6. Progress(i)'
            BY <2>1, <3>1, <3>4, <3>5 DEF Progress
        <3>7. QED
            BY <1>0, <2>1, <2>4, <3>1, <3>6 DEF Ready, NothingToAdd
    <2>5. CASE Lacks(i, d)
        <3>1. CASE /\ graph.definitions[d] = "absent"
                   /\ graph' = [graph EXCEPT !.definitions[d] = "matching"]
                   /\ Advance(i)
            <4>1. graph'.definitions = [graph.definitions EXCEPT ![d] = "matching"]
                BY <2>1, <2>2, <3>1, DefinitionAdded
            <4>2. graph'.definitions[d] = "matching"
                BY <2>1, <2>2, <4>1 DEF Graphs
            <4>3. QED
                BY <2>3, <2>4, <2>5, <3>1, <4>2 DEF Lacks
        <3>2. CASE End(i, "failed")
            BY <1>a, <2>1, <2>3, <2>5, <3>2 DEF End, Lacks
        <3>3. QED
            BY <1>5, <2>5, <3>1, <3>2 DEF EnsureDefinition
    <2>6. CASE ~Lacks(i, d)
        <3>1. CASE existing[i].definitions[d] = "matching"
            <4>1. Advance(i) /\ UNCHANGED <<graph, changed>>
                BY <1>5, <2>6, <3>1 DEF EnsureDefinition
            <4>2. graph'.definitions[d] = "matching"
                BY <2>1, <3>1, <4>1 DEF GraphDone
            <4>3. QED
                BY <2>4, <4>1, <4>2
        <3>2. CASE existing[i].definitions[d] # "matching"
            <4>1. End(i, "failed")
                BY <1>5, <2>6, <3>2 DEF EnsureDefinition
            <4>2. QED
                BY <1>a, <2>1, <2>3, <3>2, <4>1 DEF End
        <3>3. QED
            BY <3>1, <3>2
    <2>7. QED
        BY <2>5, <2>6
<1>6. CASE Finish(i)
    <2>1. /\ result[i] = Null /\ position[i] > LastStep /\ position[i] \in Nat
          /\ UNCHANGED <<db, graph, noop>>
          /\ Done(position[i]) /\ GraphDone(i)
        BY <1>0, <1>6, AtStep DEF Finish, Running, Progress, LastStep
    <2>2. graph = CompleteGraph
        <3>1. graph \in Graphs /\ ~graph.unexpected
            BY <1>0, <2>1 DEF GraphDone, TypeOK
        <3>2. \A e \in EdgeDefinitions : graph.definitions[e] = "matching"
            BY <2>1 DEF GraphDone, EdgeDefinitions, LastStep
        <3>3. QED
            BY <3>1, <3>2, CompleteGraphParts
    <2>3. Complete
        BY <2>1, <2>2 DEF Complete, Done, GraphStep, LastStep, Resources
    <2>4. QED
        BY <1>0, <1>6, <2>1, <2>3
        DEF Finish, End, TypeOK, Ready, Progress, NothingToAdd
<1>7. CASE Restart(i)
    <2>1. /\ position'[i] = 1 /\ ~missing'[i] /\ ~changed'[i] /\ result'[i] = Null
          /\ noop'[i] = Complete /\ UNCHANGED <<db, graph>>
        BY <1>0, <1>7 DEF Restart, TypeOK
    <2>2. Progress(i)'
        BY <2>1 DEF Progress, Done, GraphStep
    <2>3. Ready(i)' => Complete'
        BY <2>1 DEF Ready
    <2>4. noop'[i] => Complete'
        BY <1>0, <2>1
    <2>5. ~(1 > GraphStep)
        BY DEF GraphStep
    <2>6. QED
        BY <2>1, <2>2, <2>3, <2>4, <2>5 DEF NothingToAdd
<1>8. CASE Crash(i)
    BY <1>8, <1>a DEF Crash, End
<1>9. QED
    BY <1>1, <1>2, <1>3, <1>4, <1>5, <1>6, <1>7, <1>8 DEF Work

(***************************************************************************)
(* IInv is inductive: what a process found or created stays as it is while *)
(* the others work, because all of them only add.                          *)
(***************************************************************************)
LEMMA TopologyInvariance ==
    Spec => []TopologyInv
<1>1. Init => TopologyInv
    <2> SUFFICES ASSUME Init
                 PROVE  TopologyInv
        OBVIOUS
    <2>1. Complete \in BOOLEAN
        BY DEF Complete
    <2>2. /\ noop \in [Initializers -> BOOLEAN]
          /\ \A i \in Initializers : noop[i] = Complete
        BY <2>1 DEF Init
    <2>3. 1 \in 1 .. (LastStep + 1) /\ ~(1 > GraphStep)
        BY Positions DEF GraphStep
    <2>4. TypeOK
        BY <2>2, <2>3, SchemaAssumption DEF Init, TypeOK
    <2>5. ReadyMeansComplete
        BY NullAssumption DEF Init, ReadyMeansComplete, Ready, Outcomes
    <2>6. NoopOnComplete
        BY DEF Init, NoopOnComplete
    <2>7. \A i \in Initializers : Progress(i) /\ NothingToAdd(i)
        <3>1. \A i \in Initializers : position[i] = 1 /\ ~missing[i]
            BY DEF Init
        <3>2. \A j \in DOMAIN Schema : ~(j < 1)
            BY Positions
        <3>3. QED
            BY <2>2, <2>3, <3>1, <3>2 DEF Progress, NothingToAdd, Done
    <2>8. QED
        BY <2>4, <2>5, <2>6, <2>7 DEF TopologyInv
<1>2. TopologyInv /\ [Next]_vars => TopologyInv'
    <2> SUFFICES ASSUME TopologyInv, [Next]_vars
                 PROVE  TopologyInv'
        OBVIOUS
    <2>1. TypeOK /\ TypeOK' /\ Grows
        BY TypeStep, EveryStepGrows DEF TopologyInv
    <2>2. \A j \in Initializers : Safe(j)
        BY DEF TopologyInv, Safe, ReadyMeansComplete, NoopOnComplete
    <2>3. ASSUME NEW j \in Initializers
          PROVE  Safe(j)'
        <3>1. CASE Idle(j)
            BY <2>1, <2>2, <3>1, OthersKeepSafe
        <3>2. CASE Work(j) \/ Crash(j)
            BY <2>1, <2>2, <3>2, ActingKeepsSafe
        <3>3. ASSUME NEW i \in Initializers, i # j, Work(i) \/ Crash(i)
              PROVE  Idle(j)
            BY <2>1, <3>3
            DEF TypeOK, Idle, Work, Inspect, Create, InspectGraph, CreateGraph,
                EnsureDefinition, Finish, Restart, Crash, Running, Advance,
                FoundMissing, End, process
        <3>4. CASE UNCHANGED vars
            BY <3>1, <3>4 DEF Idle, vars, process
        <3>5. QED
            BY <3>1, <3>2, <3>3, <3>4 DEF Next
    <2>4. QED
        BY <2>1, <2>3 DEF TopologyInv, Safe, ReadyMeansComplete, NoopOnComplete
<1>3. QED
    BY <1>1, <1>2, PTL DEF Spec

(* Type correctness of the initializers and the database. *)
THEOREM TopologyTypeCorrect == Spec => []TypeOK
<1>1. TopologyInv => TypeOK
    BY DEF TopologyInv
<1>2. QED
    BY <1>1, TopologyInvariance, PTL

(***************************************************************************)
(* However many processes race through check-then-create, wherever they    *)
(* crash and whatever they find: ensure_topology returns only on a         *)
(* complete topology, and the topology stays complete.                     *)
(***************************************************************************)
THEOREM ReadyIsComplete == Spec => []ReadyMeansComplete
<1>1. TopologyInv => ReadyMeansComplete
    BY DEF TopologyInv
<1>2. QED
    BY <1>1, TopologyInvariance, PTL

(* initialize() on a complete topology is a no-op that reports "unchanged". *)
THEOREM InitializeIsIdempotent == Spec => []NoopOnComplete
<1>1. TopologyInv => NoopOnComplete
    BY DEF TopologyInv
<1>2. QED
    BY <1>1, TopologyInvariance, PTL
-----------------------------------------------------------------------------
(***************************************************************************)
(* LocalDemo: every number of tests and every choice of faults, for the    *)
(* commands of one user.                                                   *)
(***************************************************************************)

(* What is proved of a command's steps: their section and their kind. *)
Sections == {"check", "op", "try", "diagnose", "cleanup", "forget", "finally"}

Both == {"gremlin", "collector"}

Parts == {Inspected[k] : k \in 1..5}

(* What can come to exist: the demo has no job, a session no state file. *)
CanExist(i) == Things \ (IF i THEN {"state"} ELSE {"flink image"})

Allowed(n) ==
    CASE n = "check" -> {"read", "inspect", "decide", "ensure"}
      [] n = "op" -> {"read", "ensure", "await", "ask", "forward", "close"}
      [] n = "try" -> {"read", "create", "ensure", "await", "ask", "topics", "forward", "test"}
      [] n = "diagnose" -> {"read"}
      [] n = "cleanup" -> {"read", "close", "remove", "unlink"}
      [] n = "forget" -> {"unlink"}
      [] n = "finally" -> {"close"}

DemoSteps == [op : UNION {Allowed(n) : n \in Sections}, what : SUBSET Things]

IsStepOf(i, n, s) ==
    /\ s.op \in Allowed(n)
    /\ s.what \subseteq CanExist(i)
    /\ s.op = "topics" => s.what = {"topics"}
    /\ s.op = "forward" => s.what \subseteq Both
    /\ s.op = "inspect" => s.what \subseteq Parts
    /\ n = "cleanup" /\ s.op = "read" => i  \* a session's diagnosis

Elements(q) == {q[k] : k \in DOMAIN q}

Fits(i, n, q) == q \in Seq(DemoSteps) /\ \A s \in Elements(q) : IsStepOf(i, n, s)

(* What the steps of q close, remove or, if they succeed, show to exist. *)
Closed(q) == {x \in Things : \E s \in Elements(q) : s.op = "close" /\ x \in s.what}

Erased(what) == what \cup UNION {Inside(x) : x \in what}

Covered(q) ==
    {x \in Things : \E s \in Elements(q) : s.op \in {"remove", "unlink"} /\ x \in Erased(s.what)}

Shown(q) ==
    {x \in Things : \E s \in Elements(q) :
        s.op \in {"create", "ensure", "await", "read", "topics"} /\ x \in s.what}

NoState(q) == \A s \in Elements(q) : "state" \notin s.what

StateLast(q) == \A k \in DOMAIN q : q[k].what = {"state"} => k = Len(q)

Erasing == {"remove", "unlink"}

ErasesLast(q) ==
    \A j, k \in DOMAIN q : j < k /\ q[j].op \in Erasing => q[k].op \in Erasing

CompleteOf(i) ==
    {"indexer image", "gremlin image", "kubeconfig", "arango", "redpanda", "graph",
     "topics", "events", "reader", "cluster"}
        \cup (InCluster \ (IF i THEN {} ELSE {"collector", "flink"}))

(***************************************************************************)
(* The steps are of the kinds of their section; a session and an up belong *)
(* to their variant of the environment; a session has no state to forget.  *)
(***************************************************************************)
Typed(i, c, t) ==
    /\ c \in {"none"} \cup (IF i THEN {"session"} ELSE {"up", "status", "query", "down"})
    /\ t \in [Sections -> Seq(DemoSteps)]
    /\ \A n \in Sections : Fits(i, n, t[n])
    /\ c = "none" => t = Nothing
    /\ i => t.forget = <<>>

(***************************************************************************)
(* What is open and was not lost track of will be closed, whatever fails   *)
(* before: by the finally clause or, in a session, by its cleanup, where   *)
(* nothing is removed before the forwards are closed.                      *)
(***************************************************************************)
Owed(u) == IF disturbed[u] THEN {} ELSE forwards[u]

Closer(c, t) == IF c = "session" THEN Closed(t.cleanup) ELSE Closed(t.finally)

ForwardsClose(c, t, f) ==
    /\ f \subseteq Both
    /\ f \subseteq Closer(c, t)
    /\ t.op # <<>> \/ t.try # <<>> => Both \subseteq Closer(c, t)
    /\ t.check # <<>> => f = {}
    /\ ErasesLast(t.cleanup)

(***************************************************************************)
(* What exists will be removed: a cleanup that has not started removes all *)
(* that can exist, and one that has met no fault all that does.            *)
(***************************************************************************)
ToErase(t) == Covered(t.cleanup) \cup Covered(t.forget)

SweepErases(i, c, t, w, d) ==
    /\ d \in {"none", "faultless", "faulty"}
    /\ c = "none" => d = "none"
    /\ d = "none" /\ (t.cleanup # <<>> \/ t.forget # <<>>) => CanExist(i) \subseteq ToErase(t)
    /\ d = "faultless" =>
        /\ w \subseteq ToErase(t)
        /\ t.check = <<>> /\ t.op = <<>> /\ t.try = <<>> /\ t.diagnose = <<>>
        /\ \A s \in Elements(t.cleanup) : s.op \in Erasing

(***************************************************************************)
(* What the claim of an up needs is there or comes before the claim, which *)
(* is the last step of the section.                                        *)
(***************************************************************************)
ClaimIsLast(c, t, w) ==
    c = "up" /\ t.try # <<>> =>
        /\ CompleteOf(FALSE) \subseteq w \cup Shown(t.try)
        /\ StateLast(t.try)

WorldOK(i, w) ==
    /\ w \subseteq CanExist(i)
    /\ \A x \in {"cluster", "arango", "redpanda"} : x \notin w => w \cap Inside(x) = {}

UserOK(i, c, t, f, w, d) ==
    /\ Typed(i, c, t)
    /\ ForwardsClose(c, t, f)
    /\ SweepErases(i, c, t, w, d)
    /\ ClaimIsLast(c, t, w)

(***************************************************************************)
(* One environment has one person's commands, one at a time: a session     *)
(* draws its own suffix, and with it its own names; nothing in the code    *)
(* keeps two people from the demo's environment.                           *)
(***************************************************************************)
OneUser == \A x, y \in Users : x = y

DemoShape ==
    /\ ingest \in BOOLEAN
    /\ cmd \in [Users -> {"none", "up", "down", "status", "query", "session"}]
    /\ todo \in [Users -> [Sections -> Seq(DemoSteps)]]
    /\ seen \in [Users -> SUBSET Parts]
    /\ forwards \in [Users -> SUBSET Both]
    /\ failed \in [Users -> BOOLEAN]
    /\ sweep \in [Users -> {"none", "faultless", "faulty"}]
    /\ disturbed \in [Users -> BOOLEAN]

DemoInv ==
    /\ DemoShape
    /\ WorldOK(ingest, world)
    /\ \A u \in Users : UserOK(ingest, cmd[u], todo[u], Owed(u), world, sweep[u])
-----------------------------------------------------------------------------
(* The first step of a sequence, and the steps after it. *)
LEMMA ElementsOfTail ==
    ASSUME NEW S, NEW q \in Seq(S), q # <<>>
    PROVE  /\ Head(q) \in S
           /\ Tail(q) \in Seq(S)
           /\ Elements(q) = {Head(q)} \cup Elements(Tail(q))
           /\ Len(q) = Len(Tail(q)) + 1
           /\ \A k \in DOMAIN Tail(q) : k + 1 \in DOMAIN q /\ Tail(q)[k] = q[k + 1]
           /\ 1 \in DOMAIN q /\ q[1] = Head(q)
<1>1. /\ Head(q) \in S /\ Tail(q) \in Seq(S)
      /\ Len(q) \in Nat /\ Len(q) = Len(Tail(q)) + 1 /\ Len(Tail(q)) \in Nat
      /\ DOMAIN q = 1..Len(q) /\ DOMAIN Tail(q) = 1..Len(Tail(q))
      /\ q[1] = Head(q)
      /\ \A k \in 1..Len(Tail(q)) : Tail(q)[k] = q[k + 1]
  <2>1. Len(q) \in Nat /\ Len(q) # 0 /\ DOMAIN q = 1..Len(q)
      OBVIOUS
  <2>2. Head(q) \in S /\ Head(q) = q[1]
      BY <2>1
  <2>3. Tail(q) \in Seq(S)
      BY <2>1
  <2>4. Len(Tail(q)) = Len(q) - 1
      BY <2>1
  <2>5. DOMAIN Tail(q) = 1..Len(Tail(q))
      BY <2>3
  <2>6. \A k \in 1..Len(Tail(q)) : Tail(q)[k] = q[k + 1]
      BY <2>1, <2>4
  <2> QED BY <2>1, <2>2, <2>3, <2>4, <2>5, <2>6
<1>2. \A k \in DOMAIN Tail(q) : k + 1 \in DOMAIN q /\ Tail(q)[k] = q[k + 1]
    BY <1>1
<1>3. \A k \in DOMAIN q : k = 1 \/ (k - 1 \in DOMAIN Tail(q) /\ q[k] = Tail(q)[k - 1])
    BY <1>1
<1>4. Elements(q) \subseteq {Head(q)} \cup Elements(Tail(q))
  <2> SUFFICES ASSUME NEW k \in DOMAIN q PROVE q[k] \in {Head(q)} \cup Elements(Tail(q))
      BY DEF Elements
  <2>1. CASE k = 1
      BY <1>1, <2>1
  <2>2. CASE k # 1
      BY <1>3, <2>2 DEF Elements
  <2> QED BY <2>1, <2>2
<1>5. {Head(q)} \cup Elements(Tail(q)) \subseteq Elements(q)
    BY <1>1, <1>2 DEF Elements
<1> QED BY <1>1, <1>2, <1>4, <1>5

(* The steps of a concatenation are those of its parts. *)
LEMMA ElementsOfConcat ==
    ASSUME NEW S, NEW p \in Seq(S), NEW q \in Seq(S)
    PROVE  /\ p \o q \in Seq(S)
           /\ Elements(p \o q) = Elements(p) \cup Elements(q)
<1>1. /\ p \o q \in Seq(S)
      /\ Len(p) \in Nat /\ Len(q) \in Nat
      /\ DOMAIN p = 1..Len(p) /\ DOMAIN q = 1..Len(q)
      /\ DOMAIN (p \o q) = 1..(Len(p) + Len(q))
      /\ \A k \in 1..(Len(p) + Len(q)) :
            (p \o q)[k] = IF k <= Len(p) THEN p[k] ELSE q[k - Len(p)]
    OBVIOUS
<1>2. \A k \in DOMAIN (p \o q) : (p \o q)[k] \in Elements(p) \cup Elements(q)
  <2> SUFFICES ASSUME NEW k \in DOMAIN (p \o q)
               PROVE  (p \o q)[k] \in Elements(p) \cup Elements(q)
      OBVIOUS
  <2>1. CASE k <= Len(p)
      BY <1>1, <2>1 DEF Elements
  <2>2. CASE ~ (k <= Len(p))
    <3>1. k - Len(p) \in DOMAIN q /\ (p \o q)[k] = q[k - Len(p)]
        BY <1>1, <2>2
    <3> QED BY <3>1 DEF Elements
  <2> QED BY <2>1, <2>2
<1>3. \A k \in DOMAIN p : p[k] \in Elements(p \o q)
  <2> SUFFICES ASSUME NEW k \in DOMAIN p PROVE p[k] \in Elements(p \o q)
      OBVIOUS
  <2>1. k \in DOMAIN (p \o q) /\ (p \o q)[k] = p[k]
      BY <1>1
  <2> QED BY <2>1 DEF Elements
<1>4. \A k \in DOMAIN q : q[k] \in Elements(p \o q)
  <2> SUFFICES ASSUME NEW k \in DOMAIN q PROVE q[k] \in Elements(p \o q)
      OBVIOUS
  <2>1. k + Len(p) \in DOMAIN (p \o q) /\ (p \o q)[k + Len(p)] = q[k]
      BY <1>1
  <2> QED BY <2>1 DEF Elements
<1> QED BY <1>1, <1>2, <1>3, <1>4 DEF Elements

(* Sequences that are written out. *)
LEMMA ElementsOfFew ==
    /\ Elements(<<>>) = {}
    /\ \A a : Elements(<<a>>) = {a}
    /\ \A a, b : Elements(<<a, b>>) = {a, b}
    /\ \A a, b, c : Elements(<<a, b, c>>) = {a, b, c}
    /\ \A a, b, c, d : Elements(<<a, b, c, d>>) = {a, b, c, d}
BY DEF Elements

(* The running section is the first that has steps left. *)
LEMMA SectionIsFirst ==
    ASSUME NEW u, todo[u] \in [Sections -> Seq(DemoSteps)], todo[u] # Nothing
    PROVE  /\ Section(u) \in Sections
           /\ todo[u][Section(u)] # <<>>
           /\ Section(u) # "check" => todo[u].check = <<>>
           /\ Section(u) \notin {"check", "op"} => todo[u].op = <<>>
           /\ Section(u) \notin {"check", "op", "try"} => todo[u].try = <<>>
           /\ Section(u) \in {"cleanup", "forget", "finally"} => todo[u].diagnose = <<>>
           /\ Section(u) \in {"forget", "finally"} => todo[u].cleanup = <<>>
           /\ Section(u) = "finally" => todo[u].forget = <<>>
<1> DEFINE P(k) == /\ todo[u][Order[k]] # <<>>
                   /\ \A j \in 1..(k - 1) : todo[u][Order[j]] = <<>>
<1>1. \E k \in 1..7 : todo[u][Order[k]] # <<>>
  <2>1. {Order[k] : k \in 1..7} = Sections
      BY DEF Order, Sections
  <2>2. \E n \in Sections : todo[u][n] # <<>>
      BY <2>1 DEF Nothing
  <2> QED BY <2>1, <2>2
<1>2. \E k \in 1..7 : P(k)
    BY <1>1
<1>3. PICK k \in 1..7 : Section(u) = Order[k] /\ P(k)
    BY <1>2 DEF Section
<1>4. k \in {1, 2, 3, 4, 5, 6, 7}
    OBVIOUS
<1>5. /\ Order[1] = "check" /\ Order[2] = "op" /\ Order[3] = "try"
      /\ Order[4] = "diagnose" /\ Order[5] = "cleanup" /\ Order[6] = "forget"
      /\ Order[7] = "finally"
    BY DEF Order
<1>6. /\ Section(u) = Order[k]
      /\ todo[u][Section(u)] # <<>>
      /\ \A j \in 1..7 : j < k => todo[u][Order[j]] = <<>>
    BY <1>3
<1>7. /\ 1 < k => todo[u].check = <<>>
      /\ 2 < k => todo[u].op = <<>>
      /\ 3 < k => todo[u].try = <<>>
      /\ 4 < k => todo[u].diagnose = <<>>
      /\ 5 < k => todo[u].cleanup = <<>>
      /\ 6 < k => todo[u].forget = <<>>
    BY <1>5, <1>6
<1>8. \/ k = 1 /\ Section(u) = "check"
      \/ k = 2 /\ Section(u) = "op"
      \/ k = 3 /\ Section(u) = "try"
      \/ k = 4 /\ Section(u) = "diagnose"
      \/ k = 5 /\ Section(u) = "cleanup"
      \/ k = 6 /\ Section(u) = "forget"
      \/ k = 7 /\ Section(u) = "finally"
    BY <1>4, <1>5, <1>6
<1> QED BY <1>6, <1>7, <1>8 DEF Sections

(* DemoSteps that fit a section still do when they are put together. *)
LEMMA FitsConcat ==
    \A i, n, p, q : Fits(i, n, p) /\ Fits(i, n, q) => Fits(i, n, p \o q)
BY ElementsOfConcat DEF Fits

LEMMA FitsFew ==
    /\ \A i, n : Fits(i, n, <<>>)
    /\ \A i, n, a : a \in DemoSteps /\ IsStepOf(i, n, a) => Fits(i, n, <<a>>)
<1>1. <<>> \in Seq(DemoSteps) /\ \A a \in DemoSteps : <<a>> \in Seq(DemoSteps)
    OBVIOUS
<1> QED BY <1>1, ElementsOfFew DEF Fits

(* When a single step fits a section. *)
LEMMA StepIs ==
    ASSUME NEW i \in BOOLEAN, NEW n \in Sections, NEW o \in Allowed(n),
           NEW what \in SUBSET CanExist(i),
           o = "topics" => what = {"topics"},
           o = "forward" => what \subseteq Both,
           o = "inspect" => what \subseteq Parts,
           n = "cleanup" /\ o = "read" => i
    PROVE  Fits(i, n, <<Step(o, what)>>)
<1>1. Step(o, what).op = o /\ Step(o, what).what = what
    BY DEF Step
<1>2. Step(o, what) \in DemoSteps
    BY DEF Step, DemoSteps, CanExist
<1>3. IsStepOf(i, n, Step(o, what))
    BY <1>1 DEF IsStepOf
<1> QED BY <1>2, <1>3, FitsFew

(* What a sequence closes, clears and shows is what its parts do. *)
LEMMA EffectsOfConcat ==
    ASSUME NEW p \in Seq(DemoSteps), NEW q \in Seq(DemoSteps)
    PROVE  /\ Closed(p \o q) = Closed(p) \cup Closed(q)
           /\ Covered(p \o q) = Covered(p) \cup Covered(q)
           /\ Shown(p \o q) = Shown(p) \cup Shown(q)
<1>1. Elements(p \o q) = Elements(p) \cup Elements(q)
    BY ElementsOfConcat
<1> QED BY <1>1 DEF Closed, Covered, Shown

(* What a single step closes, clears or shows. *)
LEMMA EffectsOfOne ==
    /\ Closed(<<>>) = {} /\ Covered(<<>>) = {} /\ Shown(<<>>) = {}
    /\ \A o, what :
        /\ o = "close" => Closed(<<Step(o, what)>>) = what \cap Things
        /\ o \in {"remove", "unlink"} => Covered(<<Step(o, what)>>) = Erased(what) \cap Things
        /\ o \in {"create", "ensure", "await", "read", "topics"} =>
            Shown(<<Step(o, what)>>) = what \cap Things
<1>1. Closed(<<>>) = {} /\ Covered(<<>>) = {} /\ Shown(<<>>) = {}
    BY ElementsOfFew DEF Closed, Covered, Shown
<1>2. ASSUME NEW o, NEW what
      PROVE  /\ o = "close" => Closed(<<Step(o, what)>>) = what \cap Things
             /\ o \in {"remove", "unlink"} =>
                    Covered(<<Step(o, what)>>) = Erased(what) \cap Things
             /\ o \in {"create", "ensure", "await", "read", "topics"} =>
                    Shown(<<Step(o, what)>>) = what \cap Things
  <2>1. Elements(<<Step(o, what)>>) = {Step(o, what)}
      BY ElementsOfFew
  <2>2. Step(o, what).op = o /\ Step(o, what).what = what
      BY DEF Step
  <2>3. o = "close" => Closed(<<Step(o, what)>>) = what \cap Things
      BY <2>1, <2>2 DEF Closed
  <2>4. o \in {"remove", "unlink"} => Covered(<<Step(o, what)>>) = Erased(what) \cap Things
      BY <2>1, <2>2 DEF Covered
  <2>5. o \in {"create", "ensure", "await", "read", "topics"} =>
            Shown(<<Step(o, what)>>) = what \cap Things
      BY <2>1, <2>2 DEF Shown
  <2> QED BY <2>3, <2>4, <2>5
<1> QED BY <1>1, <1>2

(* What goes with a thing is among the things. *)
LEMMA ErasedAreThings ==
    ASSUME NEW what \in SUBSET Things
    PROVE  Erased(what) \subseteq Things
<1>1. Inside("cluster") \cup Inside("arango") \cup Inside("redpanda") \subseteq Things
    BY DEF Things
<1>2. ASSUME NEW x PROVE Inside(x) \subseteq Things
  <2>1. CASE x \in {"cluster", "arango", "redpanda"}
      BY <1>1, <2>1
  <2>2. CASE x \notin {"cluster", "arango", "redpanda"}
      BY <2>2 DEF Inside
  <2> QED BY <2>1, <2>2
<1> QED BY <1>2 DEF Erased

(* What the first step leaves to the others to close, clear and show. *)
LEMMA EffectsOfTail ==
    ASSUME NEW q \in Seq(DemoSteps), q # <<>>
    PROVE  LET h == Head(q)
           IN  /\ Closed(q) = Closed(Tail(q)) \cup (IF h.op = "close" THEN h.what ELSE {})
               /\ Covered(q) = Covered(Tail(q))
                    \cup (IF h.op \in {"remove", "unlink"} THEN Erased(h.what) ELSE {})
               /\ Shown(q) = Shown(Tail(q))
                    \cup (IF h.op \in {"create", "ensure", "await", "read", "topics"}
                         THEN h.what ELSE {})
<1>1. Elements(q) = {Head(q)} \cup Elements(Tail(q)) /\ Head(q) \in DemoSteps
    BY ElementsOfTail
<1>2. Head(q).what \subseteq Things
    BY <1>1 DEF DemoSteps
<1>3. Erased(Head(q).what) \subseteq Things
    BY <1>2, ErasedAreThings
<1>4. Closed(q) = Closed(Tail(q)) \cup (IF Head(q).op = "close" THEN Head(q).what ELSE {})
    BY <1>1, <1>2 DEF Closed
<1>5. Covered(q) = Covered(Tail(q))
        \cup (IF Head(q).op \in {"remove", "unlink"} THEN Erased(Head(q).what) ELSE {})
    BY <1>1, <1>3 DEF Covered
<1>6. Shown(q) = Shown(Tail(q))
        \cup (IF Head(q).op \in {"create", "ensure", "await", "read", "topics"}
             THEN Head(q).what ELSE {})
    BY <1>1, <1>2 DEF Shown
<1> QED BY <1>4, <1>5, <1>6

(* A sequence of one fits as its step does. *)
LEMMA FitsOne ==
    \A i, n, a : Fits(i, n, <<a>>) => a \in DemoSteps /\ IsStepOf(i, n, a)
<1> SUFFICES ASSUME NEW i, NEW n, NEW a, Fits(i, n, <<a>>)
             PROVE  a \in DemoSteps /\ IsStepOf(i, n, a)
    OBVIOUS
<1>1. <<a>> \in Seq(DemoSteps) /\ a \in Elements(<<a>>)
    BY ElementsOfFew DEF Fits
<1>2. a \in DemoSteps
    BY <1>1
<1> QED BY <1>1, <1>2 DEF Fits

-----------------------------------------------------------------------------
(* The scripts *)

LEMMA Vocabulary ==
    /\ CanExist(TRUE) = Things \ {"state"}
    /\ CanExist(FALSE) = Things \ {"flink image"}
    /\ Both \subseteq CanExist(TRUE) /\ Both \subseteq CanExist(FALSE)
    /\ InCluster \subseteq CanExist(TRUE) /\ InCluster \subseteq CanExist(FALSE)
    /\ \A i \in BOOLEAN :
        {"indexer image", "gremlin image", "cluster", "arango", "redpanda", "kubeconfig",
         "reader", "graph", "topics", "metrics", "events", "loaded images", "namespace",
         "arango service", "redpanda service", "writer secret", "reader secret",
         "indexer", "gremlin", "collector", "flink"} \subseteq CanExist(i)
BY DEF CanExist, Things, Inside, InCluster, Both

(* Provisioning shows all that an up claims but the seeded graph, not the file. *)
LEMMA ProvisionIs ==
    ASSUME ingest \in BOOLEAN
    PROVE  /\ Fits(ingest, "try", Provision) /\ NoState(Provision)
           /\ {"indexer image", "gremlin image", "kubeconfig", "arango", "redpanda",
               "topics", "reader", "cluster"} \subseteq Shown(Provision)
           /\ InCluster \ (IF ingest THEN {} ELSE {"collector", "flink"})
                \subseteq Shown(Provision)
<1> DEFINE G(q, X) == Fits(ingest, "try", q) /\ X \subseteq Shown(q) /\ NoState(q)
           Known == CanExist(ingest) \ {"state"}
<1>1. ASSUME NEW o \in {"create", "ensure", "await", "read"}, NEW what \in SUBSET Known
      PROVE  G(<<Step(o, what)>>, what)
  <2>1. o \in Allowed("try") /\ o # "topics" /\ o # "forward" /\ "try" \in Sections
      BY DEF Allowed, Sections
  <2>2. what \subseteq Things
      BY DEF CanExist
  <2>3. Fits(ingest, "try", <<Step(o, what)>>)
      BY <2>1, StepIs
  <2>4. Shown(<<Step(o, what)>>) = what \cap Things
      BY EffectsOfOne
  <2>5. NoState(<<Step(o, what)>>)
      BY ElementsOfFew DEF NoState, Step
  <2> QED BY <2>2, <2>3, <2>4, <2>5
<1>2. ASSUME NEW x \in Known PROVE G(<<Ensure(x)>>, {x}) /\ G(<<Await(x)>>, {x})
  <2>1. {x} \in SUBSET Known
      OBVIOUS
  <2> HIDE DEF G, Known
  <2> QED BY <1>1, <2>1 DEF Ensure, Await
<1>3. ASSUME NEW what \in SUBSET Known PROVE G(<<New(what)>>, what)
  <2> HIDE DEF G, Known
  <2> QED BY <1>1 DEF New
<1>4. G(<<>>, {})
    BY FitsFew, ElementsOfFew DEF NoState
<1>5. ASSUME NEW p, NEW q, NEW X, NEW Y, G(p, X), G(q, Y)
      PROVE  G(p \o q, X \cup Y)
  <2>1. p \in Seq(DemoSteps) /\ q \in Seq(DemoSteps)
      BY <1>5 DEF Fits
  <2>2. Fits(ingest, "try", p \o q)
      BY <1>5, FitsConcat
  <2>3. Shown(p \o q) = Shown(p) \cup Shown(q)
      BY <2>1, EffectsOfConcat
  <2>4. NoState(p \o q)
      BY <1>5, <2>1, ElementsOfConcat DEF NoState
  <2> QED BY <1>5, <2>2, <2>3, <2>4
<1>6. ASSUME NEW a, NEW b, NEW X, NEW Y,
             G(<<a>>, X), G(<<b>>, Y)
      PROVE  G(<<a, b>>, X \cup Y)
  <2>1. /\ Elements(<<a>>) = {a} /\ Elements(<<b>>) = {b}
        /\ Elements(<<a, b>>) = {a, b}
      BY ElementsOfFew
  <2>2. Fits(ingest, "try", <<a>>) /\ Fits(ingest, "try", <<b>>)
      BY <1>6
  <2>3. /\ a \in DemoSteps /\ b \in DemoSteps
        /\ \A s \in {a, b} : IsStepOf(ingest, "try", s)
      BY <2>2, FitsOne
  <2>4. <<a, b>> \in Seq(DemoSteps)
      BY <2>3
  <2>5. Fits(ingest, "try", <<a, b>>)
      BY <2>1, <2>3, <2>4 DEF Fits
  <2>6. Shown(<<a, b>>) = Shown(<<a>>) \cup Shown(<<b>>)
      BY <2>1 DEF Shown
  <2>7. NoState(<<a, b>>)
      BY <1>6, <2>1 DEF NoState
  <2> QED BY <1>6, <2>5, <2>6, <2>7
<1>7. ASSUME NEW a, NEW b, NEW c, NEW d, NEW W, NEW X, NEW Y, NEW Z,
             G(<<a>>, W), G(<<b>>, X), G(<<c>>, Y), G(<<d>>, Z)
      PROVE  G(<<a, b, c, d>>, W \cup X \cup Y \cup Z)
  <2>1. /\ Elements(<<a>>) = {a} /\ Elements(<<b>>) = {b}
        /\ Elements(<<c>>) = {c} /\ Elements(<<d>>) = {d}
        /\ Elements(<<a, b, c, d>>) = {a, b, c, d}
    <3>1. Elements(<<a, b, c, d>>) = {a, b, c, d}
        BY DEF Elements
    <3> QED BY <3>1, ElementsOfFew
  <2>2. /\ Fits(ingest, "try", <<a>>) /\ Fits(ingest, "try", <<b>>)
        /\ Fits(ingest, "try", <<c>>) /\ Fits(ingest, "try", <<d>>)
      BY <1>7
  <2>3. /\ a \in DemoSteps /\ b \in DemoSteps /\ c \in DemoSteps /\ d \in DemoSteps
        /\ \A s \in {a, b, c, d} : IsStepOf(ingest, "try", s)
      BY <2>2, FitsOne
  <2>4. <<a, b, c, d>> \in Seq(DemoSteps)
      BY <2>3
  <2>5. Fits(ingest, "try", <<a, b, c, d>>)
      BY <2>1, <2>3, <2>4 DEF Fits
  <2>6. Shown(<<a, b, c, d>>) = Shown(<<a>>) \cup Shown(<<b>>) \cup Shown(<<c>>) \cup Shown(<<d>>)
      BY <2>1 DEF Shown
  <2>7. NoState(<<a, b, c, d>>)
      BY <1>7, <2>1 DEF NoState
  <2> QED BY <1>7, <2>5, <2>6, <2>7
<1>8. G(<<Step("topics", {"topics"})>>, {"topics"})
  <2>1. "topics" \in Allowed("try") /\ "try" \in Sections
      BY DEF Allowed, Sections
  <2>2. {"topics"} \in SUBSET CanExist(ingest) /\ {"topics"} \subseteq Things
      BY Vocabulary DEF CanExist
  <2>3. Fits(ingest, "try", <<Step("topics", {"topics"})>>)
      BY <2>1, <2>2, StepIs
  <2>4. Shown(<<Step("topics", {"topics"})>>) = {"topics"} \cap Things
      BY EffectsOfOne
  <2>5. NoState(<<Step("topics", {"topics"})>>)
      BY ElementsOfFew DEF NoState, Step
  <2> QED BY <2>2, <2>3, <2>4, <2>5
<1>9. G(<<Step("forward", {"gremlin"})>>, {})
  <2>1. "forward" \in Allowed("try") /\ "try" \in Sections
      BY DEF Allowed, Sections
  <2>2. {"gremlin"} \in SUBSET CanExist(ingest) /\ {"gremlin"} \subseteq Both
      BY Vocabulary DEF Both
  <2>3. NoState(<<Step("forward", {"gremlin"})>>)
      BY ElementsOfFew DEF NoState, Step
  <2> QED BY <2>1, <2>2, <2>3, StepIs
<1>10. /\ {"indexer image", "gremlin image", "arango", "redpanda", "topics", "reader",
           "loaded images", "arango service", "redpanda service", "writer secret",
           "reader secret", "indexer", "gremlin", "collector", "flink"} \subseteq Known
       /\ {"cluster"} \in SUBSET Known /\ "kubeconfig" \in Known
       /\ {"namespace"} \in SUBSET Known /\ {"arango"} \in SUBSET Known
       /\ {"redpanda"} \in SUBSET Known /\ {} \in SUBSET Known
       /\ ingest => "flink image" \in Known
  <2>1. /\ {"indexer image", "gremlin image", "arango", "redpanda", "topics", "reader",
             "loaded images", "arango service", "redpanda service", "writer secret",
             "reader secret", "indexer", "gremlin", "collector", "flink"} \subseteq Known
        /\ {"cluster", "kubeconfig", "namespace", "arango", "redpanda"} \subseteq Known
    <3> DEFINE Words ==
                 {"indexer image", "gremlin image", "arango", "redpanda", "topics", "reader",
                  "loaded images", "arango service", "redpanda service", "writer secret",
                  "reader secret", "indexer", "gremlin", "collector", "flink", "cluster",
                  "kubeconfig", "namespace"}
    <3>1. Words \subseteq CanExist(ingest)
        BY Vocabulary
    <3>2. "state" \notin Words
        OBVIOUS
    <3>3. Words \subseteq Known
        BY <3>1, <3>2
    <3> HIDE DEF Known
    <3> QED BY <3>3
  <2>2. ingest => "flink image" \in Known
      BY DEF CanExist, Things
  <2> QED BY <2>1, <2>2
<1> HIDE DEF G, Known
<1>11. G(<<Step("read", {})>>, {})
    BY <1>1, <1>10
<1>12. G(BuildImages, {"indexer image"} \cup {} \cup {"gremlin image"})
  <2>1. G(IF ingest THEN <<Ensure("flink image")>> ELSE <<>>, {})
    <3>1. CASE ingest
      <4>1. G(<<Ensure("flink image")>>, {"flink image"})
          BY <1>2, <1>10, <3>1
      <4> QED BY <3>1, <4>1 DEF G
    <3>2. CASE ~ ingest
        BY <1>4, <3>2
    <3> QED BY <3>1, <3>2
  <2>2. G(<<Ensure("indexer image")>>, {"indexer image"})
      BY <1>2, <1>10
  <2>3. G(<<Ensure("gremlin image")>>, {"gremlin image"})
      BY <1>2, <1>10
  <2>4. G(<<Ensure("indexer image")>> \o (IF ingest THEN <<Ensure("flink image")>> ELSE <<>>),
          {"indexer image"} \cup {})
      BY <1>5, <2>1, <2>2
  <2> QED BY <1>5, <2>3, <2>4 DEF BuildImages
<1>13. G(CreateCluster,
         {"cluster"} \cup {"kubeconfig"} \cup {"loaded images"} \cup {"namespace"})
  <2>1. G(<<New({"cluster"})>>, {"cluster"}) /\ G(<<New({"namespace"})>>, {"namespace"})
      BY <1>3, <1>10
  <2>2. /\ G(<<Ensure("kubeconfig")>>, {"kubeconfig"})
        /\ G(<<Ensure("loaded images")>>, {"loaded images"})
      BY <1>2, <1>10
  <2> QED BY <1>7, <2>1, <2>2 DEF CreateCluster
<1>14. G(StartArangodb, {"arango"} \cup {"arango service"} \cup {"arango"})
  <2>1. G(<<New({"arango"})>>, {"arango"}) /\ G(<<Await("arango")>>, {"arango"})
      BY <1>2, <1>3, <1>10
  <2>2. G(Expose("arango service"), {"arango service"})
      BY <1>2, <1>10 DEF Expose
  <2>3. G(<<New({"arango"})>> \o Expose("arango service"), {"arango"} \cup {"arango service"})
      BY <1>5, <2>1, <2>2
  <2> QED BY <1>5, <2>1, <2>3 DEF StartArangodb
<1>15. G(StartRedpanda, {"redpanda"} \cup {"redpanda service"} \cup {"topics"})
  <2>1. G(<<New({"redpanda"})>>, {"redpanda"})
      BY <1>3, <1>10
  <2>2. G(Expose("redpanda service"), {"redpanda service"})
      BY <1>2, <1>10 DEF Expose
  <2>3. G(<<New({"redpanda"})>> \o Expose("redpanda service"),
          {"redpanda"} \cup {"redpanda service"})
      BY <1>5, <2>1, <2>2
  <2> QED BY <1>5, <1>8, <2>3 DEF StartRedpanda
<1>16. /\ G(Secret("writer secret"), {"writer secret"})
       /\ G(Secret("reader secret"), {"reader secret"})
       /\ G(InstallIndexer, {"indexer"})
       /\ G(CreateReadOnlyUser, {"reader"})
       /\ G(InstallGremlin, {"gremlin"})
  <2>1. \A x \in {"writer secret", "reader secret", "indexer", "reader", "gremlin"} :
            G(<<Ensure(x)>>, {x})
      BY <1>2, <1>10
  <2> QED BY <2>1 DEF Secret, InstallIndexer, CreateReadOnlyUser, InstallGremlin
<1>17. G(IF ingest THEN InstallIngestPipeline ELSE <<>>,
         IF ingest THEN {"collector"} \cup {"flink"} ELSE {})
  <2>1. G(<<Ensure("collector")>>, {"collector"}) /\ G(<<Ensure("flink")>>, {"flink"})
      BY <1>2, <1>10
  <2>2. G(InstallIngestPipeline, {"collector"} \cup {"flink"})
      BY <1>6, <2>1 DEF InstallIngestPipeline
  <2> QED BY <1>4, <2>2
<1>18. G(StartGremlinForward, {} \cup {"gremlin"})
  <2>1. G(<<Await("gremlin")>>, {"gremlin"})
      BY <1>2, <1>10
  <2> QED BY <1>6, <1>9, <2>1 DEF StartGremlinForward, StartForward
<1> DEFINE P1 == <<Step("read", {})>> \o BuildImages
           X1 == {} \cup ({"indexer image"} \cup {} \cup {"gremlin image"})
           P2 == P1 \o CreateCluster
           X2 == X1 \cup ({"cluster"} \cup {"kubeconfig"} \cup {"loaded images"}
                            \cup {"namespace"})
           P3 == P2 \o StartArangodb
           X3 == X2 \cup ({"arango"} \cup {"arango service"} \cup {"arango"})
           P4 == P3 \o StartRedpanda
           X4 == X3 \cup ({"redpanda"} \cup {"redpanda service"} \cup {"topics"})
           P5 == P4 \o Secret("writer secret")
           X5 == X4 \cup {"writer secret"}
           P6 == P5 \o InstallIndexer
           X6 == X5 \cup {"indexer"}
           P7 == P6 \o (IF ingest THEN InstallIngestPipeline ELSE <<>>)
           X7 == X6 \cup (IF ingest THEN {"collector"} \cup {"flink"} ELSE {})
           P8 == P7 \o CreateReadOnlyUser
           X8 == X7 \cup {"reader"}
           P9 == P8 \o Secret("reader secret")
           X9 == X8 \cup {"reader secret"}
           P10 == P9 \o InstallGremlin
           X10 == X9 \cup {"gremlin"}
<1>19. G(P4, X4)
  <2>1. G(P1, X1) BY <1>5, <1>11, <1>12
  <2>2. G(P2, X2) BY <1>5, <1>13, <2>1
  <2>3. G(P3, X3) BY <1>5, <1>14, <2>2
  <2> QED BY <1>5, <1>15, <2>3
<1>20. G(P10, X10)
  <2>1. G(P5, X5) BY <1>5, <1>16, <1>19
  <2>2. G(P6, X6) BY <1>5, <1>16, <2>1
  <2>3. G(P7, X7) BY <1>5, <1>17, <2>2
  <2>4. G(P8, X8) BY <1>5, <1>16, <2>3
  <2>5. G(P9, X9) BY <1>5, <1>16, <2>4
  <2> QED BY <1>5, <1>16, <2>5
<1>21. G(Provision, X10 \cup ({} \cup {"gremlin"}))
    BY <1>5, <1>18, <1>20 DEF Provision
<1>22. {"indexer image", "gremlin image", "kubeconfig", "arango", "redpanda", "topics",
        "reader", "cluster"} \subseteq X10
    OBVIOUS
<1>23. InCluster \ (IF ingest THEN {} ELSE {"collector", "flink"}) \subseteq X10
    BY DEF InCluster
<1> HIDE DEF X10
<1> QED BY <1>21, <1>22, <1>23 DEF G

(* Steps that remove may follow any, and any may follow those that do not. *)
LEMMA ErasingComesLast ==
    ASSUME NEW p \in Seq(DemoSteps), NEW q \in Seq(DemoSteps),
           \/ ErasesLast(p) /\ \A s \in Elements(q) : s.op \in Erasing
           \/ ErasesLast(q) /\ \A s \in Elements(p) : s.op \notin Erasing
    PROVE  ErasesLast(p \o q)
<1>1. /\ Len(p) \in Nat /\ Len(q) \in Nat
      /\ DOMAIN p = 1..Len(p) /\ DOMAIN q = 1..Len(q)
      /\ DOMAIN (p \o q) = 1..(Len(p) + Len(q))
      /\ \A k \in 1..(Len(p) + Len(q)) :
            (p \o q)[k] = IF k <= Len(p) THEN p[k] ELSE q[k - Len(p)]
    OBVIOUS
<1>2. SUFFICES ASSUME NEW j \in DOMAIN (p \o q), NEW k \in DOMAIN (p \o q),
                      j < k, (p \o q)[j].op \in Erasing
               PROVE  (p \o q)[k].op \in Erasing
    BY DEF ErasesLast
<1>3. CASE k <= Len(p)
  <2>1. /\ j \in DOMAIN p /\ k \in DOMAIN p
        /\ (p \o q)[j] = p[j] /\ (p \o q)[k] = p[k]
      BY <1>1, <1>2, <1>3
  <2>2. p[j] \in Elements(p)
      BY <2>1 DEF Elements
  <2> QED BY <1>2, <2>1, <2>2 DEF ErasesLast
<1>4. CASE ~ (k <= Len(p)) /\ j <= Len(p)
  <2>1. /\ j \in DOMAIN p /\ (p \o q)[j] = p[j]
        /\ k - Len(p) \in DOMAIN q /\ (p \o q)[k] = q[k - Len(p)]
      BY <1>1, <1>2, <1>4
  <2>2. p[j] \in Elements(p) /\ q[k - Len(p)] \in Elements(q)
      BY <2>1 DEF Elements
  <2> QED BY <1>2, <2>1, <2>2
<1>5. CASE ~ (k <= Len(p)) /\ ~ (j <= Len(p))
  <2>1. /\ j - Len(p) \in DOMAIN q /\ (p \o q)[j] = q[j - Len(p)]
        /\ k - Len(p) \in DOMAIN q /\ (p \o q)[k] = q[k - Len(p)]
        /\ j - Len(p) < k - Len(p)
      BY <1>1, <1>2, <1>5
  <2>2. q[k - Len(p)] \in Elements(q)
      BY <2>1 DEF Elements
  <2> QED BY <1>2, <2>1, <2>2 DEF ErasesLast
<1> QED BY <1>3, <1>4, <1>5

(* The claim comes last when nothing before it is the claim. *)
LEMMA StateComesLast ==
    ASSUME NEW p \in Seq(DemoSteps), NEW a \in DemoSteps, NoState(p)
    PROVE  StateLast(p \o <<a>>)
<1>1. /\ Len(p) \in Nat /\ DOMAIN p = 1..Len(p)
      /\ Len(p \o <<a>>) = Len(p) + 1
      /\ DOMAIN (p \o <<a>>) = 1..(Len(p) + 1)
      /\ \A k \in 1..Len(p) : (p \o <<a>>)[k] = p[k]
    OBVIOUS
<1>2. SUFFICES ASSUME NEW k \in DOMAIN (p \o <<a>>), (p \o <<a>>)[k].what = {"state"},
                      k # Len(p \o <<a>>)
               PROVE  FALSE
    BY DEF StateLast
<1>3. k \in DOMAIN p /\ (p \o <<a>>)[k] = p[k]
    BY <1>1, <1>2
<1>4. p[k] \in Elements(p)
    BY <1>3 DEF Elements
<1> QED BY <1>2, <1>3, <1>4 DEF NoState

(* Closing the forwards closes both. *)
LEMMA CloseForwardsIs ==
    /\ \A i \in BOOLEAN : \A n \in {"cleanup", "finally"} : Fits(i, n, CloseForwards)
    /\ Closed(CloseForwards) = Both
    /\ ErasesLast(CloseForwards)
<1> DEFINE a == Step("close", {"collector"})
           b == Step("close", {"gremlin"})
<1>1. CloseForwards = <<a, b>>
    BY DEF CloseForwards
<1>2. /\ a.op = "close" /\ a.what = {"collector"}
      /\ b.op = "close" /\ b.what = {"gremlin"}
    BY DEF Step
<1>3. {"collector"} \in SUBSET Things /\ {"gremlin"} \in SUBSET Things
    BY Vocabulary DEF CanExist
<1>4. "close" \in UNION {Allowed(n) : n \in Sections}
    BY DEF Allowed, Sections
<1>5. a \in DemoSteps /\ b \in DemoSteps
    BY <1>3, <1>4 DEF DemoSteps, Step
<1> HIDE DEF a, b
<1>6. <<a, b>> \in Seq(DemoSteps)
    BY <1>5
<1>7. Elements(<<a, b>>) = {a, b}
    BY DEF Elements
<1>8. ASSUME NEW i \in BOOLEAN, NEW n \in {"cleanup", "finally"}
      PROVE  Fits(i, n, <<a, b>>)
  <2>1. "close" \in Allowed(n)
      BY DEF Allowed
  <2>2. {"collector"} \subseteq CanExist(i) /\ {"gremlin"} \subseteq CanExist(i)
      BY Vocabulary
  <2> QED BY <1>2, <1>6, <1>7, <2>1, <2>2 DEF Fits, IsStepOf
<1>9. Closed(<<a, b>>) = Both
    BY <1>2, <1>3, <1>7 DEF Closed, Both
<1>10. \A k \in DOMAIN <<a, b>> : <<a, b>>[k].op \notin Erasing
    BY <1>2 DEF Erasing
<1>11. ErasesLast(<<a, b>>)
    BY <1>10 DEF ErasesLast
<1> QED BY <1>1, <1>8, <1>9, <1>11

(* What a step that removes or unlinks adds to a cleanup. *)
LEMMA ErasingIs ==
    ASSUME NEW i \in BOOLEAN, NEW n \in {"cleanup", "forget"}, NEW o \in Erasing,
           o \in Allowed(n), NEW what \in SUBSET CanExist(i)
    PROVE  /\ Fits(i, n, <<Step(o, what)>>)
           /\ Step(o, what) \in DemoSteps
           /\ IsStepOf(i, n, Step(o, what))
           /\ Step(o, what).op \in Erasing
           /\ Step(o, what).what = what
           /\ Covered(<<Step(o, what)>>) = Erased(what)
<1>1. /\ n \in Sections /\ o \in {"remove", "unlink"}
      /\ o # "topics" /\ o # "forward" /\ o # "inspect" /\ o # "read"
    BY DEF Sections, Erasing
<1>2. Fits(i, n, <<Step(o, what)>>)
  <2>1. /\ o = "topics" => what = {"topics"}
        /\ o = "forward" => what \subseteq Both
        /\ o = "inspect" => what \subseteq Parts
        /\ n = "cleanup" /\ o = "read" => i
      BY <1>1
  <2> QED BY <1>1, <2>1, StepIs
<1>3. Erased(what) \subseteq Things /\ what \subseteq Things
  <2>1. what \subseteq Things
      BY DEF CanExist
  <2> QED BY <2>1, ErasedAreThings
<1>4. Covered(<<Step(o, what)>>) = Erased(what) \cap Things
    BY <1>1, EffectsOfOne
<1>5. Step(o, what) \in DemoSteps /\ IsStepOf(i, n, Step(o, what))
    BY <1>2, FitsOne
<1>6. Step(o, what).op = o /\ Step(o, what).what = what
    BY DEF Step
<1> QED BY <1>2, <1>3, <1>4, <1>5, <1>6

(* A cleanup closes both forwards and removes all but the state file. *)
LEMMA CleanupIs ==
    ASSUME ingest \in BOOLEAN
    PROVE  /\ Fits(ingest, "cleanup", Cleanup)
           /\ Both \subseteq Closed(Cleanup)
           /\ ErasesLast(Cleanup)
           /\ CanExist(ingest) \ {"state"} \subseteq Covered(Cleanup)
<1> DEFINE a == Remove({"arango", "redpanda"})
           b == Remove({"cluster"})
           c == Remove({"indexer image"})
           d == Remove({"gremlin image"})
           R == <<a, b, c, d>>
           I == IF ingest THEN <<Remove({"flink image"})>> ELSE <<>>
           K == <<Unlink("kubeconfig")>>
           Q(q) == /\ Fits(ingest, "cleanup", q)
                   /\ \A s \in Elements(q) : s.op \in Erasing
<1>1. /\ "remove" \in Allowed("cleanup") /\ "unlink" \in Allowed("cleanup")
      /\ "remove" \in Erasing /\ "unlink" \in Erasing
    BY DEF Allowed, Erasing
<1>2. ASSUME NEW what \in SUBSET CanExist(ingest)
      PROVE  /\ Q(<<Remove(what)>>)
             /\ Covered(<<Remove(what)>>) = Erased(what)
             /\ Remove(what) \in DemoSteps /\ IsStepOf(ingest, "cleanup", Remove(what))
             /\ Remove(what).op = "remove" /\ Remove(what).what = what
  <2>1. Elements(<<Step("remove", what)>>) = {Step("remove", what)}
      BY ElementsOfFew
  <2>2. Step("remove", what).op = "remove"
      BY DEF Step
  <2>3. /\ Fits(ingest, "cleanup", <<Step("remove", what)>>)
        /\ Step("remove", what) \in DemoSteps
        /\ IsStepOf(ingest, "cleanup", Step("remove", what))
        /\ Step("remove", what).what = what
        /\ Covered(<<Step("remove", what)>>) = Erased(what)
      BY <1>1, ErasingIs
  <2> QED BY <1>1, <2>1, <2>2, <2>3 DEF Remove
<1>3. /\ {"arango", "redpanda"} \in SUBSET CanExist(ingest)
      /\ {"cluster"} \in SUBSET CanExist(ingest)
      /\ {"indexer image"} \in SUBSET CanExist(ingest)
      /\ {"gremlin image"} \in SUBSET CanExist(ingest)
      /\ {"kubeconfig"} \in SUBSET CanExist(ingest)
      /\ ingest => {"flink image"} \in SUBSET CanExist(ingest)
    BY Vocabulary DEF CanExist, Things
<1>4. /\ Q(K) /\ Covered(K) = Erased({"kubeconfig"})
  <2>1. Elements(<<Step("unlink", {"kubeconfig"})>>) = {Step("unlink", {"kubeconfig"})}
      BY ElementsOfFew
  <2>2. Step("unlink", {"kubeconfig"}).op = "unlink"
      BY DEF Step
  <2>3. /\ Fits(ingest, "cleanup", <<Step("unlink", {"kubeconfig"})>>)
        /\ Covered(<<Step("unlink", {"kubeconfig"})>>) = Erased({"kubeconfig"})
      BY <1>1, <1>3, ErasingIs
  <2> QED BY <1>1, <2>1, <2>2, <2>3 DEF Unlink
<1>5. /\ Q(R)
      /\ {"arango", "redpanda", "cluster", "indexer image", "gremlin image"}
            \cup Inside("arango") \cup Inside("redpanda") \cup Inside("cluster")
            \subseteq Covered(R)
  <2>1. /\ a \in DemoSteps /\ IsStepOf(ingest, "cleanup", a) /\ a.op = "remove"
        /\ a.what = {"arango", "redpanda"}
        /\ b \in DemoSteps /\ IsStepOf(ingest, "cleanup", b) /\ b.op = "remove"
        /\ b.what = {"cluster"}
        /\ c \in DemoSteps /\ IsStepOf(ingest, "cleanup", c) /\ c.op = "remove"
        /\ c.what = {"indexer image"}
        /\ d \in DemoSteps /\ IsStepOf(ingest, "cleanup", d) /\ d.op = "remove"
        /\ d.what = {"gremlin image"}
      BY <1>2, <1>3
  <2> HIDE DEF a, b, c, d
  <2>2. Elements(R) = {a, b, c, d}
      BY DEF Elements
  <2>3. R \in Seq(DemoSteps)
    <3>1. a \in DemoSteps /\ b \in DemoSteps /\ c \in DemoSteps /\ d \in DemoSteps
        BY <2>1
    <3> QED BY <3>1
  <2>4. Q(R)
      BY <1>1, <2>1, <2>2, <2>3 DEF Fits
  <2>5. \A s \in {a, b, c, d} : Erased(s.what) \cap Things \subseteq Covered(R)
      BY <2>1, <2>2 DEF Covered
  <2>6. {"arango", "redpanda", "cluster", "indexer image", "gremlin image"}
            \cup Inside("arango") \cup Inside("redpanda") \cup Inside("cluster")
            \subseteq Things
      BY DEF Things
  <2>7. /\ {"arango", "redpanda"} \cup Inside("arango") \cup Inside("redpanda")
                \subseteq Erased(a.what)
        /\ {"cluster"} \cup Inside("cluster") \subseteq Erased(b.what)
        /\ {"indexer image"} \subseteq Erased(c.what)
        /\ {"gremlin image"} \subseteq Erased(d.what)
      BY <2>1 DEF Erased
  <2> QED BY <2>4, <2>5, <2>6, <2>7
<1>6. Q(I) /\ (ingest => "flink image" \in Covered(I))
  <2>1. CASE ingest
    <3>1. "flink image" \in Erased({"flink image"})
        BY DEF Erased
    <3> QED BY <1>2, <1>3, <2>1, <3>1
  <2>2. CASE ~ ingest
      BY <2>2, FitsFew, ElementsOfFew
  <2> QED BY <2>1, <2>2
<1> HIDE DEF R, I, K
<1>7. ASSUME NEW p, NEW q, Fits(ingest, "cleanup", p), ErasesLast(p), Q(q)
      PROVE  /\ Fits(ingest, "cleanup", p \o q) /\ ErasesLast(p \o q)
             /\ Closed(p) \subseteq Closed(p \o q)
             /\ Covered(p) \subseteq Covered(p \o q)
             /\ Covered(q) \subseteq Covered(p \o q)
  <2>1. p \in Seq(DemoSteps) /\ q \in Seq(DemoSteps)
      BY <1>7 DEF Fits
  <2>2. Fits(ingest, "cleanup", p \o q)
      BY <1>7, FitsConcat
  <2>3. ErasesLast(p \o q)
      BY <1>7, <2>1, ErasingComesLast
  <2> QED BY <2>1, <2>2, <2>3, EffectsOfConcat
<1> HIDE DEF Q
<1> DEFINE p0 == CloseForwards
           p1 == p0 \o R
           p2 == p1 \o I
           p3 == p2 \o K
<1>8. Fits(ingest, "cleanup", p0) /\ ErasesLast(p0) /\ Both \subseteq Closed(p0)
    BY CloseForwardsIs
<1> HIDE DEF p0
<1>9. /\ Fits(ingest, "cleanup", p1) /\ ErasesLast(p1)
      /\ Both \subseteq Closed(p1) /\ Covered(R) \subseteq Covered(p1)
    BY <1>5, <1>7, <1>8
<1> HIDE DEF p1
<1>10. /\ Fits(ingest, "cleanup", p2) /\ ErasesLast(p2) /\ Both \subseteq Closed(p2)
       /\ Covered(R) \subseteq Covered(p2) /\ Covered(I) \subseteq Covered(p2)
    BY <1>6, <1>7, <1>9
<1> HIDE DEF p2
<1>11. /\ Fits(ingest, "cleanup", p3) /\ ErasesLast(p3) /\ Both \subseteq Closed(p3)
       /\ Covered(R) \subseteq Covered(p3) /\ Covered(I) \subseteq Covered(p3)
       /\ Covered(K) \subseteq Covered(p3)
    BY <1>4, <1>7, <1>10
<1>12. Cleanup = p3
    BY DEF Cleanup, p0, p1, p2, R, I, K
<1>13. "kubeconfig" \in Covered(K)
    BY <1>4 DEF Erased
<1> HIDE DEF p3
<1>14. CanExist(ingest) \ {"state"} \subseteq Covered(p3)
  <2>1. CanExist(ingest) \ {"state"} \subseteq
            {"arango", "redpanda", "cluster", "indexer image", "gremlin image", "kubeconfig"}
                \cup Inside("arango") \cup Inside("redpanda") \cup Inside("cluster")
                \cup (IF ingest THEN {"flink image"} ELSE {})
      BY DEF CanExist, Things
  <2> QED BY <1>5, <1>6, <1>11, <1>13, <2>1
<1> QED BY <1>11, <1>12, <1>14

(* The command down removes the state file as well. *)
LEMMA DownCleanupIs ==
    ASSUME ingest = FALSE
    PROVE  LET q == Cleanup \o <<Unlink("state"), Step("unlink", {"state", "kubeconfig"})>>
           IN  /\ Fits(FALSE, "cleanup", q)
               /\ ErasesLast(q)
               /\ CanExist(FALSE) \subseteq Covered(q)
<1> DEFINE a == Step("unlink", {"state"})
           b == Step("unlink", {"state", "kubeconfig"})
<1>1. /\ "unlink" \in Allowed("cleanup") /\ "unlink" \in Erasing
      /\ {"state"} \in SUBSET CanExist(FALSE)
      /\ {"state", "kubeconfig"} \in SUBSET CanExist(FALSE)
    BY DEF Allowed, Erasing, CanExist, Things
<1>2. /\ a \in DemoSteps /\ IsStepOf(FALSE, "cleanup", a) /\ a.op \in Erasing /\ a.what = {"state"}
    BY <1>1, ErasingIs
<1>3. /\ b \in DemoSteps /\ IsStepOf(FALSE, "cleanup", b) /\ b.op \in Erasing
    BY <1>1, ErasingIs
<1> HIDE DEF a, b
<1>4. Elements(<<a, b>>) = {a, b}
    BY ElementsOfFew
<1>5. <<a, b>> \in Seq(DemoSteps)
    BY <1>2, <1>3
<1>6. Fits(FALSE, "cleanup", <<a, b>>)
    BY <1>2, <1>3, <1>4, <1>5 DEF Fits
<1>7. "state" \in Covered(<<a, b>>)
    BY <1>2, <1>4 DEF Covered, Erased, Erasing, Things
<1>8. /\ Fits(FALSE, "cleanup", Cleanup) /\ ErasesLast(Cleanup)
      /\ CanExist(FALSE) \ {"state"} \subseteq Covered(Cleanup)
    BY CleanupIs
<1>9. Cleanup \in Seq(DemoSteps)
    BY <1>8 DEF Fits
<1>10. Fits(FALSE, "cleanup", Cleanup \o <<a, b>>)
    BY <1>6, <1>8, FitsConcat
<1>11. ErasesLast(Cleanup \o <<a, b>>)
    BY <1>2, <1>3, <1>4, <1>5, <1>8, <1>9, ErasingComesLast
<1>12. CanExist(FALSE) \subseteq Covered(Cleanup \o <<a, b>>)
  <2>1. Covered(Cleanup \o <<a, b>>) = Covered(Cleanup) \cup Covered(<<a, b>>)
      BY <1>5, <1>9, EffectsOfConcat
  <2> QED BY <1>7, <1>8, <2>1
<1> QED BY <1>10, <1>11, <1>12 DEF a, b, Unlink

(* A session diagnoses first, when a test has failed. *)
LEMMA SessionCleanupIs ==
    ASSUME ingest = TRUE
    PROVE  LET q == Diagnose \o Cleanup
           IN  /\ Fits(TRUE, "cleanup", q)
               /\ ErasesLast(q)
               /\ Both \subseteq Closed(q)
               /\ CanExist(TRUE) \subseteq Covered(q)
<1>1. Fits(TRUE, "cleanup", Diagnose)
  <2>1. "read" \in Allowed("cleanup") /\ "cleanup" \in Sections
      BY DEF Allowed, Sections
  <2> QED BY <2>1, StepIs DEF Diagnose
<1>2. \A s \in Elements(Diagnose) : s.op \notin Erasing
    BY ElementsOfFew DEF Diagnose, Step, Erasing
<1>3. /\ Fits(TRUE, "cleanup", Cleanup) /\ ErasesLast(Cleanup)
      /\ Both \subseteq Closed(Cleanup)
      /\ CanExist(TRUE) \subseteq Covered(Cleanup)
  <2>1. "state" \notin CanExist(TRUE)
      BY DEF CanExist
  <2> QED BY <2>1, CleanupIs
<1>4. Diagnose \in Seq(DemoSteps) /\ Cleanup \in Seq(DemoSteps)
    BY <1>1, <1>3 DEF Fits
<1>5. Fits(TRUE, "cleanup", Diagnose \o Cleanup)
    BY <1>1, <1>3, FitsConcat
<1>6. ErasesLast(Diagnose \o Cleanup)
    BY <1>2, <1>3, <1>4, ErasingComesLast
<1>7. /\ Closed(Diagnose \o Cleanup) = Closed(Diagnose) \cup Closed(Cleanup)
      /\ Covered(Diagnose \o Cleanup) = Covered(Diagnose) \cup Covered(Cleanup)
    BY <1>4, EffectsOfConcat
<1> QED BY <1>3, <1>5, <1>6, <1>7

(* Ensuring and awaiting a thing show it. *)
LEMMA EnsureFits ==
    ASSUME NEW i \in BOOLEAN, NEW n \in {"op", "try"}, NEW x \in CanExist(i)
    PROVE  /\ Fits(i, n, <<Ensure(x)>>) /\ Shown(<<Ensure(x)>>) = {x}
           /\ Fits(i, n, <<Await(x)>>) /\ Shown(<<Await(x)>>) = {x}
           /\ x # "state" => NoState(<<Ensure(x)>>) /\ NoState(<<Await(x)>>)
           /\ Ensure(x) \in DemoSteps
           /\ Fits(i, n, <<Step("read", {x})>>)
<1>1. /\ "ensure" \in Allowed(n) /\ "await" \in Allowed(n) /\ "read" \in Allowed(n)
      /\ n \in Sections /\ {x} \in SUBSET CanExist(i) /\ x \in Things
    BY DEF Allowed, Sections, CanExist
<1>2. \A o \in {"ensure", "await", "read"} : Fits(i, n, <<Step(o, {x})>>)
    BY <1>1, StepIs
<1>3. \A o \in {"ensure", "await"} : Shown(<<Step(o, {x})>>) = {x}
  <2> SUFFICES ASSUME NEW o \in {"ensure", "await"} PROVE Shown(<<Step(o, {x})>>) = {x}
      OBVIOUS
  <2>1. Shown(<<Step(o, {x})>>) = {x} \cap Things
      BY EffectsOfOne
  <2> QED BY <1>1, <2>1
<1>4. ASSUME x # "state", NEW o \in {"ensure", "await"} PROVE NoState(<<Step(o, {x})>>)
  <2>1. Elements(<<Step(o, {x})>>) = {Step(o, {x})} /\ Step(o, {x}).what = {x}
      BY ElementsOfFew DEF Step
  <2> QED BY <1>4, <2>1 DEF NoState
<1>5. Step("ensure", {x}) \in DemoSteps
    BY <1>2, FitsOne
<1> QED BY <1>2, <1>3, <1>4, <1>5 DEF Ensure, Await

(* An up that goes through has shown all of its claim, which it makes last. *)
LEMMA UpTryIs ==
    ASSUME ingest = FALSE
    PROVE  LET q == Provision \o ProduceEvents \o AwaitGraph \o SaveState
           IN  /\ Fits(FALSE, "try", q)
               /\ StateLast(q)
               /\ CompleteOf(FALSE) \subseteq Shown(q)
<1>1. /\ Fits(FALSE, "try", Provision) /\ NoState(Provision)
      /\ {"indexer image", "gremlin image", "kubeconfig", "arango", "redpanda",
          "topics", "reader", "cluster"} \subseteq Shown(Provision)
      /\ InCluster \ {"collector", "flink"} \subseteq Shown(Provision)
    BY ProvisionIs
<1>2. "events" \in CanExist(FALSE) /\ "graph" \in CanExist(FALSE) /\ "state" \in CanExist(FALSE)
    BY DEF CanExist, Things, Inside
<1>3. /\ Fits(FALSE, "try", ProduceEvents) /\ Shown(ProduceEvents) = {"events"}
      /\ NoState(ProduceEvents)
      /\ Fits(FALSE, "try", AwaitGraph) /\ Shown(AwaitGraph) = {"graph"}
      /\ NoState(AwaitGraph)
      /\ Fits(FALSE, "try", SaveState) /\ Ensure("state") \in DemoSteps
    BY <1>2, EnsureFits DEF ProduceEvents, AwaitGraph, SaveState
<1> DEFINE p1 == Provision \o ProduceEvents
           p2 == p1 \o AwaitGraph
           p3 == p2 \o SaveState
<1>4. \A n, q : Fits(FALSE, n, q) => q \in Seq(DemoSteps)
    BY DEF Fits
<1>5. Fits(FALSE, "try", p1) /\ Shown(p1) = Shown(Provision) \cup {"events"} /\ NoState(p1)
  <2>1. Fits(FALSE, "try", p1)
      BY <1>1, <1>3, FitsConcat
  <2>2. Provision \in Seq(DemoSteps) /\ ProduceEvents \in Seq(DemoSteps)
      BY <1>1, <1>3, <1>4
  <2>3. Shown(p1) = Shown(Provision) \cup {"events"}
    <3>1. Shown(p1) = Shown(Provision) \cup Shown(ProduceEvents)
        BY <2>2, EffectsOfConcat
    <3> HIDE DEF p1
    <3> QED BY <1>3, <3>1
  <2>4. Elements(p1) = Elements(Provision) \cup Elements(ProduceEvents)
      BY <2>2, ElementsOfConcat
  <2> QED BY <1>1, <1>3, <2>1, <2>3, <2>4 DEF NoState
<1> HIDE DEF p1
<1>6. Fits(FALSE, "try", p2) /\ Shown(p2) = Shown(p1) \cup {"graph"} /\ NoState(p2)
  <2>1. Fits(FALSE, "try", p2)
      BY <1>3, <1>5, FitsConcat
  <2>2. Shown(p2) = Shown(p1) \cup {"graph"}
    <3>1. p1 \in Seq(DemoSteps) /\ AwaitGraph \in Seq(DemoSteps)
        BY <1>3, <1>4, <1>5
    <3>2. Shown(p2) = Shown(p1) \cup Shown(AwaitGraph)
        BY <3>1, EffectsOfConcat
    <3> HIDE DEF p2
    <3> QED BY <1>3, <3>2
  <2>3. Elements(p2) = Elements(p1) \cup Elements(AwaitGraph)
    <3>1. p1 \in Seq(DemoSteps) /\ AwaitGraph \in Seq(DemoSteps)
        BY <1>3, <1>4, <1>5
    <3> QED BY <3>1, ElementsOfConcat
  <2> QED BY <1>3, <1>5, <2>1, <2>2, <2>3 DEF NoState
<1> HIDE DEF p2
<1>7. Fits(FALSE, "try", p3) /\ Shown(p2) \subseteq Shown(p3)
  <2>1. Fits(FALSE, "try", p3)
      BY <1>3, <1>6, FitsConcat
  <2>2. Shown(p2) \subseteq Shown(p3)
    <3>1. p2 \in Seq(DemoSteps) /\ SaveState \in Seq(DemoSteps)
        BY <1>3, <1>4, <1>6
    <3>2. Shown(p3) = Shown(p2) \cup Shown(SaveState)
        BY <3>1, EffectsOfConcat
    <3> HIDE DEF p3
    <3> QED BY <3>2
  <2> QED BY <2>1, <2>2
<1>8. StateLast(p3)
    BY <1>3, <1>4, <1>6, StateComesLast DEF SaveState
<1>9. CompleteOf(FALSE) \subseteq Shown(p3)
  <2> HIDE DEF p3
  <2> QED BY <1>1, <1>5, <1>6, <1>7 DEF CompleteOf
<1> QED BY <1>7, <1>8, <1>9 DEF p1, p2

(* The inspections before a command, and the diagnosis after a failure. *)
LEMMA ChecksFit ==
    ASSUME ingest \in BOOLEAN
    PROVE  /\ Fits(ingest, "check", CheckPrerequisites)
           /\ Fits(ingest, "check", CheckPrerequisites \o Status \o Decide)
           /\ Fits(ingest, "check", CheckPrerequisites \o Status \o <<Step("read", {})>>)
           /\ Fits(ingest, "diagnose", Diagnose)
           /\ ~ ingest => Fits(ingest, "check", SaveState)
<1>1. /\ {"read", "inspect", "decide", "ensure"} = Allowed("check")
      /\ Allowed("diagnose") = {"read"}
      /\ "check" \in Sections /\ "diagnose" \in Sections
    BY DEF Allowed, Sections
<1>2. \A o \in {"read", "decide", "inspect", "ensure"} : \A what \in SUBSET CanExist(ingest) :
        (o = "inspect" => what \subseteq Parts) => Fits(ingest, "check", <<Step(o, what)>>)
    BY <1>1, StepIs
<1>3. /\ Fits(ingest, "check", CheckPrerequisites)
      /\ Fits(ingest, "check", Decide)
      /\ Fits(ingest, "check", <<Step("read", {})>>)
    BY <1>2 DEF CheckPrerequisites, Decide
<1>4. Fits(ingest, "diagnose", Diagnose)
    BY <1>1, StepIs DEF Diagnose
<1>5. Fits(ingest, "check", Status)
  <2>1. \A k \in 1..5 : {Inspected[k]} \in SUBSET CanExist(ingest) /\ {Inspected[k]} \subseteq Parts
    <3>1. \A k \in 1..5 : Inspected[k] \in {"cluster", "arango", "redpanda", "indexer", "gremlin"}
        BY DEF Inspected
    <3>2. {"cluster", "arango", "redpanda", "indexer", "gremlin"} \subseteq CanExist(ingest)
        BY Vocabulary
    <3> QED BY <3>1, <3>2 DEF Parts
  <2>2. \A k \in 1..5 : /\ Step("inspect", {Inspected[k]}) \in DemoSteps
                        /\ IsStepOf(ingest, "check", Step("inspect", {Inspected[k]}))
      BY <1>2, <2>1, FitsOne
  <2>3. Status \in Seq(DemoSteps)
      BY <2>2 DEF Status
  <2>4. Elements(Status) = {Step("inspect", {Inspected[k]}) : k \in 1..5}
      BY DEF Elements, Status
  <2> QED BY <2>2, <2>3, <2>4 DEF Fits
<1>6. Fits(ingest, "check", CheckPrerequisites \o Status)
    BY <1>3, <1>5, FitsConcat
<1>7. /\ Fits(ingest, "check", CheckPrerequisites \o Status \o Decide)
      /\ Fits(ingest, "check", CheckPrerequisites \o Status \o <<Step("read", {})>>)
    BY <1>3, <1>6, FitsConcat
<1>8. ~ ingest => Fits(ingest, "check", SaveState)
  <2>1. ~ ingest => {"state"} \in SUBSET CanExist(ingest)
      BY DEF CanExist, Things
  <2> QED BY <1>2, <2>1 DEF SaveState, Ensure
<1> QED BY <1>3, <1>4, <1>7, <1>8

(* No steps are left. *)
LEMMA NothingIs ==
    /\ Nothing \in [Sections -> Seq(DemoSteps)]
    /\ \A n \in Sections : Nothing[n] = <<>>
    /\ \A i, n : Fits(i, n, <<>>)
    /\ Closed(<<>>) = {} /\ ErasesLast(<<>>)
<1>1. {Order[k] : k \in 1..7} = Sections
    BY DEF Order, Sections
<1>2. <<>> \in Seq(DemoSteps)
    OBVIOUS
<1>3. ErasesLast(<<>>)
    BY DEF ErasesLast
<1> QED BY <1>1, <1>2, <1>3, FitsFew, EffectsOfOne DEF Nothing

(* A session provisions, then runs its tests. *)
LEMMA SessionTryIs ==
    ASSUME ingest = TRUE
    PROVE  Fits(TRUE, "try", Provision \o [k \in 1..Tests |-> Step("test", {})])
<1> DEFINE q == [k \in 1..Tests |-> Step("test", {})]
<1>1. Tests \in Nat
    BY EnvironmentAssumption
<1>2. Fits(TRUE, "try", <<Step("test", {})>>)
  <2>1. "test" \in Allowed("try") /\ "try" \in Sections
      BY DEF Allowed, Sections
  <2> QED BY <2>1, StepIs
<1>3. Step("test", {}) \in DemoSteps /\ IsStepOf(TRUE, "try", Step("test", {}))
    BY <1>2, FitsOne
<1>4. q \in Seq(DemoSteps)
    BY <1>1, <1>3
<1>5. \A s \in Elements(q) : s = Step("test", {})
    BY DEF Elements
<1>6. Fits(TRUE, "try", q)
    BY <1>3, <1>4, <1>5 DEF Fits
<1> HIDE DEF q
<1>7. Fits(TRUE, "try", Provision \o q)
    BY <1>6, ProvisionIs, FitsConcat
<1> QED BY <1>7 DEF q

(* A query opens a forward and reads. *)
LEMMA QueryTryIs ==
    ASSUME ingest \in BOOLEAN
    PROVE  Fits(ingest, "try", StartGremlinForward \o Ask)
<1>1. /\ "forward" \in Allowed("try") /\ "await" \in Allowed("try") /\ "ask" \in Allowed("try")
      /\ "try" \in Sections
    BY DEF Allowed, Sections
<1>2. {"gremlin", "arango"} \subseteq CanExist(ingest) /\ {"gremlin"} \subseteq Both
    BY Vocabulary DEF Both
<1>3. Fits(ingest, "try", <<Step("forward", {"gremlin"})>>)
  <2>1. {"gremlin"} \in SUBSET CanExist(ingest)
      BY <1>2
  <2> QED BY <1>1, <1>2, <2>1, StepIs
<1>4. Fits(ingest, "try", <<Step("await", {"gremlin"})>>)
  <2>1. {"gremlin"} \in SUBSET CanExist(ingest)
      BY <1>2
  <2> QED BY <1>1, <2>1, StepIs
<1>5. Fits(ingest, "try", Ask)
  <2>1. {"gremlin", "arango"} \in SUBSET CanExist(ingest)
      BY <1>2
  <2> QED BY <1>1, <2>1, StepIs DEF Ask
<1> DEFINE a == Step("forward", {"gremlin"})
           b == Step("await", {"gremlin"})
<1>6. /\ a \in DemoSteps /\ IsStepOf(ingest, "try", a)
      /\ b \in DemoSteps /\ IsStepOf(ingest, "try", b)
    BY <1>3, <1>4, FitsOne
<1> HIDE DEF a, b
<1>7. <<a, b>> \in Seq(DemoSteps)
    BY <1>6
<1>8. Elements(<<a, b>>) = {a, b}
    BY ElementsOfFew
<1>9. Fits(ingest, "try", <<a, b>>)
    BY <1>6, <1>7, <1>8 DEF Fits
<1>10. StartGremlinForward = <<a, b>>
    BY DEF StartGremlinForward, StartForward, Await, a, b
<1> QED BY <1>5, <1>9, <1>10, FitsConcat

(* Every command starts with a list of steps that closes and removes what it makes. *)
LEMMA ScriptsAreOK ==
    ASSUME ingest \in BOOLEAN, NEW c \in Commands, NEW w
    PROVE  /\ UserOK(ingest, c, Script(c), {}, w, "none")
           /\ c \in {"up", "down", "status", "query", "session"}
<1>1. c \in IF ingest THEN {"session"} ELSE {"up", "status", "query", "down"}
    BY DEF Commands
<1>2. CASE c = "up"
  <2>1. ingest = FALSE
      BY <1>1, <1>2
  <2> DEFINE A == CheckPrerequisites \o Status \o Decide
             B == Provision \o ProduceEvents \o AwaitGraph \o SaveState
             t == [Nothing EXCEPT !.check = A, !.try = B, !.finally = Close]
  <2>2. /\ Fits(FALSE, "check", A) /\ Fits(FALSE, "try", B)
        /\ StateLast(B) /\ CompleteOf(FALSE) \subseteq Shown(B)
        /\ Fits(FALSE, "finally", Close) /\ Closed(Close) = Both
      BY <2>1, ChecksFit, UpTryIs, CloseForwardsIs DEF Close
  <2> HIDE DEF A, B
  <2>3. A \in Seq(DemoSteps) /\ B \in Seq(DemoSteps) /\ Close \in Seq(DemoSteps)
      BY <2>2 DEF Fits
  <2>4. /\ t \in [Sections -> Seq(DemoSteps)]
        /\ t.check = A /\ t.try = B /\ t.finally = Close
        /\ \A n \in Sections \ {"check", "try", "finally"} : t[n] = <<>>
      BY <2>3, NothingIs DEF Sections
  <2> HIDE DEF t
  <2>5. Typed(FALSE, "up", t)
    <3>1. \A n \in Sections : Fits(FALSE, n, t[n])
        BY <2>2, <2>4, NothingIs
    <3> QED BY <2>4, <3>1 DEF Typed
  <2>6. ForwardsClose("up", t, {})
      BY <2>2, <2>4, NothingIs DEF ForwardsClose, Closer, Sections
  <2>7. SweepErases(FALSE, "up", t, w, "none")
      BY <2>4 DEF SweepErases, Sections
  <2>8. ClaimIsLast("up", t, w)
      BY <2>2, <2>4 DEF ClaimIsLast
  <2>9. Script(c) = t
      BY <1>2 DEF Script, UpSteps, t, A, B
  <2> QED BY <1>2, <2>1, <2>5, <2>6, <2>7, <2>8, <2>9 DEF UserOK
<1>3. CASE c = "status"
  <2>1. ingest = FALSE
      BY <1>1, <1>3
  <2> DEFINE A == CheckPrerequisites \o Status \o <<Step("read", {})>>
             t == [Nothing EXCEPT !.check = A]
  <2>2. Fits(FALSE, "check", A)
      BY <2>1, ChecksFit
  <2> HIDE DEF A
  <2>3. A \in Seq(DemoSteps)
      BY <2>2 DEF Fits
  <2>4. /\ t \in [Sections -> Seq(DemoSteps)]
        /\ t.check = A
        /\ \A n \in Sections \ {"check"} : t[n] = <<>>
      BY <2>3, NothingIs DEF Sections
  <2> HIDE DEF t
  <2>5. Typed(FALSE, "status", t)
    <3>1. \A n \in Sections : Fits(FALSE, n, t[n])
        BY <2>2, <2>4, NothingIs
    <3> QED BY <2>4, <3>1 DEF Typed
  <2>6. ForwardsClose("status", t, {})
      BY <2>4, NothingIs DEF ForwardsClose, Closer, Sections
  <2>7. SweepErases(FALSE, "status", t, w, "none")
      BY <2>4 DEF SweepErases, Sections
  <2>8. ClaimIsLast("status", t, w)
      BY DEF ClaimIsLast
  <2>9. Script(c) = t
      BY <1>3 DEF Script, StatusSteps, t, A
  <2> QED BY <1>3, <2>1, <2>5, <2>6, <2>7, <2>8, <2>9 DEF UserOK
<1>4. CASE c = "query"
  <2>1. ingest = FALSE
      BY <1>1, <1>4
  <2> DEFINE A == CheckPrerequisites \o Status \o Decide
             B == StartGremlinForward \o Ask
             t == [Nothing EXCEPT !.check = A, !.try = B, !.finally = Close]
  <2>2. /\ Fits(FALSE, "check", A) /\ Fits(FALSE, "try", B)
        /\ Fits(FALSE, "finally", Close) /\ Closed(Close) = Both
      BY <2>1, ChecksFit, QueryTryIs, CloseForwardsIs DEF Close
  <2> HIDE DEF A, B
  <2>3. A \in Seq(DemoSteps) /\ B \in Seq(DemoSteps) /\ Close \in Seq(DemoSteps)
      BY <2>2 DEF Fits
  <2>4. /\ t \in [Sections -> Seq(DemoSteps)]
        /\ t.check = A /\ t.try = B /\ t.finally = Close
        /\ \A n \in Sections \ {"check", "try", "finally"} : t[n] = <<>>
      BY <2>3, NothingIs DEF Sections
  <2> HIDE DEF t
  <2>5. Typed(FALSE, "query", t)
    <3>1. \A n \in Sections : Fits(FALSE, n, t[n])
        BY <2>2, <2>4, NothingIs
    <3> QED BY <2>4, <3>1 DEF Typed
  <2>6. ForwardsClose("query", t, {})
      BY <2>2, <2>4, NothingIs DEF ForwardsClose, Closer, Sections
  <2>7. SweepErases(FALSE, "query", t, w, "none")
      BY <2>4 DEF SweepErases, Sections
  <2>8. ClaimIsLast("query", t, w)
      BY DEF ClaimIsLast
  <2>9. Script(c) = t
      BY <1>4 DEF Script, QuerySteps, t, A, B
  <2> QED BY <1>4, <2>1, <2>5, <2>6, <2>7, <2>8, <2>9 DEF UserOK
<1>5. CASE c = "down"
  <2>1. ingest = FALSE
      BY <1>1, <1>5
  <2> DEFINE A == CheckPrerequisites
             B == Cleanup \o <<Unlink("state"), Step("unlink", {"state", "kubeconfig"})>>
             t == [Nothing EXCEPT !.check = A, !.cleanup = B]
  <2>2. /\ Fits(FALSE, "check", A) /\ Fits(FALSE, "cleanup", B)
        /\ ErasesLast(B) /\ CanExist(FALSE) \subseteq Covered(B)
      BY <2>1, ChecksFit, DownCleanupIs
  <2> HIDE DEF A, B
  <2>3. A \in Seq(DemoSteps) /\ B \in Seq(DemoSteps)
      BY <2>2 DEF Fits
  <2>4. /\ t \in [Sections -> Seq(DemoSteps)]
        /\ t.check = A /\ t.cleanup = B
        /\ \A n \in Sections \ {"check", "cleanup"} : t[n] = <<>>
      BY <2>3, NothingIs DEF Sections
  <2> HIDE DEF t
  <2>5. Typed(FALSE, "down", t)
    <3>1. \A n \in Sections : Fits(FALSE, n, t[n])
        BY <2>2, <2>4, NothingIs
    <3> QED BY <2>4, <3>1 DEF Typed
  <2>6. ForwardsClose("down", t, {})
      BY <2>2, <2>4, NothingIs DEF ForwardsClose, Closer, Sections
  <2>7. SweepErases(FALSE, "down", t, w, "none")
      BY <2>2, <2>4 DEF SweepErases, ToErase, Sections
  <2>8. ClaimIsLast("down", t, w)
      BY DEF ClaimIsLast
  <2>9. Script(c) = t
      BY <1>5 DEF Script, DownSteps, t, A, B
  <2> QED BY <1>5, <2>1, <2>5, <2>6, <2>7, <2>8, <2>9 DEF UserOK
<1>6. CASE c = "session"
  <2>1. ingest = TRUE
      BY <1>1, <1>6
  <2> DEFINE B == Provision \o [k \in 1..Tests |-> Step("test", {})]
             C == Diagnose \o Cleanup
             t == [Nothing EXCEPT !.try = B, !.cleanup = C]
  <2>2. Fits(TRUE, "try", B)
      BY <2>1, SessionTryIs
  <2>3. /\ Fits(TRUE, "cleanup", C) /\ ErasesLast(C) /\ Both \subseteq Closed(C)
        /\ CanExist(TRUE) \subseteq Covered(C)
      BY <2>1, SessionCleanupIs
  <2> HIDE DEF B, C
  <2>4. B \in Seq(DemoSteps) /\ C \in Seq(DemoSteps)
      BY <2>2, <2>3 DEF Fits
  <2>5. /\ t \in [Sections -> Seq(DemoSteps)]
        /\ t.try = B /\ t.cleanup = C
        /\ \A n \in Sections \ {"try", "cleanup"} : t[n] = <<>>
      BY <2>4, NothingIs DEF Sections
  <2> HIDE DEF t
  <2>6. Typed(TRUE, "session", t)
    <3>1. \A n \in Sections : Fits(TRUE, n, t[n])
        BY <2>2, <2>3, <2>5, NothingIs
    <3> QED BY <2>5, <3>1 DEF Typed, Sections
  <2>7. ForwardsClose("session", t, {})
      BY <2>3, <2>5, NothingIs DEF ForwardsClose, Closer, Sections
  <2>8. SweepErases(TRUE, "session", t, w, "none")
      BY <2>3, <2>5 DEF SweepErases, ToErase, Sections
  <2>9. ClaimIsLast("session", t, w)
      BY DEF ClaimIsLast
  <2>10. Script(c) = t
      BY <1>6 DEF Script, SessionSteps, t, B, C
  <2> QED BY <1>6, <2>1, <2>6, <2>7, <2>8, <2>9, <2>10 DEF UserOK
<1> QED BY <1>1, <1>2, <1>3, <1>4, <1>5, <1>6

(* Whatever a test does are steps that a session undoes. *)
LEMMA OperationsFit ==
    ASSUME ingest \in BOOLEAN, NEW u, NEW q \in Operations(u)
    PROVE  Fits(ingest, "op", q)
<1> DEFINE F(p) == Fits(ingest, "op", p)
<1>1. {"events", "graph", "metrics", "collector", "topics", "redpanda", "indexer",
       "gremlin", "flink", "arango"} \subseteq CanExist(ingest)
    BY Vocabulary
<1>2. ASSUME NEW x \in {"events", "graph", "metrics", "collector", "topics", "redpanda",
                        "indexer", "gremlin", "flink", "arango"}
      PROVE  F(<<Ensure(x)>>) /\ F(<<Await(x)>>) /\ F(Read(x))
  <2>1. x \in CanExist(ingest)
      BY <1>1
  <2> QED BY <2>1, EnsureFits DEF Read
<1>3. ASSUME NEW x \in {"gremlin", "collector"}
      PROVE  /\ F(<<Step("forward", {x})>>) /\ F(<<Step("close", {x})>>)
             /\ F(StartForward(x))
  <2>1. /\ "forward" \in Allowed("op") /\ "close" \in Allowed("op") /\ "op" \in Sections
        /\ {x} \in SUBSET CanExist(ingest) /\ {x} \subseteq Both
      BY <1>1 DEF Allowed, Sections, Both
  <2>2. F(<<Step("forward", {x})>>) /\ F(<<Step("close", {x})>>)
      BY <2>1, StepIs
  <2>3. F(<<Await(x)>>)
      BY <1>2
  <2> DEFINE a == Step("forward", {x})
             b == Await(x)
  <2>4. a \in DemoSteps /\ b \in DemoSteps /\ IsStepOf(ingest, "op", a) /\ IsStepOf(ingest, "op", b)
      BY <2>2, <2>3, FitsOne
  <2> HIDE DEF a, b
  <2>5. <<a, b>> \in Seq(DemoSteps)
      BY <2>4
  <2>6. Elements(<<a, b>>) = {a, b}
      BY ElementsOfFew
  <2>7. F(<<a, b>>)
      BY <2>4, <2>5, <2>6 DEF Fits
  <2> QED BY <2>2, <2>7 DEF StartForward, a, b
<1>4. F(<<Await("indexer"), Await("gremlin")>>)
  <2> DEFINE a == Await("indexer")
             b == Await("gremlin")
  <2>1. F(<<a>>) /\ F(<<b>>)
      BY <1>2
  <2>2. a \in DemoSteps /\ b \in DemoSteps /\ IsStepOf(ingest, "op", a) /\ IsStepOf(ingest, "op", b)
      BY <2>1, FitsOne
  <2> HIDE DEF a, b
  <2>3. <<a, b>> \in Seq(DemoSteps)
      BY <2>2
  <2>4. Elements(<<a, b>>) = {a, b}
      BY ElementsOfFew
  <2>5. F(<<a, b>>)
      BY <2>2, <2>3, <2>4 DEF Fits
  <2> QED BY <2>5 DEF a, b
<1>5. ASSUME NEW p, NEW r, F(p), F(r) PROVE F(p \o r)
    BY <1>5, FitsConcat
<1>6. F(<<>>) /\ F(Ask)
  <2>1. "ask" \in Allowed("op") /\ "op" \in Sections
      BY DEF Allowed, Sections
  <2>2. {"gremlin", "arango"} \in SUBSET CanExist(ingest)
      BY <1>1
  <2> QED BY <2>1, <2>2, StepIs, FitsFew DEF Ask
<1> HIDE DEF F
<1>7. F(ProduceEvents \o AwaitGraph)
    BY <1>2, <1>5 DEF ProduceEvents, AwaitGraph
<1>8. F(ProduceMetrics)
    BY <1>2 DEF ProduceMetrics
<1>9. F(SendTraces(u))
  <2>1. F(IF "collector" \in forwards[u] THEN <<>> ELSE StartCollectorForward)
      BY <1>3, <1>6 DEF StartCollectorForward
  <2>2. F((IF "collector" \in forwards[u] THEN <<>> ELSE StartCollectorForward)
            \o Read("collector"))
      BY <1>2, <1>5, <2>1
  <2> QED BY <1>5, <1>8, <2>2 DEF SendTraces
<1>10. F(TopicBytes) /\ F(CommittedOffset) /\ F(JobOverview) /\ F(DocumentCount)
    BY <1>2 DEF TopicBytes, CommittedOffset, JobOverview, DocumentCount
<1>11. F(RestartProjection)
  <2>1. F(<<Step("close", {"gremlin"})>> \o Read("indexer"))
      BY <1>2, <1>3, <1>5
  <2>2. F(<<Step("close", {"gremlin"})>> \o Read("indexer") \o Read("gremlin"))
      BY <1>2, <1>5, <2>1
  <2>3. F(<<Step("close", {"gremlin"})>> \o Read("indexer") \o Read("gremlin")
            \o <<Await("indexer"), Await("gremlin")>>)
      BY <1>4, <1>5, <2>2
  <2> QED BY <1>3, <1>5, <2>3 DEF RestartProjection, StartGremlinForward
<1>12. F(RestartTaskmanager)
    BY <1>2, <1>5, <1>10 DEF RestartTaskmanager
<1>13. F(q)
    BY <1>6, <1>7, <1>8, <1>9, <1>10, <1>11, <1>12 DEF Operations
<1> QED BY <1>13 DEF F

-----------------------------------------------------------------------------
(* What the steps do to a user *)

(* The section n runs. *)
Runs(t, n) ==
    /\ n \in Sections /\ t[n] # <<>>
    /\ n # "check" => t.check = <<>>
    /\ n \notin {"check", "op"} => t.op = <<>>
    /\ n \notin {"check", "op", "try"} => t.try = <<>>
    /\ n \in {"cleanup", "forget", "finally"} => t.diagnose = <<>>
    /\ n \in {"forget", "finally"} => t.cleanup = <<>>
    /\ n = "finally" => t.forget = <<>>

Ahead(t, n) == [t EXCEPT ![n] = Tail(@)]

Advances(t, n) ==
    /\ t[n] \in Seq(DemoSteps) /\ Head(t[n]) \in DemoSteps
    /\ Ahead(t, n)[n] = Tail(t[n])
    /\ \A m \in Sections \ {n} : Ahead(t, n)[m] = t[m]

(* The first step of a section belongs to it, and so do the others. *)
LEMMA HeadsFit ==
    \A i, c, t, n :
        Typed(i, c, t) /\ Runs(t, n) =>
            /\ c # "none" /\ IsStepOf(i, n, Head(t[n])) /\ Typed(i, c, Ahead(t, n))
            /\ Advances(t, n)
<1> SUFFICES ASSUME NEW i, NEW c, NEW t, NEW n, Typed(i, c, t), Runs(t, n)
             PROVE  /\ c # "none" /\ IsStepOf(i, n, Head(t[n])) /\ Typed(i, c, Ahead(t, n))
                    /\ Advances(t, n)
    OBVIOUS
<1>1. n \in Sections /\ t[n] \in Seq(DemoSteps) /\ t[n] # <<>>
    BY DEF Typed, Runs
<1>2. c # "none"
    BY <1>1, NothingIs DEF Typed
<1>3. /\ Head(t[n]) \in DemoSteps /\ Tail(t[n]) \in Seq(DemoSteps)
      /\ Elements(t[n]) = {Head(t[n])} \cup Elements(Tail(t[n]))
    BY <1>1, ElementsOfTail
<1>4. Fits(i, n, Tail(t[n])) /\ IsStepOf(i, n, Head(t[n]))
    BY <1>1, <1>3 DEF Typed, Fits
<1>5. /\ Ahead(t, n) \in [Sections -> Seq(DemoSteps)]
      /\ Ahead(t, n)[n] = Tail(t[n])
      /\ \A m \in Sections \ {n} : Ahead(t, n)[m] = t[m]
    BY <1>1, <1>3 DEF Ahead, Typed
<1>6. Typed(i, c, Ahead(t, n))
  <2>1. i => Ahead(t, n).forget = <<>>
    <3>1. i => t.forget = <<>> /\ n # "forget"
        BY <1>1 DEF Typed
    <3> QED BY <1>5, <3>1 DEF Sections
  <2> QED BY <1>2, <1>4, <1>5, <2>1 DEF Typed
<1> QED BY <1>1, <1>2, <1>3, <1>4, <1>5, <1>6 DEF Advances

(* The claim stays the last step. *)
LEMMA StateStaysLast ==
    ASSUME NEW q \in Seq(DemoSteps), q # <<>>, StateLast(q)
    PROVE  StateLast(Tail(q))
<1>1. /\ Len(q) = Len(Tail(q)) + 1 /\ Len(Tail(q)) \in Nat
      /\ DOMAIN Tail(q) = 1..Len(Tail(q))
      /\ \A k \in DOMAIN Tail(q) : k + 1 \in DOMAIN q /\ Tail(q)[k] = q[k + 1]
  <2>1. Tail(q) \in Seq(DemoSteps)
      BY ElementsOfTail
  <2> QED BY <2>1, ElementsOfTail
<1>2. SUFFICES ASSUME NEW k \in DOMAIN Tail(q), Tail(q)[k].what = {"state"}
               PROVE  k = Len(Tail(q))
    BY DEF StateLast
<1>3. k + 1 = Len(q)
    BY <1>1, <1>2 DEF StateLast
<1> QED BY <1>1, <1>3

(* Removing stays last; once it has begun nothing else is left. *)
LEMMA ErasingStaysLast ==
    ASSUME NEW q \in Seq(DemoSteps), q # <<>>, ErasesLast(q)
    PROVE  /\ ErasesLast(Tail(q))
           /\ Head(q).op \in Erasing =>
                /\ \A s \in Elements(q) : s.op \in Erasing
                /\ Closed(q) = {}
<1>1. /\ Len(q) = Len(Tail(q)) + 1 /\ Len(Tail(q)) \in Nat
      /\ DOMAIN Tail(q) = 1..Len(Tail(q)) /\ DOMAIN q = 1..Len(q)
      /\ \A k \in DOMAIN Tail(q) : k + 1 \in DOMAIN q /\ Tail(q)[k] = q[k + 1]
      /\ 1 \in DOMAIN q /\ q[1] = Head(q)
  <2>1. Tail(q) \in Seq(DemoSteps)
      BY ElementsOfTail
  <2> QED BY <2>1, ElementsOfTail
<1>2. ErasesLast(Tail(q))
  <2> SUFFICES ASSUME NEW j \in DOMAIN Tail(q), NEW k \in DOMAIN Tail(q), j < k,
                      Tail(q)[j].op \in Erasing
               PROVE  Tail(q)[k].op \in Erasing
      BY DEF ErasesLast
  <2>1. j + 1 < k + 1
      BY <1>1
  <2> QED BY <1>1, <2>1 DEF ErasesLast
<1>3. ASSUME Head(q).op \in Erasing PROVE \A s \in Elements(q) : s.op \in Erasing
  <2>1. ASSUME NEW k \in DOMAIN q PROVE q[k].op \in Erasing
    <3>1. k = 1 \/ 1 < k
        BY <1>1
    <3> QED BY <1>1, <1>3, <3>1 DEF ErasesLast
  <2> QED BY <2>1 DEF Elements
<1>4. ASSUME Head(q).op \in Erasing PROVE Closed(q) = {}
    BY <1>3, <1>4 DEF Closed, Erasing
<1> QED BY <1>2, <1>3, <1>4

Showing == {"create", "ensure", "await", "read", "topics"}

(* A step that succeeds leaves to its section what is not there yet. *)
LEMMA ClaimAhead ==
    ASSUME NEW i, NEW c, NEW t, NEW n, NEW w, NEW v, Typed(i, c, t), Runs(t, n),
           ClaimIsLast(c, t, w),
           w \subseteq v \/ n \notin {"check", "op", "try"},
           n = "try" /\ Head(t[n]).op \in Showing => Head(t[n]).what \subseteq v
    PROVE  ClaimIsLast(c, Ahead(t, n), v)
<1>1. /\ t[n] \in Seq(DemoSteps) /\ n \in Sections /\ t[n] # <<>>
      /\ Ahead(t, n)[n] = Tail(t[n])
      /\ \A m \in Sections \ {n} : Ahead(t, n)[m] = t[m]
  <2>1. Advances(t, n)
      BY HeadsFit
  <2> QED BY <2>1 DEF Runs, Advances
<1>2. SUFFICES ASSUME c = "up", Ahead(t, n)["try"] # <<>>
               PROVE  /\ CompleteOf(FALSE) \subseteq v \cup Shown(Ahead(t, n)["try"])
                      /\ StateLast(Ahead(t, n)["try"])
    BY DEF ClaimIsLast
<1>3. CASE n = "try"
  <2>1. CompleteOf(FALSE) \subseteq w \cup Shown(t[n]) /\ StateLast(t[n])
      BY <1>1, <1>2, <1>3 DEF ClaimIsLast
  <2>2. Shown(t[n]) = Shown(Tail(t[n]))
            \cup (IF Head(t[n]).op \in Showing THEN Head(t[n]).what ELSE {})
      BY <1>1, EffectsOfTail DEF Showing
  <2>3. StateLast(Tail(t[n]))
      BY <1>1, <2>1, StateStaysLast
  <2> QED BY <1>1, <1>3, <2>1, <2>2, <2>3
<1>4. CASE n # "try"
  <2>1. "try" \in Sections
      BY DEF Sections
  <2>2. Ahead(t, n)["try"] = t["try"]
      BY <1>1, <1>4, <2>1
  <2>3. n \in {"check", "op"}
      BY <1>2, <1>4, <2>2 DEF Runs
  <2> QED BY <1>2, <2>2, <2>3 DEF ClaimIsLast
<1> QED BY <1>3, <1>4

(* A step that succeeds and neither opens, closes nor removes. *)
LEMMA PassKeeps ==
    ASSUME NEW i, NEW c, NEW t, NEW n, NEW f, NEW w, NEW v, NEW d,
           UserOK(i, c, t, f, w, d), Runs(t, n),
           Head(t[n]).op \notin {"close", "forward"} \cup Erasing,
           w \subseteq v,
           Head(t[n]).op \in Showing => Head(t[n]).what \subseteq v
    PROVE  UserOK(i, c, Ahead(t, n), f, v, d)
<1>1. Typed(i, c, t) /\ ForwardsClose(c, t, f) /\ SweepErases(i, c, t, w, d) /\ ClaimIsLast(c, t, w)
    BY DEF UserOK
<1>2. /\ t[n] \in Seq(DemoSteps) /\ c # "none" /\ IsStepOf(i, n, Head(t[n])) /\ Typed(i, c, Ahead(t, n))
      /\ Ahead(t, n)[n] = Tail(t[n])
      /\ \A m \in Sections \ {n} : Ahead(t, n)[m] = t[m]
  <2>1. /\ c # "none" /\ IsStepOf(i, n, Head(t[n])) /\ Typed(i, c, Ahead(t, n))
        /\ Advances(t, n)
      BY <1>1, HeadsFit
  <2> QED BY <2>1 DEF Advances
<1>3. n \in {"check", "op", "try", "diagnose", "cleanup"} /\ t[n] # <<>>
    BY <1>2 DEF IsStepOf, Allowed, Erasing, Runs, Sections
<1>4. /\ Closed(Ahead(t, n).cleanup) = Closed(t.cleanup)
      /\ Covered(Ahead(t, n).cleanup) = Covered(t.cleanup)
      /\ ErasesLast(Ahead(t, n).cleanup)
      /\ Ahead(t, n).cleanup # <<>> => t.cleanup # <<>>
      /\ n = "cleanup" => d # "faultless"
  <2>1. ErasesLast(t.cleanup)
      BY <1>1 DEF ForwardsClose
  <2>2. CASE n = "cleanup"
    <3>1. /\ Closed(t[n]) = Closed(Tail(t[n])) /\ Covered(t[n]) = Covered(Tail(t[n]))
      <4>1. Head(t[n]).op # "close" /\ Head(t[n]).op \notin {"remove", "unlink"}
          BY DEF Erasing
      <4> QED BY <1>2, <1>3, <4>1, EffectsOfTail
    <3>2. ErasesLast(t[n])
        BY <2>1, <2>2
    <3>3. ErasesLast(Tail(t[n]))
        BY <1>2, <1>3, <3>2, ErasingStaysLast
    <3>4. Head(t[n]) \in Elements(t[n]) /\ Head(t[n]).op \notin Erasing
        BY <1>2, <1>3, ElementsOfTail
    <3>5. d # "faultless"
        BY <1>1, <2>2, <3>4 DEF SweepErases
    <3> QED BY <1>2, <1>3, <2>2, <3>1, <3>3, <3>5
  <2>3. CASE n # "cleanup"
    <3>1. Ahead(t, n).cleanup = t.cleanup
        BY <1>2, <2>3 DEF Sections
    <3> QED BY <2>1, <2>3, <3>1
  <2> QED BY <2>2, <2>3
<1>5. /\ Ahead(t, n).check # <<>> => t.check # <<>>
      /\ Ahead(t, n).op # <<>> => t.op # <<>>
      /\ Ahead(t, n).try # <<>> => t.try # <<>>
      /\ Ahead(t, n).forget = t.forget /\ Ahead(t, n).finally = t.finally
    BY <1>2, <1>3 DEF Sections
<1>6. ForwardsClose(c, Ahead(t, n), f)
    BY <1>1, <1>4, <1>5 DEF ForwardsClose, Closer
<1>7. d # "faultless"
    BY <1>1, <1>3, <1>4 DEF SweepErases
<1>8. SweepErases(i, c, Ahead(t, n), v, d)
    BY <1>1, <1>4, <1>5, <1>7 DEF SweepErases, ToErase
<1>9. ClaimIsLast(c, Ahead(t, n), v)
    BY <1>1, ClaimAhead
<1> QED BY <1>2, <1>6, <1>8, <1>9 DEF UserOK

(* A forward is opened where a later section closes it. *)
LEMMA OpenKeeps ==
    ASSUME NEW i, NEW c, NEW t, NEW n, NEW f, NEW w, NEW d,
           UserOK(i, c, t, f, w, d), Runs(t, n), Head(t[n]).op = "forward"
    PROVE  UserOK(i, c, Ahead(t, n), f \cup Head(t[n]).what, w, d)
<1>1. Typed(i, c, t) /\ ForwardsClose(c, t, f) /\ SweepErases(i, c, t, w, d) /\ ClaimIsLast(c, t, w)
    BY DEF UserOK
<1>2. /\ IsStepOf(i, n, Head(t[n])) /\ Typed(i, c, Ahead(t, n))
      /\ Ahead(t, n)[n] = Tail(t[n])
      /\ \A m \in Sections \ {n} : Ahead(t, n)[m] = t[m]
  <2>1. /\ c # "none" /\ IsStepOf(i, n, Head(t[n])) /\ Typed(i, c, Ahead(t, n))
        /\ Advances(t, n)
      BY <1>1, HeadsFit
  <2> QED BY <2>1 DEF Advances
<1>3. n \in {"op", "try"} /\ t[n] # <<>> /\ t.check = <<>> /\ Head(t[n]).what \subseteq Both
    BY <1>2 DEF IsStepOf, Allowed, Runs, Sections
<1>4. /\ Ahead(t, n).cleanup = t.cleanup /\ Ahead(t, n).forget = t.forget
      /\ Ahead(t, n).finally = t.finally /\ Ahead(t, n).check = <<>>
    BY <1>2, <1>3 DEF Sections
<1>5. Both \subseteq Closer(c, t)
    BY <1>1, <1>3 DEF ForwardsClose
<1>6. ForwardsClose(c, Ahead(t, n), f \cup Head(t[n]).what)
  <2>1. Closer(c, Ahead(t, n)) = Closer(c, t)
      BY <1>4 DEF Closer
  <2>2. f \subseteq Both /\ ErasesLast(t.cleanup)
      BY <1>1 DEF ForwardsClose
  <2>3. f \cup Head(t[n]).what \subseteq Both
      BY <1>3, <2>2
  <2> QED BY <1>4, <1>5, <2>1, <2>2, <2>3 DEF ForwardsClose
<1>7. d # "faultless"
    BY <1>1, <1>3 DEF SweepErases
<1>8. SweepErases(i, c, Ahead(t, n), w, d)
    BY <1>1, <1>4, <1>7 DEF SweepErases, ToErase
<1>9. ClaimIsLast(c, Ahead(t, n), w)
  <2>1. Head(t[n]).op \notin Showing
      BY DEF Showing
  <2> QED BY <1>1, <2>1, ClaimAhead
<1> QED BY <1>2, <1>6, <1>8, <1>9 DEF UserOK

(* A forward that is lost track of need not be closed. *)
LEMMA LosingKeeps ==
    \A i, c, t, f, g, w, d :
        UserOK(i, c, t, f, w, d) /\ g \subseteq f => UserOK(i, c, t, g, w, d)
BY DEF UserOK, ForwardsClose

(* A forward is closed. *)
LEMMA CloseKeeps ==
    ASSUME NEW i, NEW c, NEW t, NEW n, NEW f, NEW w, NEW d,
           UserOK(i, c, t, f, w, d), Runs(t, n), Head(t[n]).op = "close"
    PROVE  UserOK(i, c, Ahead(t, n), f \ Head(t[n]).what, w, d)
<1>1. Typed(i, c, t) /\ ForwardsClose(c, t, f) /\ SweepErases(i, c, t, w, d) /\ ClaimIsLast(c, t, w)
    BY DEF UserOK
<1>2. /\ t[n] \in Seq(DemoSteps) /\ t[n] # <<>> /\ n \in Sections
      /\ IsStepOf(i, n, Head(t[n])) /\ Typed(i, c, Ahead(t, n))
      /\ Ahead(t, n)[n] = Tail(t[n])
      /\ \A m \in Sections \ {n} : Ahead(t, n)[m] = t[m]
  <2>1. IsStepOf(i, n, Head(t[n])) /\ Typed(i, c, Ahead(t, n)) /\ Advances(t, n)
      BY <1>1, HeadsFit
  <2>2. t[n] # <<>> /\ n \in Sections
      BY DEF Runs
  <2> QED BY <2>1, <2>2 DEF Advances
<1>3. n \in {"op", "cleanup", "finally"} /\ t.check = <<>> /\ n \in Sections
    BY <1>2 DEF IsStepOf, Allowed, Runs, Sections
<1>4. /\ Closed(t[n]) = Closed(Tail(t[n])) \cup Head(t[n]).what
      /\ Covered(t[n]) = Covered(Tail(t[n]))
    BY <1>2, EffectsOfTail
<1>5. ErasesLast(Ahead(t, n).cleanup)
  <2>1. CASE n = "cleanup"
    <3>1. ErasesLast(t[n])
        BY <1>1, <2>1 DEF ForwardsClose
    <3>2. ErasesLast(Tail(t[n]))
        BY <1>2, <3>1, ErasingStaysLast
    <3> QED BY <1>2, <2>1, <3>2
  <2>2. CASE n # "cleanup"
    <3>1. Ahead(t, n).cleanup = t.cleanup
        BY <1>2, <2>2 DEF Sections
    <3> QED BY <1>1, <3>1 DEF ForwardsClose
  <2> QED BY <2>1, <2>2
<1>6. Closer(c, t) \subseteq Closer(c, Ahead(t, n)) \cup Head(t[n]).what
  <2>1. \A m \in Sections : Closed(t[m]) \subseteq Closed(Ahead(t, n)[m]) \cup Head(t[n]).what
    <3> SUFFICES ASSUME NEW m \in Sections
                 PROVE  Closed(t[m]) \subseteq Closed(Ahead(t, n)[m]) \cup Head(t[n]).what
        OBVIOUS
    <3>1. CASE m = n
        BY <1>2, <1>4, <3>1
    <3>2. CASE m # n
        BY <1>2, <3>2
    <3> QED BY <3>1, <3>2
  <2> QED BY <2>1 DEF Closer, Sections
<1>7. ForwardsClose(c, Ahead(t, n), f \ Head(t[n]).what)
  <2>1. f \subseteq Both /\ f \subseteq Closer(c, t)
      BY <1>1 DEF ForwardsClose
  <2>2. Ahead(t, n).check = <<>>
      BY <1>2, <1>3 DEF Sections
  <2>3. Ahead(t, n).op # <<>> \/ Ahead(t, n).try # <<>> => Both \subseteq Closer(c, Ahead(t, n))
    <3>1. CASE n = "op"
      <4>1. Ahead(t, n).cleanup = t.cleanup /\ Ahead(t, n).finally = t.finally
          BY <1>2, <3>1 DEF Sections
      <4>2. Both \subseteq Closer(c, t)
          BY <1>1, <1>2, <3>1 DEF ForwardsClose
      <4> QED BY <4>1, <4>2 DEF Closer
    <3>2. CASE n \in {"cleanup", "finally"}
      <4>1. Ahead(t, n).op = <<>> /\ Ahead(t, n).try = <<>>
          BY <1>2, <3>2 DEF Sections, Runs
      <4> QED BY <4>1
    <3> QED BY <1>3, <3>1, <3>2
  <2> QED BY <1>5, <1>6, <2>1, <2>2, <2>3 DEF ForwardsClose
<1>8. SweepErases(i, c, Ahead(t, n), w, d)
  <2>1. /\ Covered(Ahead(t, n).cleanup) = Covered(t.cleanup)
        /\ Covered(Ahead(t, n).forget) = Covered(t.forget)
        /\ Ahead(t, n).cleanup # <<>> => t.cleanup # <<>>
        /\ Ahead(t, n).forget # <<>> => t.forget # <<>>
    <3>1. ASSUME NEW m \in Sections
          PROVE  /\ Covered(Ahead(t, n)[m]) = Covered(t[m])
                 /\ Ahead(t, n)[m] # <<>> => t[m] # <<>>
      <4>1. CASE m = n
          BY <1>2, <1>4, <4>1
      <4>2. CASE m # n
          BY <1>2, <4>2
      <4> QED BY <4>1, <4>2
    <3> QED BY <3>1 DEF Sections
  <2>2. /\ t.check = <<>> => Ahead(t, n).check = <<>>
        /\ t.op = <<>> => Ahead(t, n).op = <<>>
        /\ t.try = <<>> => Ahead(t, n).try = <<>>
        /\ t.diagnose = <<>> => Ahead(t, n).diagnose = <<>>
      BY <1>2, <1>3 DEF Sections
  <2>3. d = "faultless" => Ahead(t, n).cleanup = t.cleanup
    <3>1. ASSUME d = "faultless", n = "cleanup" PROVE FALSE
      <4>1. Head(t[n]) \in Elements(t[n])
          BY <1>2, ElementsOfTail
      <4>2. Head(t[n]).op \in Erasing
          BY <1>1, <3>1, <4>1 DEF SweepErases
      <4> QED BY <4>2 DEF Erasing
    <3> QED BY <1>2, <3>1 DEF Sections
  <2> QED BY <1>1, <2>1, <2>2, <2>3 DEF SweepErases, ToErase
<1>9. ClaimIsLast(c, Ahead(t, n), w)
    BY <1>1, <1>3, ClaimAhead
<1> QED BY <1>2, <1>7, <1>8, <1>9 DEF UserOK

(* A cleanup goes on: what it removes is gone, unless it has met a fault. *)
LEMMA EraseKeeps ==
    ASSUME NEW i, NEW c, NEW t, NEW n, NEW f, NEW w, NEW v, NEW d, NEW e,
           UserOK(i, c, t, f, w, d), Runs(t, n), Head(t[n]).op \in Erasing,
           w \subseteq CanExist(i),
           \/ e = "faulty"
           \/ /\ e = IF d = "none" THEN "faultless" ELSE d
              /\ v = w \ Erased(Head(t[n]).what)
    PROVE  UserOK(i, c, Ahead(t, n), f, v, e)
<1>1. Typed(i, c, t) /\ ForwardsClose(c, t, f) /\ SweepErases(i, c, t, w, d) /\ ClaimIsLast(c, t, w)
    BY DEF UserOK
<1>2. /\ t[n] \in Seq(DemoSteps) /\ t[n] # <<>> /\ n \in Sections /\ c # "none"
      /\ IsStepOf(i, n, Head(t[n])) /\ Typed(i, c, Ahead(t, n))
      /\ Ahead(t, n)[n] = Tail(t[n])
      /\ \A m \in Sections \ {n} : Ahead(t, n)[m] = t[m]
  <2>1. /\ c # "none" /\ IsStepOf(i, n, Head(t[n])) /\ Typed(i, c, Ahead(t, n))
        /\ Advances(t, n)
      BY <1>1, HeadsFit
  <2>2. t[n] # <<>> /\ n \in Sections
      BY DEF Runs
  <2> QED BY <2>1, <2>2 DEF Advances
<1>3. n \in {"cleanup", "forget"}
    BY <1>2 DEF IsStepOf, Allowed, Erasing, Sections
<1>4. t.check = <<>> /\ t.op = <<>> /\ t.try = <<>> /\ t.diagnose = <<>>
    BY <1>3 DEF Runs
<1>5. /\ Ahead(t, n).check = <<>> /\ Ahead(t, n).op = <<>> /\ Ahead(t, n).try = <<>>
      /\ Ahead(t, n).diagnose = <<>> /\ Ahead(t, n).finally = t.finally
    BY <1>2, <1>3, <1>4 DEF Sections
<1>6. /\ Closed(t[n]) = Closed(Tail(t[n]))
      /\ Covered(t[n]) = Covered(Tail(t[n])) \cup Erased(Head(t[n]).what)
    BY <1>2, EffectsOfTail DEF Erasing
<1>7. ForwardsClose(c, Ahead(t, n), f)
  <2>1. /\ f \subseteq Both /\ f \subseteq Closer(c, t) /\ ErasesLast(t.cleanup)
      BY <1>1 DEF ForwardsClose
  <2>2. CASE n = "cleanup"
    <3>1. ErasesLast(t[n])
        BY <2>1, <2>2
    <3>2. ErasesLast(Tail(t[n]))
        BY <1>2, <3>1, ErasingStaysLast
    <3>3. Ahead(t, n).cleanup = Tail(t[n])
        BY <1>2, <2>2
    <3>4. Closer(c, Ahead(t, n)) = Closer(c, t)
        BY <1>5, <1>6, <2>2, <3>3 DEF Closer
    <3> QED BY <1>5, <2>1, <3>2, <3>3, <3>4 DEF ForwardsClose
  <2>3. CASE n = "forget"
    <3>1. Ahead(t, n).cleanup = t.cleanup
        BY <1>2, <2>3 DEF Sections
    <3>2. Closer(c, Ahead(t, n)) = Closer(c, t)
        BY <1>5, <3>1 DEF Closer
    <3> QED BY <1>5, <2>1, <3>1, <3>2 DEF ForwardsClose
  <2> QED BY <1>3, <2>2, <2>3
<1>8. ToErase(t) \subseteq ToErase(Ahead(t, n)) \cup Erased(Head(t[n]).what)
  <2>1. \A m \in Sections : Covered(t[m]) \subseteq Covered(Ahead(t, n)[m]) \cup Erased(Head(t[n]).what)
    <3> SUFFICES ASSUME NEW m \in Sections
                 PROVE  Covered(t[m]) \subseteq Covered(Ahead(t, n)[m]) \cup Erased(Head(t[n]).what)
        OBVIOUS
    <3>1. CASE m = n
        BY <1>2, <1>6, <3>1
    <3>2. CASE m # n
        BY <1>2, <3>2
    <3> QED BY <3>1, <3>2
  <2> QED BY <2>1 DEF ToErase, Sections
<1>9. SweepErases(i, c, Ahead(t, n), v, e)
  <2>1. CASE e = "faulty"
      BY <1>2, <2>1 DEF SweepErases
  <2>2. CASE e # "faulty"
    <3>1. /\ e = IF d = "none" THEN "faultless" ELSE d
          /\ v = w \ Erased(Head(t[n]).what)
        BY <2>2
    <3>2. t.cleanup # <<>> \/ t.forget # <<>>
        BY <1>2, <1>3
    <3>3. d \in {"none", "faultless"}
        BY <1>1, <2>2, <3>1 DEF SweepErases
    <3>4. w \subseteq ToErase(t)
        BY <1>1, <3>2, <3>3 DEF SweepErases
    <3>5. v \subseteq ToErase(Ahead(t, n)) /\ e = "faultless"
        BY <1>8, <3>1, <3>3, <3>4
    <3>6. \A s \in Elements(Ahead(t, n).cleanup) : s.op \in Erasing
      <4>1. CASE n = "cleanup"
        <5>1. ErasesLast(t[n])
            BY <1>1, <4>1 DEF ForwardsClose
        <5>2. \A s \in Elements(t[n]) : s.op \in Erasing
            BY <1>2, <5>1, ErasingStaysLast
        <5>3. Elements(Tail(t[n])) \subseteq Elements(t[n])
            BY <1>2, ElementsOfTail
        <5> QED BY <1>2, <4>1, <5>2, <5>3
      <4>2. CASE n = "forget"
        <5>1. Ahead(t, n).cleanup = <<>>
            BY <1>2, <4>2 DEF Runs, Sections
        <5> QED BY <5>1, ElementsOfFew
      <4> QED BY <1>3, <4>1, <4>2
    <3> QED BY <1>2, <1>5, <3>5, <3>6 DEF SweepErases
  <2> QED BY <2>1, <2>2
<1>10. ClaimIsLast(c, Ahead(t, n), v)
    BY <1>5 DEF ClaimIsLast
<1> QED BY <1>2, <1>7, <1>9, <1>10 DEF UserOK

Drop(t, n) == [t EXCEPT ![n] = <<>>]

Failing(c, t, n) ==
    CASE n = "check" -> Nothing
      [] n = "try" -> OnFailure(c, Drop(t, n))
      [] OTHER -> Drop(t, n)

(***************************************************************************)
(* The step op of the section n fails: what becomes of the world and of    *)
(* the cleanup's record.  Where the forwards are closed none is owed any   *)
(* more.                                                                   *)
(***************************************************************************)
Fault(c, n, op, f, w, v, d, e) ==
    /\ n = Closing(c) /\ op \in {"read", "close"} => f = {}
    /\ IF op \in Erasing \/ (op = "close" /\ n = "cleanup")
       THEN e = "faulty"
       ELSE e = d /\ w \subseteq v
    /\ op = "close" => v = w

(* The rest of a section is skipped: the later ones do what they have to. *)
LEMMA DropKeeps ==
    ASSUME NEW i, NEW c, NEW t, NEW n, NEW f, NEW w, NEW v, NEW d, NEW e,
           UserOK(i, c, t, f, w, d), Runs(t, n), n # "check",
           Fault(c, n, Head(t[n]).op, f, w, v, d, e)
    PROVE  UserOK(i, c, Drop(t, n), f, v, e)
<1>1. Typed(i, c, t) /\ ForwardsClose(c, t, f) /\ SweepErases(i, c, t, w, d) /\ ClaimIsLast(c, t, w)
    BY DEF UserOK
<1>2. /\ t[n] \in Seq(DemoSteps) /\ t[n] # <<>> /\ n \in Sections /\ c # "none"
      /\ IsStepOf(i, n, Head(t[n]))
  <2>1. c # "none" /\ IsStepOf(i, n, Head(t[n])) /\ Advances(t, n)
      BY <1>1, HeadsFit
  <2>2. t[n] # <<>> /\ n \in Sections
      BY DEF Runs
  <2> QED BY <2>1, <2>2 DEF Advances
<1>3. /\ n \in {"op", "try", "diagnose", "cleanup", "forget", "finally"}
      /\ Head(t[n]).op \in Erasing => n \in {"cleanup", "forget"}
      /\ n = "forget" => Head(t[n]).op \in Erasing
      /\ n = "finally" => Head(t[n]).op = "close"
      /\ n = "cleanup" /\ Head(t[n]).op \notin Erasing => Head(t[n]).op \in {"read", "close"}
      /\ n = "cleanup" /\ Head(t[n]).op = "read" => i
    BY <1>2 DEF IsStepOf, Allowed, Erasing, Sections
<1>4. /\ Drop(t, n) \in [Sections -> Seq(DemoSteps)]
      /\ Drop(t, n)[n] = <<>> /\ \A m \in Sections \ {n} : Drop(t, n)[m] = t[m]
  <2>1. t \in [Sections -> Seq(DemoSteps)] /\ <<>> \in Seq(DemoSteps)
      BY <1>1, NothingIs DEF Typed
  <2> QED BY <1>2, <2>1 DEF Drop
<1>5. Typed(i, c, Drop(t, n))
  <2>1. \A m \in Sections : Fits(i, m, Drop(t, n)[m])
    <3> SUFFICES ASSUME NEW m \in Sections PROVE Fits(i, m, Drop(t, n)[m])
        OBVIOUS
    <3>1. CASE m = n
        BY <1>4, <3>1, NothingIs
    <3>2. CASE m # n
        BY <1>1, <1>4, <3>2 DEF Typed
    <3> QED BY <3>1, <3>2
  <2>2. i => Drop(t, n).forget = <<>>
      BY <1>1, <1>4 DEF Typed, Sections
  <2> QED BY <1>1, <1>2, <1>4, <2>1, <2>2 DEF Typed
<1>6. /\ Drop(t, n).check = t.check
      /\ n # "finally" => Drop(t, n).finally = t.finally
      /\ n # "op" => Drop(t, n).op = t.op
      /\ n # "try" => Drop(t, n).try = t.try
      /\ n # "cleanup" => Drop(t, n).cleanup = t.cleanup
      /\ n # "forget" => Drop(t, n).forget = t.forget
    BY <1>3, <1>4 DEF Sections
<1>7. ForwardsClose(c, Drop(t, n), f)
  <2>1. /\ f \subseteq Both /\ f \subseteq Closer(c, t) /\ ErasesLast(t.cleanup)
        /\ t.check # <<>> => f = {}
      BY <1>1 DEF ForwardsClose
  <2>2. ErasesLast(Drop(t, n).cleanup)
      BY <1>4, <1>6, <2>1, NothingIs
  <2>3. CASE n \in {"cleanup", "finally"} /\ n = Closing(c)
    <3>1. f = {}
      <4>1. CASE Head(t[n]).op \in {"read", "close"}
          BY <2>3, <4>1 DEF Fault
      <4>2. CASE Head(t[n]).op \notin {"read", "close"}
        <5>1. n = "cleanup" /\ Head(t[n]).op \in Erasing
            BY <1>3, <2>3, <4>2
        <5>2. ErasesLast(t[n])
            BY <2>1, <5>1
        <5>3. Closed(t[n]) = {}
            BY <1>2, <5>1, <5>2, ErasingStaysLast
        <5> QED BY <2>1, <2>3, <5>1, <5>3 DEF Closer, Closing
      <4> QED BY <4>1, <4>2
    <3>2. Drop(t, n).op = <<>> /\ Drop(t, n).try = <<>>
        BY <1>6, <2>3 DEF Runs
    <3> QED BY <1>6, <2>2, <3>1, <3>2 DEF ForwardsClose
  <2>4. CASE n \notin {"cleanup", "finally"} \/ n # Closing(c)
    <3>1. Closer(c, Drop(t, n)) = Closer(c, t)
        BY <1>6, <2>4 DEF Closer, Closing
    <3>2. Drop(t, n).op # <<>> \/ Drop(t, n).try # <<>> => t.op # <<>> \/ t.try # <<>>
        BY <1>4, <1>6
    <3> QED BY <1>1, <1>6, <2>1, <2>2, <3>1, <3>2 DEF ForwardsClose
  <2> QED BY <2>3, <2>4
<1>8. n = "cleanup" /\ Head(t[n]).op \notin Erasing => d # "faultless"
  <2> SUFFICES ASSUME n = "cleanup", Head(t[n]).op \notin Erasing, d = "faultless"
               PROVE  FALSE
      OBVIOUS
  <2>1. Head(t[n]) \in Elements(t[n])
      BY <1>2, ElementsOfTail
  <2> QED BY <1>1, <2>1 DEF SweepErases
<1>9. SweepErases(i, c, Drop(t, n), v, e)
  <2>1. CASE e = "faulty"
      BY <1>2, <2>1 DEF SweepErases
  <2>2. CASE e # "faulty" /\ n \in {"op", "try", "diagnose"}
    <3>1. e = d /\ d # "faultless"
        BY <1>1, <1>2, <2>2 DEF Fault, SweepErases
    <3> QED BY <1>1, <1>6, <2>2, <3>1 DEF SweepErases, ToErase
  <2>3. CASE e # "faulty" /\ n = "cleanup"
    <3>1. e = d /\ d # "faultless" /\ i
        BY <1>3, <1>8, <2>3 DEF Fault
    <3>2. Drop(t, n).cleanup = <<>> /\ Drop(t, n).forget = <<>>
        BY <1>4, <1>5, <2>3, <3>1 DEF Typed
    <3> QED BY <1>1, <3>1, <3>2 DEF SweepErases
  <2>4. CASE e # "faulty" /\ n = "finally"
    <3>1. e = d /\ v = w
        BY <1>3, <2>4 DEF Fault, Erasing
    <3> QED BY <1>1, <1>4, <1>6, <2>4, <3>1 DEF SweepErases, ToErase, Sections
  <2> QED BY <1>3, <2>1, <2>2, <2>3, <2>4 DEF Fault
<1>10. ClaimIsLast(c, Drop(t, n), v)
  <2>1. CASE n \in {"try", "diagnose", "cleanup", "forget", "finally"}
    <3>1. Drop(t, n).try = <<>>
        BY <1>4, <1>6, <2>1 DEF Runs
    <3> QED BY <3>1 DEF ClaimIsLast
  <2>2. CASE n = "op"
    <3>1. Drop(t, n).try = t.try /\ w \subseteq v
        BY <1>3, <1>6, <2>2 DEF Fault
    <3> QED BY <1>1, <3>1 DEF ClaimIsLast
  <2> QED BY <1>3, <2>1, <2>2
<1> QED BY <1>5, <1>7, <1>9, <1>10 DEF UserOK

(* No cleanup has begun when the try clause fails, and nothing precedes it. *)
LEMMA DroppedTry ==
    ASSUME NEW i, NEW c, NEW t, NEW f, NEW w, NEW d,
           UserOK(i, c, t, f, w, d), Runs(t, "try")
    PROVE  /\ Head(t["try"]).op \notin Erasing /\ d # "faultless"
           /\ \A m \in {"check", "op", "try"} : Drop(t, "try")[m] = <<>>
<1>1. Typed(i, c, t) /\ SweepErases(i, c, t, w, d)
    BY DEF UserOK
<1>2. IsStepOf(i, "try", Head(t["try"]))
    BY <1>1, HeadsFit
<1>3. Head(t["try"]).op \notin Erasing
    BY <1>2 DEF IsStepOf, Allowed, Erasing
<1>4. t["try"] # <<>> /\ t["check"] = <<>> /\ t["op"] = <<>>
    BY DEF Runs
<1>5. d # "faultless"
    BY <1>1, <1>4 DEF SweepErases
<1>6. t \in [Sections -> Seq(DemoSteps)]
    BY <1>1 DEF Typed
<1> QED BY <1>3, <1>4, <1>5, <1>6 DEF Drop, Sections

(* A command with no steps left. *)
LEMMA NothingKeeps ==
    ASSUME NEW i, NEW c, NEW w, NEW d, d \in {"none", "faultless", "faulty"},
           d = "faultless" => w = {},
           c \in {"none"} \cup (IF i THEN {"session"} ELSE {"up", "status", "query", "down"}),
           c = "none" => d = "none"
    PROVE  UserOK(i, c, Nothing, {}, w, d)
<1>1. /\ Nothing.check = <<>> /\ Nothing.op = <<>> /\ Nothing.try = <<>>
      /\ Nothing.cleanup = <<>> /\ Nothing.forget = <<>> /\ Nothing.finally = <<>>
    BY NothingIs DEF Sections
<1>2. Typed(i, c, Nothing)
  <2>1. \A m \in Sections : Fits(i, m, Nothing[m])
      BY NothingIs
  <2> QED BY <1>1, <2>1, NothingIs DEF Typed
<1>3. ForwardsClose(c, Nothing, {})
    BY <1>1, NothingIs DEF ForwardsClose
<1>4. SweepErases(i, c, Nothing, w, d)
  <2>1. Nothing.diagnose = <<>> /\ Elements(Nothing.cleanup) = {}
      BY <1>1, NothingIs, ElementsOfFew DEF Sections
  <2> QED BY <1>1, <2>1 DEF SweepErases
<1>5. ClaimIsLast(c, Nothing, w)
    BY <1>1 DEF ClaimIsLast
<1> QED BY <1>2, <1>3, <1>4, <1>5 DEF UserOK

(* What an up that fails does, and what a session that fails does first. *)
LEMMA HandlersFit ==
    ASSUME ingest \in BOOLEAN
    PROVE  /\ Fits(ingest, "diagnose", Diagnose)
           /\ ~ ingest => /\ Fits(FALSE, "forget", <<Unlink("state")>>)
                          /\ CanExist(FALSE) \subseteq Covered(Cleanup) \cup Covered(<<Unlink("state")>>)
<1>1. Fits(ingest, "diagnose", Diagnose)
    BY ChecksFit
<1>2. ASSUME ~ ingest
      PROVE  /\ Fits(FALSE, "forget", <<Unlink("state")>>)
             /\ CanExist(FALSE) \subseteq Covered(Cleanup) \cup Covered(<<Unlink("state")>>)
  <2>1. /\ "unlink" \in Allowed("forget") /\ "unlink" \in Erasing
        /\ {"state"} \in SUBSET CanExist(FALSE)
      BY DEF Allowed, Erasing, CanExist, Things
  <2>2. /\ Fits(FALSE, "forget", <<Unlink("state")>>)
        /\ Covered(<<Unlink("state")>>) = Erased({"state"})
      BY <2>1, ErasingIs DEF Unlink
  <2>3. "state" \in Erased({"state"})
      BY DEF Erased
  <2>4. CanExist(FALSE) \ {"state"} \subseteq Covered(Cleanup)
      BY <1>2, CleanupIs
  <2> QED BY <2>2, <2>3, <2>4
<1> QED BY <1>1, <1>2

(* A failure: the exception handlers give their sections what cleans up. *)
LEMMA RaiseKeeps ==
    ASSUME ingest \in BOOLEAN,
           NEW c, NEW t, NEW n, NEW f, NEW w, NEW v, NEW d, NEW e,
           UserOK(ingest, c, t, f, w, d), Runs(t, n),
           Fault(c, n, Head(t[n]).op, f, w, v, d, e)
    PROVE  UserOK(ingest, c, Failing(c, t, n), f, v, e)
<1>1. Typed(ingest, c, t) /\ ForwardsClose(c, t, f) /\ SweepErases(ingest, c, t, w, d)
    BY DEF UserOK
<1>2. n \in Sections /\ t[n] # <<>> /\ c # "none" /\ IsStepOf(ingest, n, Head(t[n]))
  <2>1. c # "none" /\ IsStepOf(ingest, n, Head(t[n]))
      BY <1>1, HeadsFit
  <2> QED BY <2>1 DEF Runs
<1>3. CASE n = "check"
  <2>1. e = d
    <3>1. Head(t[n]).op \notin Erasing /\ Head(t[n]).op # "close"
        BY <1>2, <1>3 DEF IsStepOf, Allowed, Erasing
    <3> QED BY <3>1 DEF Fault
  <2>2. e \in {"none", "faulty"} /\ f = {}
      BY <1>1, <1>2, <1>3, <2>1 DEF SweepErases, ForwardsClose
  <2>3. c \in {"none"} \cup (IF ingest THEN {"session"} ELSE {"up", "status", "query", "down"})
      BY <1>1 DEF Typed
  <2>4. UserOK(ingest, c, Nothing, {}, v, e)
      BY <1>2, <2>2, <2>3, NothingKeeps
  <2> QED BY <1>3, <2>2, <2>4 DEF Failing
<1>4. CASE n # "check" /\ n # "try"
  <2>1. UserOK(ingest, c, Drop(t, n), f, v, e)
      BY <1>4, DropKeeps
  <2> QED BY <1>4, <2>1 DEF Failing
<1>5. CASE n = "try"
  <2> DEFINE r == Drop(t, n)
  <2> HIDE DEF r
  <2>1. /\ UserOK(ingest, c, r, f, v, e) /\ e # "faultless"
        /\ \A m \in {"check", "op", "try"} : r[m] = <<>>
    <3>1. n # "check"
        BY <1>5
    <3>2. UserOK(ingest, c, Drop(t, n), f, v, e)
        BY <3>1, DropKeeps
    <3>3. Runs(t, "try")
        BY <1>5
    <3>4. /\ Head(t["try"]).op \notin Erasing /\ d # "faultless"
          /\ \A m \in {"check", "op", "try"} : Drop(t, "try")[m] = <<>>
        BY <3>3, DroppedTry
    <3>5. e # "faultless"
        BY <1>5, <3>4 DEF Fault
    <3> QED BY <1>5, <3>2, <3>4, <3>5 DEF r
  <2>2. /\ Typed(ingest, c, r) /\ ForwardsClose(c, r, f) /\ SweepErases(ingest, c, r, v, e)
        /\ ClaimIsLast(c, r, v)
      BY <2>1 DEF UserOK
  <2>3. /\ r \in [Sections -> Seq(DemoSteps)]
        /\ \A m \in Sections : Fits(ingest, m, r[m])
      BY <2>2 DEF Typed
  <2>4. Failing(c, t, n) = OnFailure(c, r)
      BY <1>5 DEF Failing, r
  <2>5. CASE c = "up"
    <3>1. ingest = FALSE
        BY <1>1, <2>5 DEF Typed
    <3> DEFINE F == <<Unlink("state")>>
               q == [r EXCEPT !.diagnose = Diagnose, !.cleanup = Cleanup, !.forget = F]
    <3>2. /\ Fits(FALSE, "diagnose", Diagnose) /\ Fits(FALSE, "cleanup", Cleanup)
          /\ Fits(FALSE, "forget", F) /\ ErasesLast(Cleanup)
          /\ CanExist(FALSE) \subseteq Covered(Cleanup) \cup Covered(F)
        BY <3>1, HandlersFit, CleanupIs
    <3> HIDE DEF F
    <3>3. Diagnose \in Seq(DemoSteps) /\ Cleanup \in Seq(DemoSteps) /\ F \in Seq(DemoSteps)
        BY <3>2 DEF Fits
    <3>4. /\ q \in [Sections -> Seq(DemoSteps)]
          /\ q.diagnose = Diagnose /\ q.cleanup = Cleanup /\ q.forget = F
          /\ \A m \in {"check", "op", "try", "finally"} : q[m] = r[m]
        BY <2>3, <3>3 DEF Sections
    <3>5. OnFailure(c, r) = q
        BY <2>5 DEF OnFailure, F
    <3> HIDE DEF q
    <3>6. Typed(FALSE, c, q)
      <4>1. \A m \in Sections : Fits(FALSE, m, q[m])
          BY <2>3, <3>1, <3>2, <3>4 DEF Sections
      <4> QED BY <2>5, <3>4, <4>1 DEF Typed
    <3>7. ForwardsClose(c, q, f)
      <4>1. q.check = <<>> /\ q.op = <<>> /\ q.try = <<>> /\ q.finally = r.finally
          BY <2>1, <3>4
      <4> QED BY <2>2, <2>5, <3>2, <3>4, <4>1 DEF ForwardsClose, Closer
    <3>8. SweepErases(FALSE, c, q, v, e)
        BY <2>1, <2>2, <2>5, <3>2, <3>4 DEF SweepErases, ToErase
    <3>9. ClaimIsLast(c, q, v)
        BY <2>1, <3>4 DEF ClaimIsLast
    <3> QED BY <2>4, <3>1, <3>5, <3>6, <3>7, <3>8, <3>9 DEF UserOK
  <2>6. CASE c = "session"
    <3> DEFINE q == [r EXCEPT !.diagnose = Diagnose]
    <3>1. Fits(ingest, "diagnose", Diagnose)
        BY HandlersFit
    <3>2. Diagnose \in Seq(DemoSteps)
        BY <3>1 DEF Fits
    <3>3. /\ q \in [Sections -> Seq(DemoSteps)]
          /\ q.diagnose = Diagnose
          /\ \A m \in Sections \ {"diagnose"} : q[m] = r[m]
        BY <2>3, <3>2 DEF Sections
    <3>4. OnFailure(c, r) = q
        BY <2>6 DEF OnFailure
    <3> HIDE DEF q
    <3>5. /\ q.check = r.check /\ q.op = r.op /\ q.try = r.try /\ q.cleanup = r.cleanup
          /\ q.forget = r.forget /\ q.finally = r.finally
        BY <3>3 DEF Sections
    <3>6. Typed(ingest, c, q)
      <4>1. \A m \in Sections : Fits(ingest, m, q[m])
          BY <2>3, <3>1, <3>3
      <4> QED BY <2>2, <2>6, <3>3, <3>5, <4>1 DEF Typed
    <3>7. ForwardsClose(c, q, f)
        BY <2>2, <3>5 DEF ForwardsClose, Closer
    <3>8. SweepErases(ingest, c, q, v, e)
        BY <2>1, <2>2, <3>5 DEF SweepErases, ToErase
    <3>9. ClaimIsLast(c, q, v)
        BY <2>6 DEF ClaimIsLast
    <3> QED BY <2>4, <3>4, <3>6, <3>7, <3>8, <3>9 DEF UserOK
  <2>7. CASE c # "up" /\ c # "session"
    <3>1. OnFailure(c, r) = r
        BY <2>7 DEF OnFailure
    <3> QED BY <2>1, <2>4, <3>1
  <2> QED BY <2>5, <2>6, <2>7
<1> QED BY <1>3, <1>4, <1>5

Interrupted(c, t, n) ==
    IF n = "check" \/ n = Closing(c)
    THEN Nothing
    ELSE [Nothing EXCEPT ![Closing(c)] = t[Closing(c)]]

(* Ctrl-C: of what is left a command only closes what it has open, and a   *)
(* session cleans up.                                                      *)
LEMMA InterruptKeeps ==
    ASSUME NEW i \in BOOLEAN,
           NEW c, NEW t, NEW n, NEW f, NEW w, NEW d, NEW e,
           UserOK(i, c, t, f, w, d), Runs(t, n),
           n = Closing(c) /\ Head(t[n]).op \in {"read", "close"} => f = {},
           e = IF n \in {"cleanup", "forget"} THEN "faulty" ELSE d
    PROVE  UserOK(i, c, Interrupted(c, t, n), f, w, e)
<1>1. Typed(i, c, t) /\ ForwardsClose(c, t, f) /\ SweepErases(i, c, t, w, d)
    BY DEF UserOK
<1>2. /\ t[n] \in Seq(DemoSteps) /\ t[n] # <<>> /\ n \in Sections /\ c # "none"
      /\ IsStepOf(i, n, Head(t[n]))
  <2>1. c # "none" /\ IsStepOf(i, n, Head(t[n])) /\ Advances(t, n)
      BY <1>1, HeadsFit
  <2> QED BY <2>1 DEF Runs, Advances
<1>3. CASE n = "check" \/ n = Closing(c)
  <2>1. f = {}
    <3>1. CASE n = "check"
        BY <1>1, <1>2, <3>1 DEF ForwardsClose
    <3>2. CASE n = Closing(c) /\ Head(t[n]).op \notin {"read", "close"}
      <4>1. n = "cleanup" /\ c = "session" /\ Head(t[n]).op \in Erasing
          BY <1>2, <3>2 DEF Closing, IsStepOf, Allowed, Erasing
      <4>2. Closed(t[n]) = {}
          BY <1>1, <1>2, <4>1, ErasingStaysLast DEF ForwardsClose
      <4> QED BY <1>1, <4>1, <4>2 DEF ForwardsClose, Closer
    <3> QED BY <1>3, <3>1, <3>2
  <2>2. e = "faultless" => w = {}
    <3> SUFFICES ASSUME e = "faultless" PROVE w = {}
        OBVIOUS
    <3>1. d = "faultless" /\ n \notin {"cleanup", "forget"}
        OBVIOUS
    <3>2. n = "finally"
        BY <1>1, <1>2, <1>3, <3>1 DEF Closing, SweepErases
    <3>3. t.cleanup = <<>> /\ t.forget = <<>>
        BY <3>2 DEF Runs
    <3> QED BY <1>1, <3>1, <3>3, EffectsOfOne DEF SweepErases, ToErase
  <2>3. e \in {"none", "faultless", "faulty"}
      BY <1>1 DEF SweepErases
  <2>4. c \in {"none"} \cup (IF i THEN {"session"} ELSE {"up", "status", "query", "down"})
      BY <1>1 DEF Typed
  <2>5. UserOK(i, c, Nothing, {}, w, e)
      BY <1>2, <2>2, <2>3, <2>4, NothingKeeps
  <2> QED BY <1>3, <2>1, <2>5 DEF Interrupted
<1>4. CASE n # "check" /\ n # Closing(c)
  <2> DEFINE m == Closing(c)
             q == [Nothing EXCEPT ![m] = t[m]]
  <2>1. m \in {"cleanup", "finally"} /\ m \in Sections
      BY DEF Closing, Sections
  <2>2. Fits(i, m, t[m]) /\ t[m] \in Seq(DemoSteps)
      BY <1>1, <2>1 DEF Typed
  <2>3. /\ q \in [Sections -> Seq(DemoSteps)] /\ q[m] = t[m]
        /\ \A k \in Sections \ {m} : q[k] = <<>>
    <3> HIDE DEF m
    <3> QED BY <2>1, <2>2, NothingIs
  <2> HIDE DEF q
  <2>4. /\ q.check = <<>> /\ q.op = <<>> /\ q.try = <<>> /\ q.diagnose = <<>>
        /\ q.forget = <<>>
        /\ c = "session" => q.cleanup = t.cleanup /\ q.finally = <<>>
        /\ c # "session" => q.cleanup = <<>> /\ q.finally = t.finally
      BY <2>3 DEF Closing, Sections
  <2>5. Typed(i, c, q)
    <3>1. \A k \in Sections : Fits(i, k, q[k])
      <4> HIDE DEF m
      <4> QED BY <2>2, <2>3, NothingIs
    <3> QED BY <1>1, <1>2, <2>3, <2>4, <3>1 DEF Typed
  <2>6. ForwardsClose(c, q, f)
    <3>1. Closer(c, q) = Closer(c, t)
        BY <2>4 DEF Closer
    <3>2. ErasesLast(q.cleanup)
        BY <1>1, <2>4, NothingIs DEF ForwardsClose
    <3> QED BY <1>1, <2>4, <3>1, <3>2 DEF ForwardsClose
  <2>7. SweepErases(i, c, q, w, e)
    <3>1. CASE e = "faulty"
        BY <1>2, <3>1 DEF SweepErases
    <3>2. CASE e = "none"
      <4>1. d = "none"
          BY <3>2
      <4>2. c = "session" => t.forget = <<>>
          BY <1>1 DEF Typed
      <4> QED BY <1>1, <1>2, <2>4, <3>2, <4>1, <4>2 DEF SweepErases, ToErase
    <3>3. CASE e = "faultless"
      <4>1. d = "faultless" /\ n = "finally"
          BY <1>1, <1>2, <3>3 DEF SweepErases, Sections
      <4>2. t.cleanup = <<>> /\ t.forget = <<>>
          BY <4>1 DEF Runs
      <4>3. q.cleanup = <<>> /\ q.forget = <<>>
          BY <2>4, <4>2
      <4> QED BY <1>1, <1>2, <2>4, <3>3, <4>1, <4>2, <4>3 DEF SweepErases, ToErase
    <3> QED BY <1>1, <3>1, <3>2, <3>3 DEF SweepErases
  <2>8. ClaimIsLast(c, q, w)
      BY <2>4 DEF ClaimIsLast
  <2>9. Interrupted(c, t, n) = q
      BY <1>4 DEF Interrupted, q
  <2> QED BY <2>5, <2>6, <2>7, <2>8, <2>9 DEF UserOK
<1> QED BY <1>3, <1>4

(* The environment grows while a command runs. *)
LEMMA GrowthKeeps ==
    ASSUME NEW i, NEW c, NEW t, NEW f, NEW w, NEW v, NEW d,
           UserOK(i, c, t, f, w, d), w \subseteq v,
           d = "faultless" => v \subseteq ToErase(t)
    PROVE  UserOK(i, c, t, f, v, d)
<1>1. Typed(i, c, t) /\ ForwardsClose(c, t, f) /\ SweepErases(i, c, t, w, d) /\ ClaimIsLast(c, t, w)
    BY DEF UserOK
<1>2. SweepErases(i, c, t, v, d)
    BY <1>1 DEF SweepErases
<1>3. ClaimIsLast(c, t, v)
    BY <1>1 DEF ClaimIsLast
<1> QED BY <1>1, <1>2, <1>3 DEF UserOK

(* What a host holds goes with it. *)
LEMMA HostsHold ==
    /\ \A q : \A h \in {"cluster", "arango", "redpanda"} :
        h \in Covered(q) => Inside(h) \subseteq Covered(q)
    /\ \A what, w, i : WorldOK(i, w) => WorldOK(i, w \ Erased(what))
<1>1. \A what : \A h \in {"cluster", "arango", "redpanda"} :
        h \in Erased(what) => Inside(h) \subseteq Erased(what)
  <2> SUFFICES ASSUME NEW what, NEW h \in {"cluster", "arango", "redpanda"}, h \in Erased(what)
               PROVE  Inside(h) \subseteq Erased(what)
      OBVIOUS
  <2>1. \A x : h \notin Inside(x)
      BY DEF Inside, InCluster
  <2>2. h \in what
      BY <2>1 DEF Erased
  <2> QED BY <2>2 DEF Erased
<1>2. \A h \in {"cluster", "arango", "redpanda"} : Inside(h) \subseteq Things
    BY DEF Things
<1>3. ASSUME NEW q, NEW h \in {"cluster", "arango", "redpanda"}, h \in Covered(q)
      PROVE  Inside(h) \subseteq Covered(q)
  <2>1. PICK s \in Elements(q) : s.op \in {"remove", "unlink"} /\ h \in Erased(s.what)
      BY <1>3 DEF Covered
  <2>2. Inside(h) \subseteq Erased(s.what) /\ Inside(h) \subseteq Things
      BY <1>1, <1>2, <2>1
  <2> QED BY <2>1, <2>2 DEF Covered
<1>4. ASSUME NEW what, NEW w, NEW i, WorldOK(i, w)
      PROVE  WorldOK(i, w \ Erased(what))
  <2>1. w \ Erased(what) \subseteq CanExist(i)
      BY <1>4 DEF WorldOK
  <2>2. ASSUME NEW h \in {"cluster", "arango", "redpanda"}, h \notin w \ Erased(what)
        PROVE  (w \ Erased(what)) \cap Inside(h) = {}
    <3>1. CASE h \notin w
        BY <1>4, <3>1 DEF WorldOK
    <3>2. CASE h \in Erased(what)
        BY <1>1, <3>2
    <3> QED BY <2>2, <3>1, <3>2
  <2> QED BY <2>1, <2>2 DEF WorldOK
<1> QED BY <1>3, <1>4

(* What is made where what it needs is there has its host. *)
LEMMA MakingFindsHosts ==
    ASSUME NEW i, NEW w, NEW part, WorldOK(i, w), part \subseteq CanExist(i),
           \A x \in part : Needs(x) \subseteq w
    PROVE  WorldOK(i, w \cup part)
<1>1. w \subseteq CanExist(i)
      /\ \A x \in {"cluster", "arango", "redpanda"} : x \notin w => w \cap Inside(x) = {}
    BY DEF WorldOK
<1>2. ASSUME NEW x \in part, x \in Inside("arango") PROVE "arango" \in w
  <2>1. "arango" \in Needs(x)
      BY <1>2 DEF Inside, Needs
  <2> QED BY <2>1
<1>3. ASSUME NEW x \in part, x \in Inside("redpanda") PROVE "redpanda" \in w
  <2>1. Needs(x) = {"redpanda"} \/ Needs(x) = {"topics"}
      BY <1>3 DEF Inside, Needs
  <2>2. "topics" \in Inside("redpanda")
      BY DEF Inside
  <2>3. "redpanda" \in w \/ "topics" \in w
      BY <2>1
  <2> QED BY <1>1, <2>2, <2>3
<1>4. ASSUME NEW x \in part, x \in InCluster PROVE "cluster" \in w
  <2>1. \/ "cluster" \in Needs(x) \/ "namespace" \in Needs(x) \/ "loaded images" \in Needs(x)
        \/ "redpanda service" \in Needs(x)
    <3>1. CASE x \in {"loaded images", "namespace"}
        BY <3>1 DEF Needs
    <3>2. CASE x \in {"arango service", "redpanda service", "writer secret", "reader secret"}
        BY <3>2 DEF Needs
    <3>3. CASE x \in {"indexer", "gremlin", "collector", "flink"}
        BY <3>3 DEF Needs
    <3> QED BY <1>4, <3>1, <3>2, <3>3 DEF InCluster
  <2>2. {"namespace", "loaded images", "redpanda service"} \subseteq Inside("cluster")
      BY DEF Inside, InCluster
  <2>3. w \cap ({"cluster"} \cup Inside("cluster")) # {}
      BY <2>1, <2>2
  <2> QED BY <1>1, <2>3
<1>5. Inside("cluster") = InCluster
    BY DEF Inside
<1> QED BY <1>1, <1>2, <1>3, <1>4, <1>5 DEF WorldOK

(* A test is replaced by the steps of its operation. *)
LEMMA TestKeeps ==
    ASSUME NEW i, NEW c, NEW t, NEW n, NEW f, NEW w, NEW d, NEW q,
           UserOK(i, c, t, f, w, d), Runs(t, n), Head(t[n]).op = "test", Fits(i, "op", q)
    PROVE  /\ n = "try"
           /\ UserOK(i, c, [Ahead(t, n) EXCEPT !.op = q], f, w, d)
<1> DEFINE r == Ahead(t, n)
           p == [r EXCEPT !.op = q]
<1>1. Typed(i, c, t) /\ ForwardsClose(c, t, f) /\ SweepErases(i, c, t, w, d)
    BY DEF UserOK
<1>2. /\ n \in Sections /\ t[n] # <<>> /\ c # "none" /\ IsStepOf(i, n, Head(t[n]))
      /\ \A m \in Sections \ {n} : r[m] = t[m]
  <2>1. c # "none" /\ IsStepOf(i, n, Head(t[n])) /\ Advances(t, n)
      BY <1>1, HeadsFit
  <2> QED BY <2>1 DEF Runs, Advances
<1>3. n = "try"
    BY <1>2 DEF IsStepOf, Allowed, Sections
<1>4. UserOK(i, c, r, f, w, d)
  <2>1. Head(t[n]).op \notin {"close", "forward"} \cup Erasing /\ Head(t[n]).op \notin Showing
      BY DEF Erasing, Showing
  <2> QED BY <2>1, PassKeeps
<1>5. /\ r.check = t.check /\ r.cleanup = t.cleanup /\ r.forget = t.forget
      /\ r.finally = t.finally
    BY <1>2, <1>3 DEF Sections
<1>6. /\ d # "faultless" /\ Both \subseteq Closer(c, r)
  <2>1. t.try # <<>>
      BY <1>2, <1>3
  <2>2. d # "faultless" /\ Both \subseteq Closer(c, t)
      BY <1>1, <2>1 DEF SweepErases, ForwardsClose
  <2> QED BY <1>5, <2>2 DEF Closer
<1> HIDE DEF r
<1>7. Typed(i, c, r) /\ ForwardsClose(c, r, f) /\ SweepErases(i, c, r, w, d) /\ ClaimIsLast(c, r, w)
    BY <1>4 DEF UserOK
<1>8. /\ p \in [Sections -> Seq(DemoSteps)] /\ p.op = q
      /\ \A m \in Sections \ {"op"} : p[m] = r[m]
    BY <1>7 DEF Typed, Fits, Sections
<1> HIDE DEF p
<1>9. Typed(i, c, p)
  <2>1. \A m \in Sections : Fits(i, m, p[m])
      BY <1>7, <1>8 DEF Typed
  <2>2. i => p.forget = <<>>
      BY <1>7, <1>8 DEF Typed, Sections
  <2> QED BY <1>2, <1>7, <1>8, <2>1, <2>2 DEF Typed
<1>10. /\ p.check = r.check /\ p.try = r.try /\ p.cleanup = r.cleanup
       /\ p.forget = r.forget /\ p.finally = r.finally
    BY <1>8 DEF Sections
<1>11. ForwardsClose(c, p, f)
  <2>1. Closer(c, p) = Closer(c, r)
      BY <1>10 DEF Closer
  <2> QED BY <1>6, <1>7, <1>10, <2>1 DEF ForwardsClose
<1>12. SweepErases(i, c, p, w, d)
    BY <1>6, <1>7, <1>10 DEF SweepErases, ToErase
<1>13. ClaimIsLast(c, p, w)
    BY <1>7, <1>10 DEF ClaimIsLast
<1>14. UserOK(i, c, p, f, w, d)
    BY <1>9, <1>11, <1>12, <1>13 DEF UserOK
<1> QED BY <1>3, <1>14 DEF p, r

(* An up that finds the environment ready only writes its state file. *)
LEMMA ReadyKeeps ==
    ASSUME ingest \in BOOLEAN, NEW t, NEW n, NEW f, NEW w, NEW d,
           UserOK(ingest, "up", t, f, w, d), Runs(t, n), Head(t[n]).op = "decide"
    PROVE  UserOK(ingest, "up", [Nothing EXCEPT !.check = SaveState], f, w, d)
<1> DEFINE p == [Nothing EXCEPT !.check = SaveState]
<1>1. Typed(ingest, "up", t) /\ ForwardsClose("up", t, f) /\ SweepErases(ingest, "up", t, w, d)
    BY DEF UserOK
<1>2. n \in Sections /\ t[n] # <<>> /\ IsStepOf(ingest, n, Head(t[n]))
  <2>1. IsStepOf(ingest, n, Head(t[n]))
      BY <1>1, HeadsFit
  <2> QED BY <2>1 DEF Runs
<1>3. n = "check"
    BY <1>2 DEF IsStepOf, Allowed, Sections
<1>4. f = {} /\ d # "faultless"
    BY <1>1, <1>2, <1>3 DEF ForwardsClose, SweepErases
<1>5. ~ ingest
    BY <1>1 DEF Typed
<1>6. Fits(ingest, "check", SaveState)
    BY <1>5, ChecksFit
<1>7. /\ p \in [Sections -> Seq(DemoSteps)] /\ p.check = SaveState
      /\ \A m \in Sections \ {"check"} : p[m] = <<>>
    BY <1>6, NothingIs DEF Fits, Sections
<1> HIDE DEF p
<1>8. Typed(ingest, "up", p)
  <2>1. \A m \in Sections : Fits(ingest, m, p[m])
      BY <1>6, <1>7, NothingIs
  <2> QED BY <1>1, <1>7, <2>1 DEF Typed
<1>9. p.op = <<>> /\ p.try = <<>> /\ p.cleanup = <<>> /\ p.forget = <<>>
    BY <1>7 DEF Sections
<1>10. ForwardsClose("up", p, f)
    BY <1>4, <1>9, NothingIs DEF ForwardsClose
<1>11. SweepErases(ingest, "up", p, w, d)
    BY <1>1, <1>4, <1>9 DEF SweepErases
<1>12. ClaimIsLast("up", p, w)
    BY <1>9 DEF ClaimIsLast
<1> QED BY <1>8, <1>10, <1>11, <1>12 DEF UserOK, p

-----------------------------------------------------------------------------
(* The steps of the specification *)

LEMMA OneMoves ==
    ASSUME OneUser, NEW u \in Users, DemoShape',
           WorldOK(ingest', world'),
           UserOK(ingest', cmd'[u], todo'[u], Owed(u)', world', sweep'[u])
    PROVE  DemoInv'
<1>1. \A x \in Users : x = u
    BY DEF OneUser
<1> QED BY <1>1 DEF DemoInv

(* A user whose command has steps left runs the first of its section. *)
LEMMA RunningSection ==
    ASSUME DemoInv, NEW u \in Users, todo[u] # Nothing
    PROVE  /\ Section(u) \in Sections /\ Runs(todo[u], Section(u))
           /\ Now(u) = Head(todo[u][Section(u)])
           /\ todo[u] \in [Sections -> Seq(DemoSteps)]
           /\ UserOK(ingest, cmd[u], todo[u], Owed(u), world, sweep[u])
           /\ IsStepOf(ingest, Section(u), Now(u))
           /\ Ahead(todo[u], Section(u)) \in [Sections -> Seq(DemoSteps)]
           /\ [todo EXCEPT ![u][Section(u)] = Tail(@)]
                = [todo EXCEPT ![u] = Ahead(todo[u], Section(u))]
           /\ AfterFailure(u) = Failing(cmd[u], todo[u], Section(u))
<1>1. /\ todo \in [Users -> [Sections -> Seq(DemoSteps)]]
      /\ UserOK(ingest, cmd[u], todo[u], Owed(u), world, sweep[u])
    BY DEF DemoInv, DemoShape
<1>2. todo[u] \in [Sections -> Seq(DemoSteps)]
    BY <1>1
<1>3. Section(u) \in Sections /\ Runs(todo[u], Section(u))
    BY <1>2, SectionIsFirst DEF Runs
<1>4. Typed(ingest, cmd[u], todo[u])
    BY <1>1 DEF UserOK
<1>5. /\ IsStepOf(ingest, Section(u), Head(todo[u][Section(u)]))
      /\ Typed(ingest, cmd[u], Ahead(todo[u], Section(u)))
    BY <1>3, <1>4, HeadsFit
<1>6. Ahead(todo[u], Section(u)) \in [Sections -> Seq(DemoSteps)]
    BY <1>5 DEF Typed
<1>7. [todo EXCEPT ![u][Section(u)] = Tail(@)] = [todo EXCEPT ![u] = Ahead(todo[u], Section(u))]
    BY <1>1 DEF Ahead
<1>8. AfterFailure(u) = Failing(cmd[u], todo[u], Section(u))
    BY DEF AfterFailure, Failing, Drop
<1> QED BY <1>1, <1>2, <1>3, <1>5, <1>6, <1>7, <1>8 DEF Now

(* DemoSteps that succeed, and what they add. *)
LEMMA Passing ==
    ASSUME OneUser, DemoInv, NEW u \in Users, todo[u] # Nothing,
           Now(u).op \notin {"close", "forward"} \cup Erasing,
           StepDone(u), world \subseteq world',
           Now(u).op \in Showing => Now(u).what \subseteq world',
           WorldOK(ingest, world'),
           seen' \in [Users -> SUBSET Parts],
           UNCHANGED <<ingest, cmd, forwards, failed, sweep, disturbed>>
    PROVE  DemoInv'
<1>1. /\ Runs(todo[u], Section(u)) /\ Now(u) = Head(todo[u][Section(u)])
      /\ UserOK(ingest, cmd[u], todo[u], Owed(u), world, sweep[u])
      /\ Ahead(todo[u], Section(u)) \in [Sections -> Seq(DemoSteps)]
      /\ todo' = [todo EXCEPT ![u] = Ahead(todo[u], Section(u))]
    BY RunningSection DEF StepDone
<1>2. todo' \in [Users -> [Sections -> Seq(DemoSteps)]] /\ todo'[u] = Ahead(todo[u], Section(u))
    BY <1>1 DEF DemoInv, DemoShape
<1>3. UserOK(ingest, cmd[u], Ahead(todo[u], Section(u)), Owed(u), world', sweep[u])
    BY <1>1, PassKeeps
<1>4. DemoShape'
    BY <1>2 DEF DemoInv, DemoShape
<1>5. UserOK(ingest', cmd'[u], todo'[u], Owed(u)', world', sweep'[u])
    BY <1>2, <1>3 DEF Owed
<1> QED BY <1>4, <1>5, OneMoves

(* Steps that fail, and the part of their effect that they had. *)
LEMMA Raising ==
    ASSUME OneUser, DemoInv, NEW u \in Users, todo[u] # Nothing,
           Raise(u), WorldOK(ingest, world'),
           \/ /\ Now(u).op \in Erasing
              /\ sweep' = [sweep EXCEPT ![u] = "faulty"]
           \/ /\ Now(u).op \notin Erasing /\ Now(u).op # "close"
              /\ world \subseteq world' /\ sweep' = sweep
           \/ /\ Now(u).op = "close" /\ world' = world
              /\ sweep' = [sweep EXCEPT
                    ![u] = IF Section(u) = "cleanup" THEN "faulty" ELSE sweep[u]],
           UNCHANGED <<ingest, cmd, seen, forwards>>
    PROVE  DemoInv'
<1> DEFINE n == Section(u)
           g == Owed(u)'
<1>1. /\ Runs(todo[u], n) /\ Now(u) = Head(todo[u][n])
      /\ UserOK(ingest, cmd[u], todo[u], Owed(u), world, sweep[u])
      /\ todo' = [todo EXCEPT ![u] = Failing(cmd[u], todo[u], n)]
      /\ failed' = [failed EXCEPT ![u] = TRUE]
      /\ disturbed' = [disturbed EXCEPT ![u] = disturbed[u] \/ AtClosing(u)]
    BY RunningSection DEF Raise
<1>2. /\ sweep' \in [Users -> {"none", "faultless", "faulty"}]
      /\ sweep \in [Users -> {"none", "faultless", "faulty"}]
      /\ disturbed \in [Users -> BOOLEAN]
    BY DEF DemoInv, DemoShape
<1>3. /\ disturbed' \in [Users -> BOOLEAN]
      /\ disturbed'[u] = (disturbed[u] \/ AtClosing(u))
  <2>1. (disturbed[u] \/ AtClosing(u)) \in BOOLEAN
      OBVIOUS
  <2> QED BY <1>1, <1>2, <2>1
<1>4. g \subseteq Owed(u)
    BY <1>3 DEF Owed
<1>5. n = Closing(cmd[u]) /\ Now(u).op \in {"read", "close"} => g = {}
  <2>1. n = Closing(cmd[u]) /\ Now(u).op \in {"read", "close"} => AtClosing(u)
      BY DEF AtClosing, InClosing, At
  <2> QED BY <1>3, <2>1 DEF Owed
<1>6. Fault(cmd[u], n, Now(u).op, g, world, world', sweep[u], sweep'[u])
  <2>1. CASE Now(u).op \in Erasing
      BY <1>2, <1>5, <2>1 DEF Fault, Erasing
  <2>2. CASE Now(u).op \notin Erasing /\ Now(u).op # "close"
    <3>1. world \subseteq world' /\ sweep' = sweep
        BY <2>2
    <3> QED BY <1>5, <2>2, <3>1 DEF Fault
  <2>3. CASE Now(u).op = "close"
    <3>1. /\ world' = world
          /\ sweep'[u] = IF n = "cleanup" THEN "faulty" ELSE sweep[u]
        BY <1>2, <2>3 DEF Erasing
    <3>2. Now(u).op \notin Erasing
        BY <2>3 DEF Erasing
    <3> QED BY <1>5, <2>3, <3>1, <3>2 DEF Fault
  <2> QED BY <2>1, <2>2, <2>3
<1>7. UserOK(ingest, cmd[u], todo[u], g, world, sweep[u])
    BY <1>1, <1>4, LosingKeeps
<1> HIDE DEF g, n
<1>8. UserOK(ingest, cmd[u], Failing(cmd[u], todo[u], n), g, world', sweep'[u])
  <2>1. ingest \in BOOLEAN
      BY DEF DemoInv, DemoShape
  <2> QED BY <1>1, <1>6, <1>7, <2>1, RaiseKeeps
<1>9. Failing(cmd[u], todo[u], n) \in [Sections -> Seq(DemoSteps)]
    BY <1>8 DEF UserOK, Typed
<1>10. /\ todo' \in [Users -> [Sections -> Seq(DemoSteps)]]
       /\ todo'[u] = Failing(cmd[u], todo[u], n)
    BY <1>1, <1>9 DEF DemoInv, DemoShape
<1>11. failed' \in [Users -> BOOLEAN]
    BY <1>1 DEF DemoInv, DemoShape
<1>12. DemoShape'
    BY <1>2, <1>3, <1>10, <1>11 DEF DemoInv, DemoShape
<1>13. UserOK(ingest', cmd'[u], todo'[u], Owed(u)', world', sweep'[u])
    BY <1>8, <1>10 DEF g
<1> QED BY <1>12, <1>13, OneMoves

(* Something is created, or found to exist. *)
LEMMA MakeIsSafe ==
    ASSUME OneUser, DemoInv, NEW u \in Users, Make(u)
    PROVE  DemoInv'
<1>1. /\ todo[u] # Nothing /\ Now(u).op \in {"create", "ensure"}
      /\ Needed(u) \subseteq world /\ world' = world \cup Now(u).what /\ StepDone(u)
      /\ UNCHANGED <<ingest, cmd, seen, forwards, failed, sweep, disturbed>>
    BY DEF Make, At, What
<1>2. WorldOK(ingest, world) /\ seen \in [Users -> SUBSET Parts]
    BY DEF DemoInv, DemoShape
<1>3. Now(u).what \subseteq CanExist(ingest)
    BY <1>1, RunningSection DEF IsStepOf
<1>4. \A x \in Now(u).what : Needs(x) \subseteq world
    BY <1>1 DEF Needed, What
<1>5. WorldOK(ingest, world')
    BY <1>1, <1>2, <1>3, <1>4, MakingFindsHosts
<1>6. Now(u).op \notin {"close", "forward"} \cup Erasing
    BY <1>1 DEF Erasing
<1> QED BY <1>1, <1>2, <1>5, <1>6, Passing

(* A command fails or times out with a part of its effect. *)
LEMMA FailIsSafe ==
    ASSUME OneUser, DemoInv, NEW u \in Users, Fail(u)
    PROVE  DemoInv'
<1>1. PICK part \in SUBSET What(u) :
        /\ part # {} => Needed(u) \subseteq world
        /\ world' = world \cup part
    BY DEF Fail
<1>2. /\ todo[u] # Nothing /\ Now(u).op \in {"create", "ensure", "read", "forward", "inspect"}
      /\ Raise(u) /\ UNCHANGED <<ingest, cmd, seen, forwards, sweep>>
    BY DEF Fail, At
<1>3. part \subseteq CanExist(ingest)
    BY <1>2, RunningSection DEF IsStepOf, What
<1>4. \A x \in part : Needs(x) \subseteq world
    BY <1>1 DEF Needed
<1>5. WorldOK(ingest, world')
    BY <1>1, <1>3, <1>4, MakingFindsHosts DEF DemoInv
<1>6. Now(u).op # "close" /\ Now(u).op \notin Erasing
    BY <1>2 DEF Erasing
<1> QED BY <1>1, <1>2, <1>5, <1>6, Raising

(* The topics are created, acknowledged or not. *)
LEMMA CreateTopicsIsSafe ==
    ASSUME OneUser, DemoInv, NEW u \in Users, CreateTopics(u)
    PROVE  DemoInv'
<1>1. /\ todo[u] # Nothing /\ Now(u).op = "topics"
      /\ "redpanda" \in world /\ world' = world \cup Now(u).what
      /\ StepDone(u) \/ UNCHANGED todo
      /\ UNCHANGED <<ingest, cmd, seen, forwards, failed, sweep, disturbed>>
    BY DEF CreateTopics, At, What
<1>2. Now(u).what = {"topics"} /\ Section(u) = "try" /\ "topics" \in CanExist(ingest)
  <2>1. IsStepOf(ingest, Section(u), Now(u)) /\ Section(u) \in Sections
      BY <1>1, RunningSection
  <2> QED BY <1>1, <2>1 DEF IsStepOf, Allowed, Sections
<1>3. WorldOK(ingest, world')
  <2>1. \A x \in {"topics"} : Needs(x) \subseteq world
      BY <1>1 DEF Needs
  <2>2. {"topics"} \subseteq CanExist(ingest) /\ WorldOK(ingest, world)
      BY <1>2 DEF DemoInv
  <2>3. WorldOK(ingest, world \cup {"topics"})
      BY <2>1, <2>2, MakingFindsHosts
  <2> QED BY <1>1, <1>2, <2>3
<1>4. CASE StepDone(u)
  <2>1. seen' \in [Users -> SUBSET Parts]
      BY <1>1 DEF DemoInv, DemoShape
  <2>2. Now(u).op \notin {"close", "forward"} \cup Erasing
      BY <1>1 DEF Erasing
  <2> QED BY <1>1, <1>3, <1>4, <2>1, <2>2, Passing
<1>5. CASE UNCHANGED todo
  <2>1. /\ UserOK(ingest, cmd[u], todo[u], Owed(u), world, sweep[u])
        /\ todo[u]["try"] # <<>>
      BY <1>1, <1>2, RunningSection DEF Runs
  <2>2. sweep[u] # "faultless"
      BY <2>1 DEF UserOK, SweepErases
  <2>3. world \subseteq world'
      BY <1>1
  <2>4. UserOK(ingest, cmd[u], todo[u], Owed(u), world', sweep[u])
      BY <2>1, <2>2, <2>3, GrowthKeeps
  <2>5. DemoShape'
      BY <1>1, <1>5 DEF DemoInv, DemoShape
  <2>6. UserOK(ingest', cmd'[u], todo'[u], Owed(u)', world', sweep'[u])
      BY <1>1, <1>5, <2>4 DEF Owed
  <2> QED BY <1>1, <1>3, <2>5, <2>6, OneMoves
<1> QED BY <1>1, <1>4, <1>5

(* Something is there, or can be read. *)
LEMMA WaitForIsSafe ==
    ASSUME OneUser, DemoInv, NEW u \in Users, WaitFor(u) \/ Answer(u)
    PROVE  DemoInv'
<1>1. /\ todo[u] # Nothing /\ Now(u).op \in {"await", "read", "ask"}
      /\ Now(u).what \subseteq world /\ StepDone(u)
      /\ UNCHANGED <<ingest, world, cmd, seen, forwards, failed, sweep, disturbed>>
    BY DEF WaitFor, Answer, At, What
<1>2. WorldOK(ingest, world) /\ seen \in [Users -> SUBSET Parts]
    BY DEF DemoInv, DemoShape
<1>3. Now(u).op \notin {"close", "forward"} \cup Erasing
    BY <1>1 DEF Erasing
<1> QED BY <1>1, <1>2, <1>3, Passing

(* A wait ends at its deadline, or a question is refused. *)
LEMMA TimeOutIsSafe ==
    ASSUME OneUser, DemoInv, NEW u \in Users, TimeOut(u) \/ AnswerFails(u)
    PROVE  DemoInv'
<1>1. /\ todo[u] # Nothing /\ Now(u).op \in {"await", "topics", "ask"} /\ Raise(u)
      /\ UNCHANGED <<ingest, world, cmd, seen, forwards, sweep>>
    BY DEF TimeOut, AnswerFails, At
<1>2. WorldOK(ingest, world')
    BY <1>1 DEF DemoInv
<1>3. Now(u).op # "close" /\ Now(u).op \notin Erasing
    BY <1>1 DEF Erasing
<1> QED BY <1>1, <1>2, <1>3, Raising

(* A port-forward does not end when it is closed. *)
LEMMA CloseFailsIsSafe ==
    ASSUME OneUser, DemoInv, NEW u \in Users, CloseFails(u)
    PROVE  DemoInv'
<1>1. /\ todo[u] # Nothing /\ Now(u).op = "close" /\ Raise(u)
      /\ sweep' = [sweep EXCEPT
            ![u] = IF Section(u) = "cleanup" THEN "faulty" ELSE sweep[u]]
      /\ UNCHANGED <<ingest, world, cmd, seen, forwards>>
  <2>1. sweep \in [Users -> {"none", "faultless", "faulty"}]
      BY DEF DemoInv, DemoShape
  <2> QED BY <2>1 DEF CloseFails, At
<1>2. WorldOK(ingest, world')
    BY <1>1 DEF DemoInv
<1> QED BY <1>1, <1>2, Raising

(* A port-forward is started or stopped. *)
LEMMA ForwardsAreSafe ==
    ASSUME OneUser, DemoInv, NEW u \in Users, OpenForward(u) \/ CloseForward(u)
    PROVE  DemoInv'
<1>1. /\ todo[u] # Nothing /\ StepDone(u)
      /\ UNCHANGED <<ingest, world, cmd, seen, failed, sweep, disturbed>>
      /\ \/ /\ Now(u).op = "forward"
            /\ forwards' = [forwards EXCEPT ![u] = @ \cup Now(u).what]
         \/ /\ Now(u).op = "close"
            /\ forwards' = [forwards EXCEPT ![u] = @ \ Now(u).what]
    BY DEF OpenForward, CloseForward, At, What
<1>2. /\ Runs(todo[u], Section(u)) /\ Now(u) = Head(todo[u][Section(u)])
      /\ UserOK(ingest, cmd[u], todo[u], Owed(u), world, sweep[u])
      /\ Ahead(todo[u], Section(u)) \in [Sections -> Seq(DemoSteps)]
      /\ todo' = [todo EXCEPT ![u] = Ahead(todo[u], Section(u))]
    BY <1>1, RunningSection DEF StepDone
<1>3. todo' \in [Users -> [Sections -> Seq(DemoSteps)]] /\ todo'[u] = Ahead(todo[u], Section(u))
    BY <1>2 DEF DemoInv, DemoShape
<1>4. forwards \in [Users -> SUBSET Both]
    BY DEF DemoInv, DemoShape
<1>5. UserOK(ingest, cmd[u], Ahead(todo[u], Section(u)), Owed(u)', world, sweep[u])
  <2>1. CASE Now(u).op = "forward"
    <3>1. UserOK(ingest, cmd[u], Ahead(todo[u], Section(u)), Owed(u) \cup Now(u).what,
                 world, sweep[u])
        BY <1>2, <2>1, OpenKeeps
    <3>2. forwards'[u] = forwards[u] \cup Now(u).what
        BY <1>1, <1>4, <2>1
    <3>3. Owed(u)' \subseteq Owed(u) \cup Now(u).what
        BY <1>1, <3>2 DEF Owed
    <3> QED BY <3>1, <3>3, LosingKeeps
  <2>2. CASE Now(u).op = "close"
    <3>1. UserOK(ingest, cmd[u], Ahead(todo[u], Section(u)), Owed(u) \ Now(u).what,
                 world, sweep[u])
        BY <1>2, <2>2, CloseKeeps
    <3>2. forwards'[u] = forwards[u] \ Now(u).what
        BY <1>1, <1>4, <2>2
    <3>3. Owed(u)' \subseteq Owed(u) \ Now(u).what
        BY <1>1, <3>2 DEF Owed
    <3> QED BY <3>1, <3>3, LosingKeeps
  <2> QED BY <1>1, <2>1, <2>2
<1>6. forwards' \in [Users -> SUBSET Both]
  <2>1. Now(u).op = "forward" => Now(u).what \subseteq Both
      BY <1>1, RunningSection DEF IsStepOf
  <2> QED BY <1>1, <1>4, <2>1
<1>7. DemoShape'
    BY <1>1, <1>3, <1>6 DEF DemoInv, DemoShape
<1>8. UserOK(ingest', cmd'[u], todo'[u], Owed(u)', world', sweep'[u])
    BY <1>1, <1>3, <1>5
<1>9. WorldOK(ingest', world')
    BY <1>1 DEF DemoInv
<1> QED BY <1>7, <1>8, <1>9, OneMoves

(* A part is looked for; a command goes ahead with what was found. *)
LEMMA InspectingIsSafe ==
    ASSUME OneUser, DemoInv, NEW u \in Users,
           InspectPart(u) \/ GoAhead(u)
    PROVE  DemoInv'
<1>1. /\ todo[u] # Nothing /\ Now(u).op \in {"inspect", "decide"} /\ StepDone(u)
      /\ UNCHANGED <<ingest, world, cmd, forwards, failed, sweep, disturbed>>
    BY DEF InspectPart, GoAhead, At
<1>2. seen' \in [Users -> SUBSET Parts]
  <2>1. seen \in [Users -> SUBSET Parts]
      BY DEF DemoInv, DemoShape
  <2>2. CASE UNCHANGED seen
      BY <2>1, <2>2
  <2>3. CASE Inspectable(u) /\ InspectPart(u) /\ seen' = [seen EXCEPT ![u] = @ \cup What(u)]
    <3>1. What(u) \subseteq Parts
        BY <1>1, <2>3, RunningSection DEF InspectPart, At, What, IsStepOf
    <3> QED BY <2>1, <2>3, <3>1
  <2> QED BY <2>2, <2>3 DEF InspectPart, GoAhead
<1>3. WorldOK(ingest, world')
    BY <1>1 DEF DemoInv
<1>4. /\ Now(u).op \notin {"close", "forward"} \cup Erasing
      /\ Now(u).op \notin Showing
    BY <1>1 DEF Erasing, Showing
<1> QED BY <1>1, <1>2, <1>3, <1>4, Passing

(* An up finds the demo ready. *)
LEMMA AlreadyRunningIsSafe ==
    ASSUME OneUser, DemoInv, NEW u \in Users, AlreadyRunning(u)
    PROVE  DemoInv'
<1>1. /\ todo[u] # Nothing /\ Now(u).op = "decide" /\ cmd[u] = "up"
      /\ todo' = [todo EXCEPT ![u] = [Nothing EXCEPT !.check = SaveState]]
      /\ UNCHANGED <<ingest, world, cmd, seen, forwards, failed, sweep, disturbed>>
    BY DEF AlreadyRunning, At
<1>2. /\ Runs(todo[u], Section(u)) /\ Now(u) = Head(todo[u][Section(u)])
      /\ UserOK(ingest, "up", todo[u], Owed(u), world, sweep[u])
      /\ ingest \in BOOLEAN
    BY <1>1, RunningSection DEF DemoInv, DemoShape
<1>3. UserOK(ingest, "up", [Nothing EXCEPT !.check = SaveState], Owed(u), world, sweep[u])
    BY <1>1, <1>2, ReadyKeeps
<1>4. [Nothing EXCEPT !.check = SaveState] \in [Sections -> Seq(DemoSteps)]
    BY <1>3 DEF UserOK, Typed
<1>5. /\ todo' \in [Users -> [Sections -> Seq(DemoSteps)]]
      /\ todo'[u] = [Nothing EXCEPT !.check = SaveState]
    BY <1>1, <1>4 DEF DemoInv, DemoShape
<1>6. DemoShape' /\ WorldOK(ingest', world')
    BY <1>1, <1>5 DEF DemoInv, DemoShape
<1>7. UserOK(ingest', cmd'[u], todo'[u], Owed(u)', world', sweep'[u])
    BY <1>1, <1>3, <1>5 DEF Owed
<1> QED BY <1>6, <1>7, OneMoves

(* A command refuses what it found. *)
LEMMA RefuseIsSafe ==
    ASSUME OneUser, DemoInv, NEW u \in Users, Refuse(u)
    PROVE  DemoInv'
<1>1. /\ todo[u] # Nothing /\ Now(u).op = "decide" /\ Raise(u)
      /\ UNCHANGED <<ingest, world, cmd, seen, forwards, sweep>>
    BY DEF Refuse, At
<1>2. WorldOK(ingest, world')
    BY <1>1 DEF DemoInv
<1>3. Now(u).op # "close" /\ Now(u).op \notin Erasing
    BY <1>1 DEF Erasing
<1> QED BY <1>1, <1>2, <1>3, Raising

(* A session tries an operation. *)
LEMMA TestIsSafe ==
    ASSUME OneUser, DemoInv, NEW u \in Users, Test(u)
    PROVE  DemoInv'
<1>1. PICK operation \in Operations(u) :
        todo' = [todo EXCEPT ![u].op = operation, ![u].try = Tail(@)]
    BY DEF Test
<1>2. /\ todo[u] # Nothing /\ Now(u).op = "test"
      /\ UNCHANGED <<ingest, world, cmd, seen, forwards, failed, sweep, disturbed>>
    BY DEF Test, At
<1>3. /\ Runs(todo[u], Section(u)) /\ Now(u) = Head(todo[u][Section(u)])
      /\ UserOK(ingest, cmd[u], todo[u], Owed(u), world, sweep[u])
      /\ todo \in [Users -> [Sections -> Seq(DemoSteps)]] /\ ingest \in BOOLEAN
    BY <1>2, RunningSection DEF DemoInv, DemoShape
<1>4. Fits(ingest, "op", operation)
    BY <1>3, OperationsFit
<1>5. /\ Section(u) = "try"
      /\ UserOK(ingest, cmd[u], [Ahead(todo[u], Section(u)) EXCEPT !.op = operation],
                Owed(u), world, sweep[u])
    BY <1>2, <1>3, <1>4, TestKeeps
<1> DEFINE t == [Ahead(todo[u], "try") EXCEPT !.op = operation]
<1>6. t \in [Sections -> Seq(DemoSteps)]
    BY <1>5 DEF UserOK, Typed
<1>7. todo' = [todo EXCEPT ![u] = t]
  <2>1. todo[u] \in [Sections -> Seq(DemoSteps)] /\ "op" \in Sections /\ "try" \in Sections
      BY <1>3 DEF Sections
  <2> QED BY <1>1, <1>3, <2>1 DEF Ahead
<1> HIDE DEF t
<1>8. todo' \in [Users -> [Sections -> Seq(DemoSteps)]] /\ todo'[u] = t
    BY <1>3, <1>6, <1>7
<1>9. DemoShape' /\ WorldOK(ingest', world')
    BY <1>2, <1>8 DEF DemoInv, DemoShape
<1>10. UserOK(ingest', cmd'[u], todo'[u], Owed(u)', world', sweep'[u])
    BY <1>2, <1>5, <1>8 DEF t, Owed
<1> QED BY <1>9, <1>10, OneMoves

(* A cleanup removes something, or fails to. *)
LEMMA EraseIsSafe ==
    ASSUME OneUser, DemoInv, NEW u \in Users, Erase(u) \/ EraseFails(u)
    PROVE  DemoInv'
<1>1. /\ todo[u] # Nothing /\ Now(u).op \in Erasing
      /\ UNCHANGED <<ingest, cmd, seen, forwards>>
    BY DEF Erase, EraseFails, At, Erasing
<1>2. /\ Runs(todo[u], Section(u)) /\ Now(u) = Head(todo[u][Section(u)])
      /\ UserOK(ingest, cmd[u], todo[u], Owed(u), world, sweep[u])
      /\ Ahead(todo[u], Section(u)) \in [Sections -> Seq(DemoSteps)]
    BY <1>1, RunningSection
<1>3. /\ sweep \in [Users -> {"none", "faultless", "faulty"}] /\ WorldOK(ingest, world)
      /\ world \subseteq CanExist(ingest)
    BY DEF DemoInv, DemoShape, WorldOK
<1>4. \A part : Removed(part) = world \ Erased(part)
    BY DEF Removed, Erased
<1>5. WorldOK(ingest, world')
  <2>1. \E part : world' = Removed(part)
      BY DEF Erase, EraseFails
  <2> QED BY <1>3, <1>4, <2>1, HostsHold
<1>6. CASE StepDone(u) /\ UNCHANGED <<failed, disturbed>>
  <2>1. todo' = [todo EXCEPT ![u] = Ahead(todo[u], Section(u))]
      BY <1>1, <1>6, RunningSection DEF StepDone
  <2>2. todo' \in [Users -> [Sections -> Seq(DemoSteps)]] /\ todo'[u] = Ahead(todo[u], Section(u))
      BY <1>2, <2>1 DEF DemoInv, DemoShape
  <2>3. /\ sweep' \in [Users -> {"none", "faultless", "faulty"}]
        /\ \/ sweep'[u] = "faulty"
           \/ /\ sweep'[u] = IF sweep[u] = "none" THEN "faultless" ELSE sweep[u]
              /\ world' = world \ Erased(Now(u).what)
    <3>1. CASE Erase(u)
      <4>1. sweep' = [sweep EXCEPT ![u] = IF sweep[u] = "none" THEN "faultless" ELSE sweep[u]]
          BY <1>3, <3>1 DEF Erase
      <4>2. world' = world \ Erased(Now(u).what)
          BY <1>4, <3>1 DEF Erase, What
      <4> QED BY <1>3, <4>1, <4>2
    <3>2. CASE EraseFails(u)
      <4>1. sweep' = [sweep EXCEPT ![u] = "faulty"]
          BY <3>2 DEF EraseFails
      <4> QED BY <1>3, <4>1
    <3> QED BY <3>1, <3>2
  <2>4. UserOK(ingest, cmd[u], Ahead(todo[u], Section(u)), Owed(u), world', sweep'[u])
      BY <1>1, <1>2, <1>3, <2>3, EraseKeeps
  <2>5. DemoShape'
      BY <1>1, <1>6, <2>2, <2>3 DEF DemoInv, DemoShape
  <2>6. UserOK(ingest', cmd'[u], todo'[u], Owed(u)', world', sweep'[u])
      BY <1>1, <1>6, <2>2, <2>4 DEF Owed
  <2> QED BY <1>1, <1>5, <2>5, <2>6, OneMoves
<1>7. CASE Raise(u) /\ sweep' = [sweep EXCEPT ![u] = "faulty"]
    BY <1>1, <1>5, <1>7, Raising
<1> QED BY <1>6, <1>7 DEF Erase, EraseFails

(* Ctrl-C. *)
LEMMA InterruptIsSafe ==
    ASSUME OneUser, DemoInv, NEW u \in Users, Interrupt(u)
    PROVE  DemoInv'
<1> DEFINE n == Section(u)
           g == Owed(u)'
           t == Interrupted(cmd[u], todo[u], n)
           e == IF n \in {"cleanup", "forget"} THEN "faulty" ELSE sweep[u]
           lost == disturbed[u] \/ AtClosing(u) \/ At(u, {"forward"})
<1>1. /\ todo[u] # Nothing
      /\ todo' = [todo EXCEPT ![u] = t]
      /\ failed' = [failed EXCEPT ![u] = TRUE]
      /\ sweep' = [sweep EXCEPT ![u] = e]
      /\ disturbed' = [disturbed EXCEPT ![u] = lost]
      /\ UNCHANGED <<ingest, world, cmd, seen, forwards>>
    BY DEF Interrupt, Interrupted, InClosing
<1>2. /\ Runs(todo[u], n) /\ Now(u) = Head(todo[u][n])
      /\ UserOK(ingest, cmd[u], todo[u], Owed(u), world, sweep[u])
      /\ ingest \in BOOLEAN
    BY <1>1, RunningSection DEF DemoInv, DemoShape
<1>3. lost \in BOOLEAN /\ e \in {"none", "faultless", "faulty"}
    BY DEF DemoInv, DemoShape
<1> HIDE DEF t, e
<1>4. /\ disturbed' \in [Users -> BOOLEAN] /\ disturbed'[u] = lost
      /\ sweep' \in [Users -> {"none", "faultless", "faulty"}] /\ sweep'[u] = e
      /\ failed' \in [Users -> BOOLEAN]
  <2> HIDE DEF lost
  <2> QED BY <1>1, <1>3 DEF DemoInv, DemoShape
<1>5. g \subseteq Owed(u)
    BY <1>1, <1>4 DEF Owed
<1>6. n = Closing(cmd[u]) /\ Now(u).op \in {"read", "close"} => g = {}
  <2>1. n = Closing(cmd[u]) /\ Now(u).op \in {"read", "close"} => AtClosing(u)
      BY <1>1 DEF AtClosing, InClosing, At
  <2> QED BY <1>4, <2>1 DEF Owed
<1>7. UserOK(ingest, cmd[u], todo[u], g, world, sweep[u])
    BY <1>2, <1>5, LosingKeeps
<1> HIDE DEF g, n
<1>8. UserOK(ingest, cmd[u], t, g, world, e)
    BY <1>2, <1>6, <1>7, InterruptKeeps DEF t, e
<1>9. t \in [Sections -> Seq(DemoSteps)]
    BY <1>8 DEF UserOK, Typed
<1>10. todo' \in [Users -> [Sections -> Seq(DemoSteps)]] /\ todo'[u] = t
    BY <1>1, <1>9 DEF DemoInv, DemoShape
<1>11. DemoShape' /\ WorldOK(ingest', world')
    BY <1>1, <1>4, <1>10 DEF DemoInv, DemoShape
<1>12. UserOK(ingest', cmd'[u], todo'[u], Owed(u)', world', sweep'[u])
    BY <1>1, <1>4, <1>8, <1>10 DEF g
<1> QED BY <1>11, <1>12, OneMoves

(* A process ends by itself or is killed. *)
LEMMA EndingIsSafe ==
    ASSUME OneUser, DemoInv, NEW u \in Users, ProcessEnds(u)
    PROVE  DemoInv'
<1>1. /\ cmd' = [cmd EXCEPT ![u] = "none"] /\ todo' = [todo EXCEPT ![u] = Nothing]
      /\ seen' = [seen EXCEPT ![u] = {}] /\ forwards' = [forwards EXCEPT ![u] = {}]
      /\ failed' = [failed EXCEPT ![u] = FALSE] /\ sweep' = [sweep EXCEPT ![u] = "none"]
      /\ disturbed' = [disturbed EXCEPT ![u] = FALSE]
      /\ UNCHANGED <<ingest, world>>
    BY DEF ProcessEnds
<1>2. UserOK(ingest, "none", Nothing, {}, world, "none")
    BY NothingKeeps
<1>3. /\ cmd'[u] = "none" /\ todo'[u] = Nothing /\ forwards'[u] = {} /\ sweep'[u] = "none"
      /\ DemoShape'
    BY <1>1, NothingIs DEF DemoInv, DemoShape
<1>4. UserOK(ingest', cmd'[u], todo'[u], Owed(u)', world', sweep'[u])
    BY <1>1, <1>2, <1>3 DEF Owed
<1>5. WorldOK(ingest', world')
    BY <1>1 DEF DemoInv
<1> QED BY <1>3, <1>4, <1>5, OneMoves

(* A user starts a command. *)
LEMMA StartIsSafe ==
    ASSUME OneUser, DemoInv, NEW u \in Users, Start(u)
    PROVE  DemoInv'
<1>1. PICK c \in Commands : /\ cmd' = [cmd EXCEPT ![u] = c]
                            /\ todo' = [todo EXCEPT ![u] = Script(c)]
    BY DEF Start
<1>2. cmd[u] = "none" /\ UNCHANGED <<ingest, world, seen, forwards, failed, sweep, disturbed>>
    BY DEF Start
<1>3. /\ UserOK(ingest, cmd[u], todo[u], Owed(u), world, sweep[u]) /\ ingest \in BOOLEAN
    BY DEF DemoInv, DemoShape
<1>4. Owed(u) = {} /\ sweep[u] = "none"
  <2>1. Typed(ingest, "none", todo[u]) /\ ForwardsClose("none", todo[u], Owed(u))
        /\ SweepErases(ingest, "none", todo[u], world, sweep[u])
      BY <1>2, <1>3 DEF UserOK
  <2>2. todo[u].finally = <<>>
      BY <2>1, NothingIs DEF Typed, Sections
  <2>3. Owed(u) \subseteq Closed(<<>>)
      BY <2>1, <2>2 DEF ForwardsClose, Closer
  <2> QED BY <2>1, <2>3, NothingIs DEF SweepErases
<1>5. /\ UserOK(ingest, c, Script(c), {}, world, "none")
      /\ c \in {"up", "down", "status", "query", "session"}
    BY <1>3, ScriptsAreOK
<1>6. Script(c) \in [Sections -> Seq(DemoSteps)]
    BY <1>5 DEF UserOK, Typed
<1>7. /\ cmd'[u] = c /\ todo'[u] = Script(c)
      /\ cmd' \in [Users -> {"none", "up", "down", "status", "query", "session"}]
      /\ todo' \in [Users -> [Sections -> Seq(DemoSteps)]]
    BY <1>1, <1>5, <1>6 DEF DemoInv, DemoShape
<1>8. DemoShape' /\ WorldOK(ingest', world')
    BY <1>2, <1>7 DEF DemoInv, DemoShape
<1>9. UserOK(ingest', cmd'[u], todo'[u], Owed(u)', world', sweep'[u])
    BY <1>2, <1>4, <1>5, <1>7 DEF Owed
<1> QED BY <1>8, <1>9, OneMoves

(* What a deployed service adds, it adds inside of a host that exists. *)
LEMMA ServicesAreSafe ==
    ASSUME DemoInv, Process \/ Project
    PROVE  DemoInv'
<1>1. /\ UNCHANGED <<ingest, cmd, todo, seen, forwards, failed, sweep, disturbed>>
      /\ \/ {"metrics", "flink"} \subseteq world /\ world' = world \cup {"events"}
         \/ {"events", "indexer", "arango"} \subseteq world /\ world' = world \cup {"graph"}
    BY DEF Process, Project, Needs
<1>2. WorldOK(ingest, world) /\ ingest \in BOOLEAN
    BY DEF DemoInv, DemoShape
<1>3. {"metrics", "events"} \subseteq Inside("redpanda") /\ "graph" \in Inside("arango")
    BY DEF Inside
<1>4. PICK h \in {"arango", "redpanda"}, x \in {"events", "graph"} :
        x \in Inside(h) /\ h \in world /\ world' = world \cup {x}
  <2>1. CASE {"metrics", "flink"} \subseteq world /\ world' = world \cup {"events"}
    <3>1. "redpanda" \in world
        BY <1>2, <1>3, <2>1 DEF WorldOK
    <3> QED BY <1>3, <2>1, <3>1
  <2>2. CASE {"events", "indexer", "arango"} \subseteq world /\ world' = world \cup {"graph"}
      BY <1>3, <2>2
  <2> QED BY <1>1, <2>1, <2>2
<1>5. WorldOK(ingest, world')
  <2>1. x \in CanExist(ingest)
      BY <1>2, Vocabulary
  <2>2. \A k \in {"cluster", "arango", "redpanda"} : x \in Inside(k) => k = h
      BY <1>4 DEF Inside, InCluster
  <2> QED BY <1>2, <1>4, <2>1, <2>2 DEF WorldOK
<1>6. ASSUME NEW u \in Users
      PROVE  UserOK(ingest, cmd[u], todo[u], Owed(u), world', sweep[u])
  <2>1. UserOK(ingest, cmd[u], todo[u], Owed(u), world, sweep[u])
      BY DEF DemoInv
  <2>2. sweep[u] = "faultless" => world' \subseteq ToErase(todo[u])
    <3>1. sweep[u] = "faultless" => world \subseteq ToErase(todo[u])
        BY <2>1 DEF UserOK, SweepErases
    <3>2. h \in ToErase(todo[u]) => x \in ToErase(todo[u])
        BY <1>4, HostsHold DEF ToErase
    <3> QED BY <1>4, <3>1, <3>2
  <2>3. world \subseteq world'
      BY <1>4
  <2> QED BY <2>1, <2>2, <2>3, GrowthKeeps
<1>7. DemoShape'
    BY <1>1 DEF DemoInv, DemoShape
<1> QED BY <1>1, <1>5, <1>6, <1>7 DEF DemoInv, Owed

(* Through every command, session, fault, Ctrl-C and kill: what is open,   *)
(* unless the command was stopped where it opens or closes its forwards,   *)
(* will be closed; what exists is removed by the cleanup that has begun;   *)
(* and what the claim of an up needs is there or is made before it.        *)
THEOREM DemoInvariance ==
    ASSUME OneUser PROVE DemoSpec => []DemoInv
<1>1. DemoInit => DemoInv
  <2> SUFFICES ASSUME DemoInit PROVE DemoInv
      OBVIOUS
  <2>1. DemoShape
      BY NothingIs DEF DemoInit, DemoShape
  <2>2. WorldOK(ingest, world)
      BY DEF DemoInit, WorldOK
  <2>3. \A u \in Users : UserOK(ingest, cmd[u], todo[u], Owed(u), world, sweep[u])
    <3> SUFFICES ASSUME NEW u \in Users
                 PROVE  UserOK(ingest, cmd[u], todo[u], Owed(u), world, sweep[u])
        OBVIOUS
    <3>1. cmd[u] = "none" /\ todo[u] = Nothing /\ Owed(u) = {} /\ sweep[u] = "none"
        BY DEF DemoInit, Owed
    <3>2. UserOK(ingest, "none", Nothing, {}, world, "none")
        BY NothingKeeps
    <3> QED BY <3>1, <3>2
  <2> QED BY <2>1, <2>2, <2>3 DEF DemoInv
<1>2. DemoInv /\ [DemoNext]_demoVars => DemoInv'
  <2> SUFFICES ASSUME DemoInv, [DemoNext]_demoVars PROVE DemoInv'
      OBVIOUS
  <2>1. ASSUME NEW u \in Users, Start(u) PROVE DemoInv'
      BY <2>1, StartIsSafe
  <2>2. ASSUME NEW u \in Users, Exit(u) \/ KillProcess(u) PROVE DemoInv'
      BY <2>2, EndingIsSafe DEF Exit, KillProcess
  <2>3. ASSUME NEW u \in Users, Make(u) PROVE DemoInv'
      BY <2>3, MakeIsSafe
  <2>4. ASSUME NEW u \in Users, Fail(u) PROVE DemoInv'
      BY <2>4, FailIsSafe
  <2>5. ASSUME NEW u \in Users, CreateTopics(u) PROVE DemoInv'
      BY <2>5, CreateTopicsIsSafe
  <2>6. ASSUME NEW u \in Users, WaitFor(u) \/ Answer(u) PROVE DemoInv'
      BY <2>6, WaitForIsSafe
  <2>7. ASSUME NEW u \in Users, TimeOut(u) \/ AnswerFails(u) PROVE DemoInv'
      BY <2>7, TimeOutIsSafe
  <2>8. ASSUME NEW u \in Users, OpenForward(u) \/ CloseForward(u) PROVE DemoInv'
      BY <2>8, ForwardsAreSafe
  <2>9. ASSUME NEW u \in Users, InspectPart(u) \/ GoAhead(u) PROVE DemoInv'
      BY <2>9, InspectingIsSafe
  <2>10. ASSUME NEW u \in Users, AlreadyRunning(u) PROVE DemoInv'
      BY <2>10, AlreadyRunningIsSafe
  <2>11. ASSUME NEW u \in Users, Refuse(u) PROVE DemoInv'
      BY <2>11, RefuseIsSafe
  <2>12. ASSUME NEW u \in Users, Test(u) PROVE DemoInv'
      BY <2>12, TestIsSafe
  <2>13. ASSUME NEW u \in Users, Erase(u) \/ EraseFails(u) PROVE DemoInv'
      BY <2>13, EraseIsSafe
  <2>14. ASSUME NEW u \in Users, Interrupt(u) PROVE DemoInv'
      BY <2>14, InterruptIsSafe
  <2>15. CASE Process \/ Project
      BY <2>15, ServicesAreSafe
  <2>16. CASE UNCHANGED demoVars
      BY <2>16 DEF demoVars, DemoInv, DemoShape, Owed
  <2>17. ASSUME NEW u \in Users, CloseFails(u) PROVE DemoInv'
      BY <2>17, CloseFailsIsSafe
  <2>18. ASSUME NEW u \in Users, Proceed(u) PROVE DemoInv'
      BY <2>2, <2>3, <2>4, <2>5, <2>6, <2>7, <2>8, <2>9, <2>10, <2>11, <2>12, <2>13, <2>17, <2>18
         DEF Proceed
  <2> QED BY <2>1, <2>2, <2>6, <2>7, <2>14, <2>15, <2>16, <2>18 DEF DemoNext
<1> QED BY <1>1, <1>2, PTL DEF DemoSpec

(* The variables have their types, steps are left only while a command     *)
(* runs, and what is inside of the cluster, ArangoDB or Redpanda exists    *)
(* only with it.                                                           *)
THEOREM DemoIsWellTyped ==
    ASSUME OneUser PROVE DemoSpec => []DemoTypeOK
<1>1. DemoInv => DemoTypeOK
  <2> SUFFICES ASSUME DemoInv PROVE DemoTypeOK
      OBVIOUS
  <2>1. DemoShape /\ WorldOK(ingest, world)
      BY DEF DemoInv
  <2>2. \A u \in Users : todo[u] # Nothing => cmd[u] # "none"
      BY DEF DemoInv, UserOK, Typed
  <2>3. world \subseteq Things
      BY <2>1 DEF WorldOK, CanExist
  <2> QED BY <2>1, <2>2, <2>3 DEF DemoTypeOK, DemoShape, WorldOK, Parts, Both
<1> QED BY <1>1, DemoInvariance, PTL

(* A down, a session or a failed up whose cleanup met no fault leaves no   *)
(* image, container, cluster or file behind (down, cleanup), whatever it   *)
(* and the commands before it had left.                                    *)
THEOREM CleanupsAreComplete ==
    ASSUME OneUser PROVE DemoSpec => []CleanupLeavesNothing
<1>1. DemoInv => CleanupLeavesNothing
  <2> SUFFICES ASSUME DemoInv, NEW u \in Users, todo[u] = Nothing, sweep[u] = "faultless"
               PROVE  world = {}
      BY DEF CleanupLeavesNothing
  <2>1. world \subseteq ToErase(Nothing)
      BY DEF DemoInv, UserOK, SweepErases
  <2>2. ToErase(Nothing) = {}
      BY NothingIs, EffectsOfOne DEF ToErase, Sections
  <2> QED BY <2>1, <2>2
<1> QED BY <1>1, DemoInvariance, PTL

(* A command that ends by itself has closed every port-forward it opened   *)
(* (the finally clauses of cli.py, cleanup of a session), wherever a step  *)
(* failed or Ctrl-C struck, but for a close or a session's diagnosis that  *)
(* raises where the forwards are closed, and Ctrl-C there or at the start  *)
(* of a forward.                                                           *)
THEOREM ForwardsAreClosed ==
    ASSUME OneUser PROVE DemoSpec => []NoForwardLeft
<1>1. DemoInv => NoForwardLeft
  <2> SUFFICES ASSUME DemoInv, NEW u \in Users, todo[u] = Nothing, ~ disturbed[u]
               PROVE  forwards[u] = {}
      BY DEF NoForwardLeft
  <2>1. forwards[u] \subseteq Closer(cmd[u], Nothing)
      BY DEF DemoInv, UserOK, ForwardsClose, Owed
  <2>2. Closer(cmd[u], Nothing) = {}
      BY NothingIs DEF Closer, Sections
  <2> QED BY <2>1, <2>2
<1> QED BY <1>1, DemoInvariance, PTL

(* An up that has provisioned the environment writes the state file only   *)
(* when everything is in place and the seeded graph is readable.           *)
THEOREM ClaimsAreComplete ==
    ASSUME OneUser PROVE DemoSpec => ClaimsOnlyComplete
<1> DEFINE A == \A u \in Users :
                  /\ cmd[u] = "up" /\ At(u, {"ensure"})
                  /\ What(u) = {"state"} /\ Section(u) = "try"
                  /\ "state" \in world'
                  => CompleteDemo \subseteq world
<1>1. DemoInv => A
  <2> SUFFICES ASSUME DemoInv, NEW u \in Users, cmd[u] = "up", At(u, {"ensure"}),
                      What(u) = {"state"}, Section(u) = "try"
               PROVE  CompleteDemo \subseteq world
      OBVIOUS
  <2> DEFINE q == todo[u].try
  <2>1. todo[u] # Nothing
      BY DEF At
  <2>2. /\ UserOK(ingest, "up", todo[u], Owed(u), world, sweep[u])
        /\ q # <<>> /\ Head(q).what = {"state"} /\ q \in Seq(DemoSteps)
      BY <2>1, RunningSection DEF Runs, What, Sections
  <2>3. CompleteOf(FALSE) \subseteq world \cup Shown(q) /\ StateLast(q)
      BY <2>2 DEF UserOK, ClaimIsLast
  <2> HIDE DEF q
  <2>4. 1 \in DOMAIN q /\ q[1] = Head(q)
      BY <2>2, ElementsOfTail
  <2>5. Len(q) = 1
      BY <2>2, <2>3, <2>4 DEF StateLast
  <2>6. Elements(q) = {Head(q)}
    <3>1. DOMAIN q = {1}
        BY <2>2, <2>5
    <3> QED BY <2>4, <3>1 DEF Elements
  <2>7. Shown(q) \subseteq {"state"}
      BY <2>2, <2>6 DEF Shown
  <2>8. "state" \notin CompleteOf(FALSE)
      BY DEF CompleteOf, InCluster
  <2>9. ingest = FALSE
      BY <2>2 DEF UserOK, Typed
  <2>10. CompleteDemo = CompleteOf(FALSE)
      BY <2>9 DEF CompleteDemo, CompleteOf
  <2> QED BY <2>3, <2>7, <2>8, <2>10
<1> QED BY <1>1, DemoInvariance, PTL DEF ClaimsOnlyComplete
=============================================================================
