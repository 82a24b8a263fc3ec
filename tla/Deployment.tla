----------------------------- MODULE Deployment -----------------------------
(***************************************************************************)
(* The install and upgrade hooks of the servicegraph-flink chart, with the *)
(* DeploymentCommands they run, one fixed job and the claim that keeps its *)
(* savepoints and the files that name them.                                *)
(*                                                                         *)
(* An upgrade stops the job with a savepoint (pre-upgrade), replaces the   *)
(* JobManager, and submits the job from the savepoint (post-upgrade).  The *)
(* savepoint hook has one pod, the submitter several.  A pod may be killed *)
(* between any two steps: by its node, or by the hook's deadline while     *)
(* Flink is still stopping the job.  The job may fail for good at any time *)
(* and JobManagers may be replaced.  Helm runs one operation at a time,    *)
(* and the release is not uninstalled.                                     *)
(*                                                                         *)
(* Savepoints are numbered; a file or a job names one by its number.       *)
(***************************************************************************)
EXTENDS Integers

CONSTANTS
    NoSavepoint,
    Pods,          \* pods of the submitter: its backoffLimit and one
    MaxRevision,   \* bound on the operations
    Wanted,        \* upgrades beyond this revision only repair
    MaxFaults      \* pods killed, stops and jobs failed

ASSUME DeploymentAssumption ==
    /\ NoSavepoint \notin Nat
    /\ Pods \in Nat \ {0}
    /\ MaxRevision \in Nat \ {0}
    /\ Wanted \in Nat
    /\ MaxFaults \in Nat

VARIABLES
    step,         \* where Helm's operation is
    revision,     \* .Release.Revision
    pods,         \* submitter pods left
    printed,      \* the savepoint `flink stop' has told the hook, or Null
    job,          \* Flink's job: state, the revision and savepoint it is from
    stopping,     \* Flink is taking the savepoint it stops the job with
    \* on the claim:
    marker,       \* upgrades/runtime
    handoff,      \* upgrades/revision-N.savepoint
    latest,       \* upgrades/latest.savepoint
    savepoints,   \* savepoints taken
    checkpoints,  \* the job has left a checkpoint
    \* history and bounds:
    abandoned,    \* savepoints whose hook was gone before it had ended
    faults

helm == <<step, revision, pods>>
flink == <<job, stopping, savepoints, checkpoints>>
files == <<marker, handoff, latest>>
deploymentVars == <<helm, printed, flink, files, abandoned, faults>>

Revisions == 1 .. MaxRevision
Savepoint == Nat \ {0}

Active == {"RUNNING"}
Terminal == {"FAILED", "FINISHED", "MISSING"}

PreUpgrade == {"savepoint", "await", "latest"}
PostInstall == {"inspect", "run", "record"}
Steps == {"none", "deployed", "failed", "roll"} \cup PreUpgrade \cup PostInstall

Jobs == [state : Active \cup Terminal, revision : 0 .. MaxRevision,
         from : Savepoint \cup {NoSavepoint}]

-----------------------------------------------------------------------------
(* Helm *)

Install ==
    /\ step = "none"
    /\ revision' = 1
    /\ step' = "inspect"
    /\ pods' = Pods
    /\ UNCHANGED <<printed, flink, files, abandoned, faults>>

BeginUpgrade ==
    /\ revision < MaxRevision
    /\ revision' = revision + 1
    /\ step' = "savepoint"
    /\ UNCHANGED <<pods, printed, flink, files, abandoned, faults>>

Upgrade == step \in {"deployed", "failed"} /\ revision < Wanted /\ BeginUpgrade

(* The operator repeats an upgrade that failed or whose job has failed. *)
Retry ==
    /\ \/ step = "failed"
       \/ step = "deployed" /\ job.state \notin Active
    /\ BeginUpgrade

(* The pods of the old revision are gone; a job that had ended with them. *)
Roll ==
    /\ step = "roll"
    /\ step' = "inspect"
    /\ pods' = Pods
    /\ job' = [job EXCEPT !.state = IF @ \in Terminal THEN "MISSING" ELSE @]
    /\ UNCHANGED <<revision, printed, stopping, savepoints, checkpoints, files,
                   abandoned, faults>>

-----------------------------------------------------------------------------
(* The pre-upgrade hook *)

(* Mutant: only what this revision has recorded itself. *)
HandoffOnly == handoff[revision]

(* The savepoint that an ended job is restored from, or Null. *)
Preserved == IF handoff[revision] # NoSavepoint THEN handoff[revision] ELSE latest

(* validateRuntime, and savepoint when there is nothing to go on with. *)
RefuseUpgrade ==
    /\ step = "savepoint"
    /\ ~marker \/ (job.state \in Terminal /\ Preserved = NoSavepoint)
    /\ step' = "failed"
    /\ UNCHANGED <<revision, pods, printed, flink, files, abandoned, faults>>

ReusePreserved ==
    /\ step = "savepoint"
    /\ marker
    /\ job.state \in Terminal
    /\ Preserved # NoSavepoint
    /\ handoff' = [handoff EXCEPT ![revision] = Preserved]
    /\ step' = "roll"
    /\ UNCHANGED <<revision, pods, printed, flink, marker, latest,
                   abandoned, faults>>

(* flink stop: Flink goes on with it whatever becomes of the hook. *)
StopJob ==
    /\ step = "savepoint"
    /\ marker
    /\ job.state \in Active
    /\ stopping' = TRUE
    /\ step' = "await"
    /\ UNCHANGED <<revision, pods, printed, job, savepoints, checkpoints,
                   files, abandoned, faults>>

RecordHandoff ==
    /\ step = "await"
    /\ printed # NoSavepoint
    /\ handoff' = [handoff EXCEPT ![revision] = printed]
    /\ step' = "latest"
    /\ UNCHANGED <<revision, pods, printed, flink, marker, latest,
                   abandoned, faults>>

(* Mutant: the file is not replaced if it exists. *)
LatestKept == IF latest = NoSavepoint THEN printed ELSE latest

LatestRecorded == printed

RecordLatest ==
    /\ step = "latest"
    /\ latest' = LatestRecorded
    /\ printed' = NoSavepoint
    /\ step' = "roll"
    /\ UNCHANGED <<revision, pods, flink, marker, handoff, abandoned, faults>>

-----------------------------------------------------------------------------
(* The submitter *)

(* A pod fails and the next one begins, or the hook has failed. *)
PodFails ==
    /\ pods' = pods - 1
    /\ step' = IF pods = 1 THEN "failed" ELSE "inspect"

(* Mutant: unmarked state is recognised by a job only. *)
LegacyJobOnly == job.state # "MISSING"

(* State on the claim that no marker vouches for. *)
Legacy ==
    \/ job.state # "MISSING"
    \/ checkpoints
    \/ savepoints > 0
    \/ latest # NoSavepoint
    \/ \E r \in Revisions : handoff[r] # NoSavepoint

IsUpgrade == revision > 1

(* inspect fails, or there is no handoff: exit codes 1, 43 and 44. *)
RefuseSubmission ==
    /\ step = "inspect"
    /\ \/ ~marker /\ Legacy
       \/ job.state \in Terminal \ {"MISSING"}
       \/ job.state = "MISSING" /\ IsUpgrade /\ handoff[revision] = NoSavepoint
    /\ PodFails
    /\ UNCHANGED <<revision, printed, flink, files, abandoned, faults>>

(* inspect: exit code 42. *)
SkipSubmission ==
    /\ step = "inspect"
    /\ ~(~marker /\ Legacy)
    /\ job.state \in Active
    /\ step' = "deployed"
    /\ UNCHANGED <<revision, pods, printed, flink, files, abandoned, faults>>

DecideToSubmit ==
    /\ step = "inspect"
    /\ ~(~marker /\ Legacy)
    /\ job.state = "MISSING"
    /\ IsUpgrade => handoff[revision] # NoSavepoint
    /\ step' = "run"
    /\ UNCHANGED <<revision, pods, printed, flink, files, abandoned, faults>>

RunJob ==
    /\ step = "run"
    /\ job.state = "MISSING"
    /\ job' = [state |-> "RUNNING", revision |-> revision,
               from |-> IF IsUpgrade THEN handoff[revision] ELSE NoSavepoint]
    /\ step' = "record"
    /\ UNCHANGED <<revision, pods, printed, stopping, savepoints, checkpoints,
                   files, abandoned, faults>>

RecordRuntime ==
    /\ step = "record"
    /\ marker' = TRUE
    /\ step' = "deployed"
    /\ UNCHANGED <<revision, pods, printed, flink, handoff, latest,
                   abandoned, faults>>

-----------------------------------------------------------------------------
(* Flink *)

TakeCheckpoint ==
    /\ job.state \in Active
    /\ ~checkpoints
    /\ checkpoints' = TRUE
    /\ UNCHANGED <<helm, printed, job, stopping, savepoints, files,
                   abandoned, faults>>

(* The job has stopped; whether anybody still waits for the path or not. *)
StopCompletes ==
    /\ stopping
    /\ stopping' = FALSE
    /\ savepoints' = savepoints + 1
    /\ job' = [job EXCEPT !.state = "FINISHED"]
    /\ printed' = IF step = "await" THEN savepoints' ELSE NoSavepoint
    /\ abandoned' = abandoned \cup (IF step = "await" THEN {} ELSE {savepoints'})
    /\ UNCHANGED <<helm, checkpoints, files, faults>>

(* Mutant: the hook does not look at the exit code of flink stop. *)
GoOnAnyway(hook) == IF hook = "await" THEN "roll" ELSE hook

(* flink stop returns an error to a hook that waits for it. *)
AfterFailedStop(hook) == IF hook = "await" THEN "failed" ELSE hook

(* The savepoint cannot be taken, and the job goes on. *)
StopFails ==
    /\ stopping
    /\ faults < MaxFaults
    /\ faults' = faults + 1
    /\ stopping' = FALSE
    /\ step' = AfterFailedStop(step)
    /\ UNCHANGED <<revision, pods, printed, job, savepoints, checkpoints,
                   files, abandoned>>

(* The restart strategy gives up. *)
JobFails ==
    /\ job.state \in Active
    /\ faults < MaxFaults
    /\ faults' = faults + 1
    /\ job' = [job EXCEPT !.state = "FAILED"]
    /\ stopping' = FALSE
    /\ step' = AfterFailedStop(step)
    /\ UNCHANGED <<revision, pods, printed, savepoints, checkpoints, files,
                   abandoned>>

(* High availability brings an active job back, and forgets an ended one. *)
ReplaceJobManager ==
    /\ job.state \in Terminal \ {"MISSING"}
    /\ job' = [job EXCEPT !.state = "MISSING"]
    /\ UNCHANGED <<helm, printed, stopping, savepoints, checkpoints, files,
                   abandoned, faults>>

(* A hook's pod is killed: its node is lost, or its deadline has passed. *)
Kill ==
    /\ faults < MaxFaults
    /\ faults' = faults + 1
    /\ \/ /\ step \in PreUpgrade
          /\ step' = "failed"
          /\ printed' = NoSavepoint
          /\ abandoned' = abandoned \cup ({printed} \ {NoSavepoint})
          /\ UNCHANGED pods
       \/ /\ step \in PostInstall
          /\ PodFails
          /\ UNCHANGED <<printed, abandoned>>
    /\ UNCHANGED <<revision, flink, files>>

-----------------------------------------------------------------------------

DeploymentInit ==
    /\ step = "none"
    /\ revision = 0
    /\ pods = 0
    /\ printed = NoSavepoint
    /\ job = [state |-> "MISSING", revision |-> 0, from |-> NoSavepoint]
    /\ stopping = FALSE
    /\ marker = FALSE
    /\ handoff = [r \in Revisions |-> NoSavepoint]
    /\ latest = NoSavepoint
    /\ savepoints = 0
    /\ checkpoints = FALSE
    /\ abandoned = {}
    /\ faults = 0

Hooks ==
    \/ RefuseUpgrade \/ ReusePreserved \/ StopJob
    \/ RecordHandoff \/ RecordLatest \/ Roll
    \/ RefuseSubmission \/ SkipSubmission \/ DecideToSubmit
    \/ RunJob \/ RecordRuntime

DeploymentNext ==
    \/ Install \/ Upgrade \/ Retry
    \/ Hooks
    \/ TakeCheckpoint \/ StopCompletes \/ StopFails \/ JobFails
    \/ ReplaceJobManager
    \/ Kill

(***************************************************************************)
(* A hook that is not killed goes on, Flink finishes or fails to stop the  *)
(* job, and the operator installs and repeats what has failed.             *)
(***************************************************************************)
DeploymentFairness ==
    /\ WF_deploymentVars(Install)
    /\ WF_deploymentVars(Retry)
    /\ WF_deploymentVars(Hooks)
    /\ WF_deploymentVars(StopCompletes)

DeploymentSpec ==
    DeploymentInit /\ [][DeploymentNext]_deploymentVars /\ DeploymentFairness

-----------------------------------------------------------------------------
(* Properties *)

DeploymentTypeOK ==
    /\ step \in Steps
    /\ revision \in 0 .. MaxRevision
    /\ pods \in 0 .. Pods
    /\ printed \in Savepoint \cup {NoSavepoint}
    /\ job \in Jobs
    /\ stopping \in BOOLEAN
    /\ marker \in BOOLEAN
    /\ handoff \in [Revisions -> Savepoint \cup {NoSavepoint}]
    /\ latest \in Savepoint \cup {NoSavepoint}
    /\ savepoints \in Nat
    /\ checkpoints \in BOOLEAN
    /\ abandoned \subseteq 1 .. savepoints
    /\ faults \in 0 .. MaxFaults

(* An upgrade starts the job. *)
UpgradeStartsJob == job.state = "MISSING" /\ job'.state = "RUNNING" /\ IsUpgrade

(* The savepoints of the stops that a hook saw through to its end. *)
Concluded == (1 .. savepoints) \ abandoned

(***************************************************************************)
(* A job that an upgrade starts is restored from the newest savepoint      *)
(* whose hook was not killed before it ended, whichever retry starts it:   *)
(* after a hook that was killed half way the next one goes back by that    *)
(* hook's savepoint and no further, and takes none that was superseded.    *)
(***************************************************************************)
RestoresTheLastStop ==
    [][ UpgradeStartsJob
        => /\ job'.from \in Concluded
           /\ \A s \in Concluded : s <= job'.from ]_deploymentVars

(***************************************************************************)
(* A job that an upgrade starts is restored from the savepoint it was last *)
(* stopped with if that one's path is on the claim.  The documents say so; *)
(* a hook that is killed between the two files it records the path in      *)
(* leaves it where the retry, which has a revision of its own, never looks.*)
(***************************************************************************)
RestoresRecordedStop ==
    [][ ( /\ UpgradeStartsJob
          /\ latest = savepoints \/ \E r \in Revisions : handoff[r] = savepoints )
        => job'.from = savepoints ]_deploymentVars

(***************************************************************************)
(* A job starts from nothing only if the claim holds no state: neither a   *)
(* repeated submission nor an upgrade passes over checkpoints and          *)
(* savepoints.                                                             *)
(***************************************************************************)
NoStatePassedOver ==
    [][ ( /\ job.state = "MISSING"
          /\ job'.state = "RUNNING"
          /\ job'.from = NoSavepoint )
        => ~checkpoints /\ savepoints = 0 ]_deploymentVars

(***************************************************************************)
(* Helm reports success only of the revision that it deployed: the job     *)
(* that the submitter started or found is this revision's, never one that  *)
(* the savepoint hook failed to stop.                                      *)
(***************************************************************************)
SuccessMeansDeployed == step = "deployed" => job.revision = revision

(***************************************************************************)
(* Once a marker and a recorded savepoint exist no sequence of failures    *)
(* blocks the operator for good: repeated upgrades end with this           *)
(* revision's job running.                                                 *)
(***************************************************************************)
Settles ==
    <>(marker /\ latest # NoSavepoint)
        => <>[](step = "deployed" /\ job.state = "RUNNING"
                /\ job.revision = revision)
=============================================================================
