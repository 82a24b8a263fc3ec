------------------------------ MODULE LocalDemo ------------------------------
(***************************************************************************)
(* The local environment: the commands up, status, query and down of the   *)
(* persistent demo, and the sessions of the end-to-end tests and the       *)
(* benchmark, over one environment of images, containers, a cluster and    *)
(* two files.                                                              *)
(*                                                                         *)
(* A command is a list of steps for each of its sections: one step for     *)
(* each external command, request or wait.  A step may fail, with or       *)
(* without a part of its effect, and skips the rest of its section, as the *)
(* code's try, except and finally do.  The names of an environment derive  *)
(* from its suffix, so environments do not meet and one is looked at.      *)
(***************************************************************************)
EXTENDS Integers, Sequences

CONSTANTS
    Users,   \* who runs commands, or a session
    Tests,   \* bound on the operations that a session tries
    Faults   \* the faults that happen, a subset of AllFaults

(* A step fails; a removal fails or times out; a port-forward does not end *)
(* when it is closed; an inspection fails; the process is killed; Ctrl-C   *)
(* is pressed.                                                             *)
AllFaults == {"step", "removal", "close", "inspection", "kill", "interrupt"}

ASSUME EnvironmentAssumption ==
    /\ Tests \in Nat
    /\ Faults \subseteq AllFaults

VARIABLES
    ingest,    \* with_ingest_pipeline: a session's environment, not the demo's
    world,     \* what exists of the environment
    cmd,       \* user -> the command it runs, or "none"
    todo,      \* user -> section -> the steps that are left
    seen,      \* user -> what status() has found so far
    forwards,  \* user -> its open port-forwards
    failed,    \* user -> the command is going to report a failure
    \* history:
    sweep,     \* user -> "none", "faultless", "faulty": its cleanup so far
    disturbed  \* user -> stopped where it opens or closes its forwards

demoVars == <<ingest, world, cmd, todo, seen, forwards, failed, sweep, disturbed>>

(***************************************************************************)
(* What an environment consists of.                                        *)
(***************************************************************************)
Images == {"indexer image", "gremlin image"}
              \cup (IF ingest THEN {"flink image"} ELSE {})

InCluster == {"loaded images", "namespace", "arango service", "redpanda service",
              "writer secret", "reader secret", "indexer", "gremlin",
              "collector", "flink"}

Inside(x) == CASE x = "cluster" -> InCluster
               [] x = "arango" -> {"reader", "graph"}
               [] x = "redpanda" -> {"topics", "metrics", "events"}
               [] OTHER -> {}

Things == {"indexer image", "gremlin image", "flink image", "cluster", "arango",
           "redpanda", "kubeconfig", "state"}
              \cup Inside("cluster") \cup Inside("arango") \cup Inside("redpanda")

(* What must be there for a thing to be made or read: its host, and what   *)
(* the started pods wait for until they are ready.                         *)
Needs(x) ==
    CASE x = "loaded images" -> {"cluster"} \cup Images
      [] x = "namespace" -> {"cluster"}
      [] x = "arango service" -> {"arango", "namespace"}
      [] x = "redpanda service" -> {"redpanda", "namespace"}
      [] x = "topics" -> {"redpanda"}
      [] x \in {"writer secret", "reader secret"} -> {"namespace"}
      [] x = "indexer" -> {"loaded images", "writer secret", "arango service",
                           "redpanda service", "arango", "topics"}
      [] x = "collector" -> {"redpanda service", "topics"}
      [] x = "flink" -> {"loaded images", "redpanda service", "topics"}
      [] x = "reader" -> {"arango", "indexer"}
      [] x = "gremlin" -> {"loaded images", "reader secret", "reader", "arango service"}
      [] x \in {"metrics", "events"} -> {"topics"}
      [] x = "graph" -> {"events", "indexer", "arango"}
      [] OTHER -> {}

(* Everything inside of what is removed goes with it. *)
Removed(what) == world \ (what \cup UNION {Inside(x) : x \in what})

(***************************************************************************)
(* Steps, and the sections of a command in the order they run in.          *)
(***************************************************************************)
Step(op, what) == [op |-> op, what |-> what]

New(x) == Step("create", x)       \* fails when it exists
Ensure(x) == Step("ensure", {x})  \* idempotent
Await(x) == Step("await", {x})    \* wait_for, or rollout status

Order == <<"check", "op", "try", "diagnose", "cleanup", "forget", "finally">>

Nothing == [s \in {Order[k] : k \in 1..7} |-> <<>>]

Secret(x) == <<Ensure(x)>>

Expose(service) == <<Ensure(service)>>

BuildImages ==
    <<Ensure("indexer image")>>
        \o (IF ingest THEN <<Ensure("flink image")>> ELSE <<>>)
        \o <<Ensure("gremlin image")>>

(* kind adds the cluster to a kubeconfig that is left over. *)
CreateCluster ==
    <<New({"cluster"}), Ensure("kubeconfig"), Ensure("loaded images"), New({"namespace"})>>

StartArangodb == <<New({"arango"})>> \o Expose("arango service") \o <<Await("arango")>>

(* The topics are created by the probe that waits for them. *)
StartRedpanda == <<New({"redpanda"})>> \o Expose("redpanda service") \o <<Step("topics", {"topics"})>>

InstallIndexer == <<Ensure("indexer")>>

InstallIngestPipeline == <<Ensure("collector"), Ensure("flink")>>

CreateReadOnlyUser == <<Ensure("reader")>>

InstallGremlin == <<Ensure("gremlin")>>

StartForward(x) == <<Step("forward", {x}), Await(x)>>

StartGremlinForward == StartForward("gremlin")

StartCollectorForward == StartForward("collector")

Provision ==
    <<Step("read", {})>>  \* the prerequisites, once more
        \o BuildImages \o CreateCluster \o StartArangodb \o StartRedpanda
        \o Secret("writer secret") \o InstallIndexer
        \o (IF ingest THEN InstallIngestPipeline ELSE <<>>)
        \o CreateReadOnlyUser \o Secret("reader secret")
        \o InstallGremlin \o StartGremlinForward

ProduceEvents == <<Ensure("events")>>

(* Mutant: the events are in Kafka, so the graph is taken to be ready. *)
AwaitNothing == <<>>

AwaitGraph == <<Await("graph")>>

SaveState == <<Ensure("state")>>

CloseForwards == <<Step("close", {"collector"}), Step("close", {"gremlin"})>>

(* Mutant: the command leaves its forwards to the end of the process. *)
CloseNothing == <<>>

Close == CloseForwards

Diagnose == <<Step("read", {})>>

Remove(what) == Step("remove", what)

Unlink(x) == Step("unlink", {x})

(* Mutant: the kubeconfig is left to the command down. *)
CleanupKeepingFile ==
    CloseForwards
        \o <<Remove({"arango", "redpanda"}), Remove({"cluster"}),
             Remove({"indexer image"}), Remove({"gremlin image"})>>
        \o (IF ingest THEN <<Remove({"flink image"})>> ELSE <<>>)

Cleanup ==
    CloseForwards
        \o <<Remove({"arango", "redpanda"}), Remove({"cluster"}),
             Remove({"indexer image"}), Remove({"gremlin image"})>>
        \o (IF ingest THEN <<Remove({"flink image"})>> ELSE <<>>)
        \o <<Unlink("kubeconfig")>>

CheckPrerequisites == <<Step("read", {})>>

Inspected == <<"cluster", "arango", "redpanda", "indexer", "gremlin">>

Status == [k \in 1..5 |-> Step("inspect", {Inspected[k]})]

Decide == <<Step("decide", {})>>

(***************************************************************************)
(* The commands.                                                           *)
(***************************************************************************)
UpSteps ==
    [Nothing EXCEPT
        !.check = CheckPrerequisites \o Status \o Decide,
        !.try = Provision \o ProduceEvents \o AwaitGraph \o SaveState,
        !.finally = Close]

(* A read of the semantic client: alone of all steps it has no deadline,   *)
(* neither of its own nor in its connection.                               *)
Ask == <<Step("ask", {"gremlin", "arango"})>>

StatusSteps ==
    [Nothing EXCEPT !.check = CheckPrerequisites \o Status \o <<Step("read", {})>>]

QuerySteps ==
    [Nothing EXCEPT
        !.check = CheckPrerequisites \o Status \o Decide,
        !.try = StartGremlinForward \o Ask,
        !.finally = Close]

DownSteps ==
    [Nothing EXCEPT
        !.check = CheckPrerequisites,
        !.cleanup = Cleanup \o <<Unlink("state"), Step("unlink", {"state", "kubeconfig"})>>]

(* The fixture prints diagnostics before its cleanup when tests of pytest's *)
(* session have failed; a read that succeeds stands for none too.  What it  *)
(* raises skips the cleanup.  --keep-e2e-cluster, which asks for no cleanup,*)
(* is not given.                                                            *)
SessionSteps ==
    [Nothing EXCEPT
        !.try = Provision \o [k \in 1..Tests |-> Step("test", {})],
        !.cleanup = Diagnose \o Cleanup]

Commands == IF ingest THEN {"session"} ELSE {"up", "status", "query", "down"}

Script(c) == CASE c = "up" -> UpSteps
               [] c = "status" -> StatusSteps
               [] c = "query" -> QuerySteps
               [] c = "down" -> DownSteps
               [] c = "session" -> SessionSteps

(***************************************************************************)
(* What a session's tests and the benchmark do with the environment.  A    *)
(* deleted pod is replaced by its Deployment.                              *)
(***************************************************************************)
Read(x) == <<Step("read", {x})>>

ProduceMetrics == <<Ensure("metrics")>>

SendTraces(u) ==
    (IF "collector" \in forwards[u] THEN <<>> ELSE StartCollectorForward)
        \o Read("collector") \o ProduceMetrics

TopicBytes == Read("topics")

CommittedOffset == Read("redpanda")

RestartProjection ==
    <<Step("close", {"gremlin"})>> \o Read("indexer") \o Read("gremlin")
        \o <<Await("indexer"), Await("gremlin")>> \o StartGremlinForward

JobOverview == Read("flink")

RestartTaskmanager == JobOverview \o <<Await("flink")>>

DocumentCount == Read("arango")

Operations(u) ==
    {ProduceEvents \o AwaitGraph, ProduceMetrics, SendTraces(u), TopicBytes,
     CommittedOffset, RestartProjection, JobOverview, RestartTaskmanager,
     DocumentCount, Ask}

(***************************************************************************)
(* The control flow: a step is done, fails, or the process ends.           *)
(***************************************************************************)
Section(u) ==
    Order[CHOOSE k \in 1..7 : /\ todo[u][Order[k]] # <<>>
                              /\ \A j \in 1..(k - 1) : todo[u][Order[j]] = <<>>]

Now(u) == Head(todo[u][Section(u)])

At(u, ops) == todo[u] # Nothing /\ Now(u).op \in ops

What(u) == Now(u).what

Needed(u) == UNION {Needs(x) : x \in What(u)}

StepDone(u) == todo' = [todo EXCEPT ![u][Section(u)] = Tail(@)]

OnFailure(c, rest) ==
    CASE c = "up" -> [rest EXCEPT !.diagnose = Diagnose, !.cleanup = Cleanup,
                                  !.forget = <<Unlink("state")>>]
      [] c = "session" -> [rest EXCEPT !.diagnose = Diagnose]
      [] OTHER -> rest

AfterFailure(u) ==
    LET rest == [todo[u] EXCEPT ![Section(u)] = <<>>]
    IN  CASE Section(u) = "check" -> Nothing
          [] Section(u) = "try" -> OnFailure(cmd[u], rest)
          [] OTHER -> rest

(* The section that closes the forwards, whatever has happened before it. *)
Closing(c) == IF c = "session" THEN "cleanup" ELSE "finally"

InClosing(u) == Section(u) = Closing(cmd[u])

(* It closes them now, or prints the diagnosis that comes first. *)
AtClosing(u) == InClosing(u) /\ At(u, {"read", "close"})

Raise(u) == /\ todo' = [todo EXCEPT ![u] = AfterFailure(u)]
            /\ failed' = [failed EXCEPT ![u] = TRUE]
            /\ disturbed' = [disturbed EXCEPT ![u] = @ \/ AtClosing(u)]

Start(u) ==
    /\ cmd[u] = "none"
    /\ \E c \in Commands :
         /\ cmd' = [cmd EXCEPT ![u] = c]
         /\ todo' = [todo EXCEPT ![u] = Script(c)]
    /\ UNCHANGED <<ingest, world, seen, forwards, failed, sweep, disturbed>>

(* The process is gone with what it had in memory.  A kubectl that it has   *)
(* not stopped lives on, on a port of its own; no command knows of it, so   *)
(* nothing depends on it from then on.                                      *)
ProcessEnds(u) ==
    /\ cmd' = [cmd EXCEPT ![u] = "none"]
    /\ todo' = [todo EXCEPT ![u] = Nothing]
    /\ seen' = [seen EXCEPT ![u] = {}]
    /\ forwards' = [forwards EXCEPT ![u] = {}]
    /\ failed' = [failed EXCEPT ![u] = FALSE]
    /\ sweep' = [sweep EXCEPT ![u] = "none"]
    /\ disturbed' = [disturbed EXCEPT ![u] = FALSE]
    /\ UNCHANGED <<ingest, world>>

Exit(u) ==
    /\ cmd[u] # "none"
    /\ todo[u] = Nothing
    /\ ProcessEnds(u)

Make(u) ==
    /\ At(u, {"create", "ensure"})
    /\ At(u, {"create"}) => What(u) \cap world = {}
    /\ Needed(u) \subseteq world
    /\ world' = world \cup What(u)
    /\ StepDone(u)
    /\ UNCHANGED <<ingest, cmd, seen, forwards, failed, sweep, disturbed>>

(* A command that exits with an error, or times out, may have had its      *)
(* effect or a part of it.                                                 *)
Fail(u) ==
    /\ At(u, {"create", "ensure", "read", "forward", "inspect"})
    /\ \/ "step" \in Faults
       \/ ~ (Needed(u) \subseteq world)
       \/ At(u, {"create"}) /\ What(u) \cap world # {}
       \/ At(u, {"read"}) /\ ~ (What(u) \subseteq world)
    /\ \E part \in SUBSET What(u) :
         /\ part # {} => /\ At(u, {"create", "ensure"})
                         /\ Needed(u) \subseteq world
                         /\ At(u, {"create"}) => What(u) \cap world = {}
         /\ world' = world \cup part
    /\ Raise(u)
    /\ UNCHANGED <<ingest, cmd, seen, forwards, sweep>>

(* _create_topic() answers False when the topics exist, so that an answer  *)
(* that is lost leaves the wait to its deadline.                           *)
CreateTopics(u) ==
    /\ At(u, {"topics"})
    /\ "redpanda" \in world
    /\ "topics" \notin world
    /\ world' = world \cup What(u)
    /\ \/ StepDone(u)
       \/ "step" \in Faults /\ UNCHANGED todo
    /\ UNCHANGED <<ingest, cmd, seen, forwards, failed, sweep, disturbed>>

WaitFor(u) ==
    /\ At(u, {"await", "read"})
    /\ What(u) \subseteq world
    /\ StepDone(u)
    /\ UNCHANGED <<ingest, world, cmd, seen, forwards, failed, sweep, disturbed>>

Answer(u) ==
    /\ At(u, {"ask"})
    /\ What(u) \subseteq world
    /\ StepDone(u)
    /\ UNCHANGED <<ingest, world, cmd, seen, forwards, failed, sweep, disturbed>>

AnswerFails(u) ==
    /\ At(u, {"ask"})
    /\ "step" \in Faults \/ ~ (What(u) \subseteq world)
    /\ Raise(u)
    /\ UNCHANGED <<ingest, world, cmd, seen, forwards, sweep>>

(* Mutant: the topics are waited for until they can be created. *)
TimeOutButTopics(u) ==
    /\ At(u, {"await"})
    /\ "step" \in Faults \/ ~ (What(u) \subseteq world)
    /\ Raise(u)
    /\ UNCHANGED <<ingest, world, cmd, seen, forwards, sweep>>

TimeOut(u) ==
    /\ At(u, {"await", "topics"})
    /\ "step" \in Faults \/ At(u, {"topics"}) \/ ~ (What(u) \subseteq world)
    /\ Raise(u)
    /\ UNCHANGED <<ingest, world, cmd, seen, forwards, sweep>>

OpenForward(u) ==
    /\ At(u, {"forward"})
    /\ forwards' = [forwards EXCEPT ![u] = @ \cup What(u)]
    /\ StepDone(u)
    /\ UNCHANGED <<ingest, world, cmd, seen, failed, sweep, disturbed>>

(* A forward that is not open is not closed. *)
CloseForward(u) ==
    /\ At(u, {"close"})
    /\ forwards' = [forwards EXCEPT ![u] = @ \ What(u)]
    /\ StepDone(u)
    /\ UNCHANGED <<ingest, world, cmd, seen, failed, sweep, disturbed>>

(* The process does not end although it was killed: the second wait raises *)
(* TimeoutExpired, and what follows in close() or cleanup() is skipped.    *)
CloseFails(u) ==
    /\ At(u, {"close"})
    /\ "close" \in Faults
    /\ What(u) \subseteq forwards[u]
    /\ sweep' = [sweep EXCEPT ![u] = IF Section(u) = "cleanup" THEN "faulty" ELSE @]
    /\ Raise(u)
    /\ UNCHANGED <<ingest, world, cmd, seen, forwards>>

DemoReady(found) == {"cluster", "arango", "redpanda", "indexer", "gremlin"} \subseteq found

Exists(found) == {"cluster", "arango", "redpanda"} \cap found # {}

(* A Deployment is asked for only in a cluster that was found. *)
Inspectable(u) ==
    /\ What(u) \subseteq world
    /\ What(u) \subseteq {"indexer", "gremlin"} => "cluster" \in seen[u] /\ "kubeconfig" \in world

(* The exit code of an inspection is not checked: one that fails finds     *)
(* nothing.                                                                *)
InspectPart(u) ==
    /\ At(u, {"inspect"})
    /\ \/ Inspectable(u) /\ seen' = [seen EXCEPT ![u] = @ \cup What(u)]
       \/ (~ Inspectable(u) \/ "inspection" \in Faults) /\ UNCHANGED seen
    /\ StepDone(u)
    /\ UNCHANGED <<ingest, world, cmd, forwards, failed, sweep, disturbed>>

AlreadyRunning(u) ==
    /\ At(u, {"decide"}) /\ cmd[u] = "up"
    /\ DemoReady(seen[u])
    /\ todo' = [todo EXCEPT ![u] = [Nothing EXCEPT !.check = SaveState]]
    /\ UNCHANGED <<ingest, world, cmd, seen, forwards, failed, sweep, disturbed>>

Refuse(u) ==
    /\ At(u, {"decide"})
    /\ ~ DemoReady(seen[u])
    /\ cmd[u] = "up" => Exists(seen[u])
    /\ Raise(u)
    /\ UNCHANGED <<ingest, world, cmd, seen, forwards, sweep>>

GoAhead(u) ==
    /\ At(u, {"decide"})
    /\ IF cmd[u] = "up" THEN ~ Exists(seen[u]) ELSE DemoReady(seen[u])
    /\ StepDone(u)
    /\ UNCHANGED <<ingest, world, cmd, seen, forwards, failed, sweep, disturbed>>

Test(u) ==
    /\ At(u, {"test"})
    /\ \E operation \in Operations(u) :
         todo' = [todo EXCEPT ![u].op = operation, ![u].try = Tail(@)]
    /\ UNCHANGED <<ingest, world, cmd, seen, forwards, failed, sweep, disturbed>>

Erase(u) ==
    /\ At(u, {"remove", "unlink"})
    /\ world' = Removed(What(u))
    /\ sweep' = [sweep EXCEPT ![u] = IF @ = "none" THEN "faultless" ELSE @]
    /\ StepDone(u)
    /\ UNCHANGED <<ingest, cmd, seen, forwards, failed, disturbed>>

(* The exit code of a removal is not checked either; a timeout and a file  *)
(* that cannot be unlinked raise.                                          *)
EraseFails(u) ==
    /\ At(u, {"remove", "unlink"})
    /\ "removal" \in Faults
    /\ \E part \in SUBSET What(u) : world' = Removed(part)
    /\ sweep' = [sweep EXCEPT ![u] = "faulty"]
    /\ \/ At(u, {"remove"}) /\ StepDone(u) /\ UNCHANGED <<failed, disturbed>>
       \/ Raise(u)
    /\ UNCHANGED <<ingest, cmd, seen, forwards>>

(* Ctrl-C is no Exception: of what is left only the finally clause runs,    *)
(* and nothing when the command has not entered its try, or is in that      *)
(* clause already.  Where a forward is opened its process may have been     *)
(* started and not yet been remembered.                                     *)
Interrupt(u) ==
    /\ "interrupt" \in Faults
    /\ todo[u] # Nothing
    /\ todo' = [todo EXCEPT ![u] =
                   IF Section(u) = "check" \/ InClosing(u)
                   THEN Nothing
                   ELSE [Nothing EXCEPT ![Closing(cmd[u])] = todo[u][Closing(cmd[u])]]]
    /\ failed' = [failed EXCEPT ![u] = TRUE]
    /\ sweep' = [sweep EXCEPT ![u] = IF Section(u) \in {"cleanup", "forget"} THEN "faulty" ELSE @]
    /\ disturbed' = [disturbed EXCEPT ![u] = @ \/ AtClosing(u) \/ At(u, {"forward"})]
    /\ UNCHANGED <<ingest, world, cmd, seen, forwards>>

(* An external command that it was running is taken to have ended. *)
KillProcess(u) ==
    /\ "kill" \in Faults
    /\ cmd[u] # "none"
    /\ ProcessEnds(u)

(* The deployed services work on: Flink turns metrics into events, the     *)
(* indexer events into the graph.                                          *)
Process ==
    /\ {"metrics", "flink"} \subseteq world
    /\ world' = world \cup {"events"}
    /\ UNCHANGED <<ingest, cmd, todo, seen, forwards, failed, sweep, disturbed>>

Project ==
    /\ Needs("graph") \subseteq world
    /\ world' = world \cup {"graph"}
    /\ UNCHANGED <<ingest, cmd, todo, seen, forwards, failed, sweep, disturbed>>

Proceed(u) ==
    \/ Exit(u) \/ Make(u) \/ Fail(u) \/ CreateTopics(u) \/ WaitFor(u) \/ TimeOut(u)
    \/ OpenForward(u) \/ CloseForward(u) \/ CloseFails(u) \/ InspectPart(u) \/ AlreadyRunning(u) \/ Refuse(u)
    \/ GoAhead(u) \/ Test(u) \/ Erase(u) \/ EraseFails(u)

DemoInit ==
    /\ ingest \in BOOLEAN
    /\ world = {}
    /\ cmd = [u \in Users |-> "none"]
    /\ todo = [u \in Users |-> Nothing]
    /\ seen = [u \in Users |-> {}]
    /\ forwards = [u \in Users |-> {}]
    /\ failed = [u \in Users |-> FALSE]
    /\ sweep = [u \in Users |-> "none"]
    /\ disturbed = [u \in Users |-> FALSE]

DemoNext ==
    \/ \E u \in Users :
         \/ Start(u) \/ Proceed(u) \/ Answer(u) \/ AnswerFails(u)
         \/ Interrupt(u) \/ KillProcess(u)
    \/ Process
    \/ Project

(* A process that runs a command goes on with it, but for a question whose *)
(* answer it may await for ever, and the services of the environment with  *)
(* their work.                                                             *)
DemoSpec ==
    /\ DemoInit /\ [][DemoNext]_demoVars
    /\ \A u \in Users : WF_demoVars(Proceed(u))
    /\ WF_demoVars(Project)

-----------------------------------------------------------------------------
(* Type correctness; what is inside of something exists only with it.      *)
DemoTypeOK ==
    /\ ingest \in BOOLEAN
    /\ world \subseteq Things
    /\ \A x \in {"cluster", "arango", "redpanda"} : x \notin world => world \cap Inside(x) = {}
    /\ cmd \in [Users -> {"none", "up", "down", "status", "query", "session"}]
    /\ \A u \in Users : todo[u] # Nothing => cmd[u] # "none"
    /\ seen \in [Users -> SUBSET {Inspected[k] : k \in 1..5}]
    /\ forwards \in [Users -> SUBSET {"gremlin", "collector"}]
    /\ failed \in [Users -> BOOLEAN]
    /\ sweep \in [Users -> {"none", "faultless", "faulty"}]
    /\ disturbed \in [Users -> BOOLEAN]

CompleteDemo ==
    {"indexer image", "gremlin image", "kubeconfig", "arango", "redpanda", "graph",
     "topics", "events", "reader", "cluster"}
        \cup (InCluster \ (IF ingest THEN {} ELSE {"collector", "flink"}))

(* An up that has provisioned the environment writes the state file only   *)
(* when everything is in place and the seeded graph can be read, however   *)
(* many earlier runs were killed, interrupted or half cleaned up.          *)
ClaimsOnlyComplete ==
    [][\A u \in Users :
         /\ cmd[u] = "up" /\ At(u, {"ensure"})
         /\ What(u) = {"state"} /\ Section(u) = "try"
         /\ "state" \in world'
         => CompleteDemo \subseteq world]_demoVars

(* A down, a session and an up that has failed leave nothing behind when   *)
(* no step of their cleanup met a fault, whatever they and the commands    *)
(* before them had left: images, containers, cluster and files are gone.   *)
CleanupLeavesNothing ==
    \A u \in Users :
        cmd[u] # "none" /\ todo[u] = Nothing /\ sweep[u] = "faultless" => world = {}

(* A command that ends by itself has closed every port-forward it opened,  *)
(* wherever a step of it failed and wherever Ctrl-C struck, but for two     *)
(* places: the closing itself, when a close or a session's diagnosis before *)
(* it raises or Ctrl-C strikes there, and Ctrl-C at the start of a forward. *)
NoForwardLeft ==
    \A u \in Users :
        cmd[u] # "none" /\ todo[u] = Nothing /\ ~ disturbed[u] => forwards[u] = {}

(* pytest removes what a session made, in success and in failure.  The      *)
(* documents say so; diagnostics that raise before the cleanup skip it.     *)
SessionsCleanUp ==
    \A u \in Users : cmd[u] = "session" /\ todo[u] = Nothing => world = {}

(* Every command ends or waits for the semantic client, which may be for    *)
(* ever: each other wait has a deadline, also the one for topics whose      *)
(* creation was not acknowledged.                                           *)
EveryCommandEnds ==
    \A u \in Users : cmd[u] # "none" ~> cmd[u] = "none" \/ At(u, {"ask"})
=============================================================================
