--------------------------- MODULE PlatformPipelines ---------------------------
(***************************************************************************)
(* The orders-api pipeline on the three platforms besides GitHub Actions:   *)
(* the Jenkinsfile it comes from, the Tekton Pipeline and the Argo DAG.     *)
(* Each run is a graph of tasks; the platforms differ in the graph, in the  *)
(* conditions, in what a failure stops, in what a timeout does and in what  *)
(* is said at the end.                                                      *)
(*                                                                         *)
(* Run n is the n-th one triggered, on the commit of the same number.       *)
(***************************************************************************)
EXTENDS Integers, FiniteSets

CONSTANTS
    MaxRuns,     \* bound: how many runs are triggered
    Requests,    \* the platforms and parameters a run may be triggered with
    MaxTroubles  \* bound: how many tasks fail and runs are retried, altogether

Runs == 1 .. MaxRuns
Platforms == {"jenkins", "tekton", "argo"}
Environments == {"staging", "production"}

\* IMAGE_TAG_OVERRIDE, empty or the one name operators use, is a parameter of Jenkins only.
AllRequests ==
    {req \in [platform : Platforms, branch : {"main", "feature"}, environment : Environments,
              skipTests : BOOLEAN, override : {"", "name"}] :
        req.override # "" => req.platform = "jenkins"}

ASSUME PlatformsAssumption ==
    /\ MaxRuns \in Nat \ {0} /\ MaxTroubles \in Nat
    /\ Requests \subseteq AllRequests /\ Requests # {}

Tests == {"unit-test", "lint", "sast"}
AllTasks ==
    Tests \cup {"clone", "build", "image", "deploy-staging", "approve-production",
                "deploy-production"}

DeployTask(env) == IF env = "staging" THEN "deploy-staging" ELSE "deploy-production"

VARIABLES
    phase,      \* of every run: "new", "active" or "ended"
    request,    \* of every run: its platform and parameters
    task,       \* of every run and task: "waiting", "running" or how it ended
    troubles,   \* how many failures and retries there were
    registry,   \* of every tag: the run whose image it names, 0 when it was never pushed
    deployed,   \* of every environment: the run of the last helm upgrade, 0 before any
    milestone,  \* the newest Jenkins run that passed milestone 100, 0 before any
    done,       \* of every run: the milestones it reached (ReleaseContract)
    told        \* of every run: what its last notification said

vars == <<phase, request, task, troubles, registry, deployed, milestone, done, told>>

On(n, platform) == request[n].platform = platform

\* The commits of the runs by their number, and the operators' name.
Named == 0
Tags == {Named} \cup Runs

\* IMAGE_TAG, which is pushed and deployed alike; the commit on the other platforms.
Tag(n) == IF request[n].override = "name" THEN Named ELSE n

--------------------------------------------------------------------------------
(* The graphs                                                                  *)

Tasks(n) ==
    CASE On(n, "jenkins") -> AllTasks
      [] On(n, "tekton") -> AllTasks \ {"sast", "approve-production"}
      [] On(n, "argo") -> AllTasks \ {"sast"}

\* Mutated form of Needs: the image is built beside the linter.
NeedsNoLint(n, t) ==
    Tasks(n) \cap
    CASE t = "clone" -> {}
      [] t = "build" -> {"clone"}
      [] t \in Tests -> {"build"}
      [] t = "image" -> {"unit-test"}
      [] t = "deploy-staging" -> {"image"}
      [] t = "approve-production" -> {"deploy-staging"}
      [] t = "deploy-production" -> {"deploy-staging", "approve-production"}

\* The order of the stages, runAfter, depends.
Needs(n, t) ==
    Tasks(n) \cap
    CASE t = "clone" -> {}
      [] t = "build" -> {"clone"}
      [] t \in Tests -> {"build"}
      [] t = "image" -> Tests
      [] t = "deploy-staging" -> {"image"}
      [] t = "approve-production" -> {"deploy-staging"}
      [] t = "deploy-production" -> {"deploy-staging", "approve-production"}

\* Mutated form of When: staging is deployed from every branch on every platform.
WhenAnyBranch(n, t) ==
    /\ t \in Tests => ~request[n].skipTests
    /\ t \in {"approve-production", "deploy-production"} =>
          request[n].environment = "production"

\* Only the Jenkinsfile asks for the branch.
When(n, t) ==
    /\ t \in Tests => ~request[n].skipTests
    /\ t \in {"approve-production", "deploy-production"} =>
          request[n].environment = "production"
    /\ t \in {"deploy-staging", "approve-production", "deploy-production"} =>
          (On(n, "jenkins") => request[n].branch = "main")

Failed(n) == {t \in Tasks(n) : task[n][t] = "failed"}
Running(n) == {t \in Tasks(n) : task[n][t] = "running"}

\* A skipped task is as good as a successful one.  Tekton starts nothing more after a failure
\* and neither does Argo (failFast); Jenkins finishes the parallel stages.
Ready(n, t) ==
    /\ phase[n] = "active"
    /\ t \in Tasks(n) /\ task[n][t] = "waiting"
    /\ \A need \in Needs(n, t) : task[n][need] \in {"succeeded", "skipped"}
    /\ On(n, "jenkins") \/ Failed(n) = {}

--------------------------------------------------------------------------------
Init ==
    /\ phase = [n \in Runs |-> "new"]
    /\ request \in [Runs -> Requests]
    /\ task = [n \in Runs |-> [t \in AllTasks |-> "waiting"]]
    /\ troubles = 0
    /\ registry = [tag \in Tags |-> 0]
    /\ deployed = [env \in Environments |-> 0]
    /\ milestone = 0
    /\ done = [n \in Runs |-> {}]
    /\ told = [n \in Runs |-> "nothing"]

\* Mutated form of SameJob: disableConcurrentBuilds is gone.
SameJobNever(m, n) == FALSE

\* A multibranch project has a job per branch.
SameJob(m, n) == On(m, "jenkins") /\ On(n, "jenkins") /\ request[m].branch = request[n].branch

\* Jenkins starts the builds of a job one after the other, in the order of the queue; the two
\* clusters start every run at once.
Trigger(n) ==
    /\ phase[n] = "new"
    /\ \A m \in 1 .. n - 1 : SameJob(m, n) => phase[m] = "ended"
    /\ phase' = [phase EXCEPT ![n] = "active"]
    /\ UNCHANGED <<request, task, troubles, registry, deployed, milestone, done, told>>

--------------------------------------------------------------------------------
(* Tasks                                                                       *)

Becomes(n, t, status) == task' = [task EXCEPT ![n][t] = status]
Reaches(n, milestones) == done' = [done EXCEPT ![n] = @ \cup milestones]
Trouble == troubles < MaxTroubles /\ troubles' = troubles + 1

Skip(n, t) ==
    /\ Ready(n, t) /\ ~When(n, t)
    /\ Becomes(n, t, "skipped")
    /\ UNCHANGED <<phase, request, troubles, registry, deployed, milestone, done, told>>

\* The lock production-deploy, which only Jenkins has.
LockFree(n) ==
    On(n, "jenkins") =>
        \A m \in Runs : On(m, "jenkins") => task[m]["deploy-production"] # "running"

Start(n, t) ==
    /\ Ready(n, t) /\ When(n, t)
    /\ t # "deploy-production"
    /\ Becomes(n, t, "running")
    /\ UNCHANGED <<phase, request, troubles, registry, deployed, milestone, done, told>>

\* Milestone 100 turns away a Jenkins run that is older than one that has passed it.
StartProduction(n) ==
    LET t == "deploy-production" IN
    /\ Ready(n, t) /\ When(n, t) /\ LockFree(n)
    /\ Becomes(n, t, IF On(n, "jenkins") /\ n < milestone THEN "failed" ELSE "running")
    /\ milestone' = IF On(n, "jenkins") /\ n > milestone THEN n ELSE milestone
    /\ UNCHANGED <<phase, request, troubles, registry, deployed, done, told>>

\* The tests are through when the last of them is.
Milestones(n, t) ==
    CASE t = "build" -> {"built"}
      [] t \in Tests /\ \A u \in (Tests \cap Tasks(n)) \ {t} : task[n][u] = "succeeded" ->
            {"tested"}
      [] t = "image" -> {"pushed"}
      [] t = "deploy-staging" -> {"staged"}
      [] t = "approve-production" -> {"approved"}
      [] t = "deploy-production" -> {"promoted"}
      [] OTHER -> {}

\* A task that changes nothing outside its run ends well; approval is somebody's `input` or
\* `argo resume`.
Succeed(n, t) ==
    /\ task[n][t] = "running"
    /\ t \notin {"image", "deploy-staging", "deploy-production"}
    /\ Becomes(n, t, "succeeded")
    /\ Reaches(n, Milestones(n, t))
    /\ UNCHANGED <<phase, request, troubles, registry, deployed, milestone, told>>

Push(n) == registry' = [registry EXCEPT ![Tag(n)] = n]

Image(n) ==
    /\ task[n]["image"] = "running"
    /\ Push(n)
    /\ Becomes(n, "image", "succeeded")
    /\ Reaches(n, Milestones(n, "image"))
    /\ UNCHANGED <<phase, request, troubles, deployed, milestone, told>>

\* The image task may fail, an agent be lost, after the push.
Fail(n, t) ==
    /\ task[n][t] = "running"
    /\ Trouble
    /\ Becomes(n, t, "failed")
    /\ UNCHANGED registry \/ (t = "image" /\ Push(n))
    /\ UNCHANGED <<phase, request, deployed, milestone, done, told>>

Upgrade(n, env) == deployed' = [deployed EXCEPT ![env] = n]

\* helm upgrade --install --wait; on Jenkins staging is smoke-tested too.
Deploy(n, env) ==
    LET t == DeployTask(env) IN
    /\ task[n][t] = "running"
    /\ Upgrade(n, env)
    /\ Becomes(n, t, "succeeded")
    /\ Reaches(n, Milestones(n, t))
    /\ UNCHANGED <<phase, request, troubles, registry, milestone, told>>

\* The release is there but did not become ready or healthy.
DeployFails(n, env) ==
    LET t == DeployTask(env) IN
    /\ task[n][t] = "running"
    /\ Trouble
    /\ Upgrade(n, env)
    /\ Becomes(n, t, "failed")
    /\ UNCHANGED <<phase, request, registry, milestone, done, told>>

--------------------------------------------------------------------------------
(* The end of a run                                                            *)

\* A Jenkins build whose `input` is turned down is aborted, and `post` has no such condition.
Aborted(n) == On(n, "jenkins") /\ "approve-production" \in Failed(n)
Skipped(n) == {t \in Tasks(n) : task[n][t] = "skipped"}

\* Mutated form of Verdict: only how the last task ended counts.
VerdictOfLast(n) ==
    IF task[n]["deploy-production"] = "failed" THEN "failure" ELSE "success"

\* `post`, the phase the workflow-notifier sends, and $(tasks.status), which is Completed when
\* tasks were skipped and is then shown as a warning.
Verdict(n) ==
    CASE Aborted(n) -> "nothing"
      [] ~Aborted(n) /\ Failed(n) # {} -> "failure"
      [] Failed(n) = {} /\ On(n, "tekton") /\ Skipped(n) # {} -> "warning"
      [] OTHER -> "success"

End(n) ==
    /\ phase[n] = "active"
    /\ Running(n) = {}
    /\ \A t \in Tasks(n) : ~Ready(n, t)
    /\ phase' = [phase EXCEPT ![n] = "ended"]
    /\ told' = [told EXCEPT ![n] = Verdict(n)]
    /\ UNCHANGED <<request, task, troubles, registry, deployed, milestone, done>>

\* Mutated form of Limited: the Argo template has no activeDeadlineSeconds.
LimitedButArgo(n) == On(n, "jenkins") \/ On(n, "tekton")

\* options { timeout }, timeouts.pipeline and activeDeadlineSeconds: 45 minutes for a run.
Limited(n) == On(n, "jenkins") \/ On(n, "tekton") \/ On(n, "argo")

\* The time is over, whatever the run is doing or waiting for, the approval included.  Jenkins
\* has no post condition for an aborted build and Tekton leaves no time for `finally`; Argo's
\* phase becomes Failed.  What is stopped may have pushed or upgraded already.
Timeout(n) ==
    /\ phase[n] = "active" /\ Limited(n)
    /\ phase' = [phase EXCEPT ![n] = "ended"]
    /\ task' = [task EXCEPT ![n] =
           [t \in AllTasks |-> IF t \in Running(n) THEN "failed" ELSE task[n][t]]]
    /\ told' = IF On(n, "argo") THEN [told EXCEPT ![n] = "failure"] ELSE told
    /\ \/ UNCHANGED <<registry, deployed>>
       \/ "image" \in Running(n) /\ Push(n) /\ UNCHANGED deployed
       \/ \E env \in Environments :
            DeployTask(env) \in Running(n) /\ Upgrade(n, env) /\ UNCHANGED registry
    /\ UNCHANGED <<request, troubles, milestone, done>>

\* `argo retry` runs what failed again and keeps the rest, an approval too.
Retry(n) ==
    /\ phase[n] = "ended" /\ On(n, "argo") /\ told[n] = "failure"
    /\ Trouble
    /\ phase' = [phase EXCEPT ![n] = "active"]
    /\ task' = [task EXCEPT ![n] =
           [t \in AllTasks |-> IF t \in Failed(n) THEN "waiting" ELSE task[n][t]]]
    /\ UNCHANGED <<request, registry, deployed, milestone, done, told>>

--------------------------------------------------------------------------------
\* What the engine does of its own accord.
Engine(n) ==
    \/ \E t \in AllTasks : Skip(n, t) \/ Start(n, t)
    \/ StartProduction(n)
    \/ End(n)

\* What a tool or a person does, sooner or later or never.
Work(n) ==
    \/ \E t \in AllTasks : Succeed(n, t) \/ Fail(n, t)
    \/ Image(n)
    \/ \E env \in Environments : Deploy(n, env) \/ DeployFails(n, env)
    \/ Retry(n)

Next == \E n \in Runs : Trigger(n) \/ Engine(n) \/ Work(n) \/ Timeout(n)

\* The engines go on and their clocks run; nothing is assumed of the tools and the people.
Fairness ==
    \A n \in Runs : WF_vars(Trigger(n)) /\ WF_vars(Engine(n)) /\ WF_vars(Timeout(n))

Spec == Init /\ [][Next]_vars /\ Fairness

--------------------------------------------------------------------------------
(* Properties                                                                  *)

\* The gates a platform has: Tekton has neither, Argo only the approval
\* (legacy/tekton/pipeline.yaml:113-114, workflows/argo/build-test-deploy.yaml:100-105).
GatesOf(req) ==
    CASE req.platform = "jenkins" -> {"branch", "approval"}
      [] req.platform = "argo" -> {"approval"}
      [] req.platform = "tekton" -> {}

\* Every run keeps to the order of the Jenkinsfile and to the gates of its platform, when tests
\* are skipped, tasks fail and an Argo run is retried.
Contract == INSTANCE ReleaseContract WITH Gates <- GatesOf
ImplementsReleaseContract == Contract!Spec

Tested(n) == "tested" \in done[n] \/ request[n].skipTests

\* After failed upgrades, timeouts and retries too, an environment was upgraded by a run that
\* pushed its image after its tests (or was asked to skip them), on Jenkins from main, and that
\* went through staging before production (Jenkinsfile:94-143).  Its tag always names an
\* image: the run's own, or, when two Jenkins builds were given the same IMAGE_TAG_OVERRIDE,
\* the one the other built after its tests (or was asked to skip them); that other build may
\* be one of any branch, the Jenkinsfile does not keep it from pushing the name again.
EnvironmentsRunTestedImages ==
    \A env \in Environments :
        LET n == deployed[env]
            image == registry[Tag(n)]
        IN n # 0 =>
            /\ "pushed" \in done[n] /\ Tested(n)
            /\ env = "production" => "staged" \in done[n]
            /\ On(n, "jenkins") => request[n].branch = "main"
            /\ \/ image = n
               \/ /\ image # 0 /\ request[image].override = "name" /\ request[n].override = "name"
                  /\ Tested(image)

\* On Jenkins an older build never replaces a newer one, in staging neither, where there is no
\* lock and no milestone: disableConcurrentBuilds is what orders them (Jenkinsfile:25).
JenkinsDeploysInOrder ==
    [][\A env \in Environments :
        LET before == deployed[env]
            after == deployed'[env]
        IN after < before => ~(On(before, "jenkins") /\ On(after, "jenkins"))]_vars

\* Nobody is told of a success unless the run did all it was asked for.
SuccessMeansShipped ==
    \A n \in Runs :
        told[n] = "success" /\ phase[n] = "ended" =>
            /\ "pushed" \in done[n] /\ Tested(n)
            /\ (On(n, "jenkins") => request[n].branch = "main") =>
                /\ "staged" \in done[n]
                /\ request[n].environment = "production" => "promoted" \in done[n]

\* Every run ends, also when a tool hangs and nobody decides at the `input` or the `suspend`,
\* and the builds queued behind it are started: it is the deadlines that see to it
\* (Jenkinsfile:23, pipelinerun.yaml:8-9, build-test-deploy.yaml:25).
RunsEnd == <>[](\A n \in Runs : phase[n] = "ended")
================================================================================
