---------------------------- MODULE ActionsPipeline ----------------------------
(***************************************************************************)
(* The migrated orders-api pipeline on GitHub Actions: several runs of      *)
(* orders-api-pipeline.yml and the reusable workflows it calls, the         *)
(* concurrency groups that order them, and the registry and the two         *)
(* environments they share.  GitHub evaluates the `if` of a job when its    *)
(* needs have ended; a job may fail, a run may be cancelled by a user, and  *)
(* the failed jobs of an ended run may be run again.                        *)
(*                                                                         *)
(* Run n is the n-th one triggered, on the commit of the same number.       *)
(***************************************************************************)
EXTENDS Integers, FiniteSets, Sequences

CONSTANTS
    MaxRuns,     \* bound: how many runs are triggered
    Requests,    \* the inputs and refs a run may be triggered with
    MaxReruns,   \* bound: how many runs have their failed jobs run again, once each
    MaxTroubles  \* bound: how many jobs fail, and runs are cancelled, altogether

Runs == 1 .. MaxRuns
Environments == {"staging", "production"}

\* image-tag-override: empty, a name of the operator's choice, or the commit's full SHA.
Overrides == {"", "name", "sha"}

AllRequests ==
    [branch : {"main", "feature"}, environment : Environments, skipTests : BOOLEAN,
     override : Overrides]

ASSUME ActionsAssumption ==
    /\ MaxRuns \in Nat \ {0} /\ MaxReruns \in Nat /\ MaxTroubles \in Nat
    /\ Requests \subseteq AllRequests /\ Requests # {}

Jobs == {"build", "test", "image", "deploy-staging", "deploy-production", "notify"}
DeployJob(env) == IF env = "staging" THEN "deploy-staging" ELSE "deploy-production"

Ended == {"success", "failure", "cancelled", "skipped"}
Busy == {"review", "running"}

VARIABLES
    phase,      \* of every run: "new", "pending", "active" or "ended"
    request,    \* of every run: the inputs and the ref
    result,     \* of every run and job: "waiting", "review", "running" or how it ended
    cancelled,  \* the runs a user has cancelled
    again,      \* the runs whose failed jobs were run again
    troubles,   \* how many jobs failed and how many runs were cancelled
    registry,   \* of every tag: the run whose image it names, 0 when it was never pushed
    deployed,   \* of every environment: the tag and the run of the last helm upgrade
    done,       \* of every run: the milestones it reached (ReleaseContract)
    told        \* of every run: the status the notify job computed

vars == <<phase, request, result, cancelled, again, troubles, registry, deployed, done, told>>

--------------------------------------------------------------------------------
(* Tags                                                                        *)

\* The 12-character and the full SHA of a run's commit, the one name operators use, which is
\* no branch's, and the names of the branches.
Tags == [form : {"short", "full"}, of : Runs]
        \cup [form : {"name", "main", "feature"}, of : {0}]
NoTag == [form |-> "none", of |-> 0]

\* The expression `inputs.image-tag-override || needs.build.outputs.short-sha`.
RequestedTag(n) ==
    CASE request[n].override = "name" -> [form |-> "name", of |-> 0]
      [] request[n].override = "sha" -> [form |-> "full", of |-> n]
      [] OTHER -> [form |-> "short", of |-> n]

\* reusable-image.yml replaces the full SHA by its first 12 characters.
PushedTag(n) ==
    IF RequestedTag(n) = [form |-> "full", of |-> n]
    THEN [form |-> "short", of |-> n] ELSE RequestedTag(n)

\* docker/metadata-action adds the name of the branch.
PushedTags(n) == {PushedTag(n), [form |-> request[n].branch, of |-> 0]}

--------------------------------------------------------------------------------
(* Conditions of the jobs                                                      *)

Needs(job) ==
    CASE job = "build" -> {}
      [] job = "test" -> {"build"}
      [] job = "image" -> {"build", "test"}
      [] job = "deploy-staging" -> {"build", "image"}
      [] job = "deploy-production" -> {"build", "deploy-staging"}
      [] job = "notify" -> Jobs \ {"notify"}

\* Without an `if` a job needs success(): no failed or skipped need, no cancelled run.
Succeeded(n, job) ==
    n \notin cancelled /\ \A need \in Needs(job) : result[n][need] = "success"

\* Mutated forms of ImageIf: without always() and the explicit checks; or without asking
\* how the tests ended.
ImageIfImplied(n) == Succeeded(n, "image")
ImageIfBuilt(n) == result[n]["build"] = "success"

\* always() makes the explicit checks the whole condition.
ImageIf(n) == result[n]["build"] = "success" /\ result[n]["test"] \in {"success", "skipped"}

\* Mutated form of StagingIf: any branch is deployed.
StagingIfAnyBranch(n) == result[n]["image"] = "success"

StagingIf(n) == result[n]["image"] = "success" /\ request[n].branch = "main"

ProductionIf(n) ==
    result[n]["deploy-staging"] = "success" /\ request[n].environment = "production"

\* Mutated form of If: the notify job does not say always().
IfNotifyImplied(n, job) ==
    CASE job = "image" -> ImageIf(n)
      [] job = "deploy-staging" -> StagingIf(n)
      [] job = "deploy-production" -> ProductionIf(n)
      [] OTHER -> Succeeded(n, job)

If(n, job) ==
    CASE job = "image" -> ImageIf(n)
      [] job = "deploy-staging" -> StagingIf(n)
      [] job = "deploy-production" -> ProductionIf(n)
      [] job = "notify" -> TRUE
      [] OTHER -> Succeeded(n, job)

Ready(n, job) ==
    /\ phase[n] = "active"
    /\ result[n][job] = "waiting"
    /\ \A need \in Needs(job) : result[n][need] \in Ended

\* deploy-<service>-<environment>: one called deploy workflow at a time.
DeployFree(job) == \A n \in Runs : result[n][job] \notin Busy

--------------------------------------------------------------------------------
Init ==
    /\ phase = [n \in Runs |-> "new"]
    /\ request \in [Runs -> Requests]
    /\ result = [n \in Runs |-> [job \in Jobs |-> "waiting"]]
    /\ cancelled = {} /\ again = {} /\ troubles = 0
    /\ registry = [tag \in Tags |-> 0]
    /\ deployed = [env \in Environments |-> [tag |-> NoTag, by |-> 0]]
    /\ done = [n \in Runs |-> {}]
    /\ told = [n \in Runs |-> "nothing"]

--------------------------------------------------------------------------------
(* Triggers and the concurrency group orders-api-<ref>                         *)

\* Mutated form of SameGroup: the group is the run's own.
SameGroupPerRun(m, n) == m = n

SameGroup(m, n) == request[m].branch = request[n].branch

InGroup(n, where) == {m \in Runs \ {n} : SameGroup(m, n) /\ phase[m] = where}

\* A run that asks for a busy group waits, and replaces the one that was waiting.
Enter(n, fresh) ==
    LET replaced == InGroup(n, "pending") IN
    IF InGroup(n, "active") = {}
    THEN /\ phase' = [phase EXCEPT ![n] = "active"]
         /\ result' = [result EXCEPT ![n] = fresh]
    ELSE /\ phase' = [m \in Runs |->
               IF m = n THEN "pending" ELSE IF m \in replaced THEN "ended" ELSE phase[m]]
         /\ result' = [m \in Runs |->
               IF m = n THEN fresh
               ELSE IF m \in replaced
               THEN [job \in Jobs |-> IF result[m][job] = "waiting" THEN "cancelled"
                                      ELSE result[m][job]]
               ELSE result[m]]

Trigger(n) ==
    /\ phase[n] = "new"
    /\ \A m \in 1 .. n - 1 : phase[m] # "new"
    /\ Enter(n, result[n])
    /\ UNCHANGED <<request, cancelled, again, troubles, registry, deployed, done, told>>

\* The run ends and hands its group to the one that waits for it.
Complete(n) ==
    /\ phase[n] = "active"
    /\ \A job \in Jobs : result[n][job] \in Ended
    /\ phase' = [m \in Runs |->
           IF m = n THEN "ended"
           ELSE IF m \in InGroup(n, "pending") THEN "active" ELSE phase[m]]
    /\ UNCHANGED <<request, result, cancelled, again, troubles, registry, deployed, done, told>>

\* The failed and cancelled jobs of an ended run, and the jobs that need them.
Order == <<"build", "test", "image", "deploy-staging", "deploy-production", "notify">>
Lost(n) == {job \in Jobs : result[n][job] \in {"failure", "cancelled"}}
Repeated(n) ==
    {Order[i] : i \in {j \in 1 .. Len(Order) : \E k \in 1 .. j : Order[k] \in Lost(n)}}

\* "Re-run failed jobs": the results of the others are kept.
Rerun(n) ==
    /\ phase[n] = "ended"
    /\ Lost(n) # {}
    /\ n \notin again /\ Cardinality(again) < MaxReruns
    /\ again' = again \cup {n}
    /\ cancelled' = cancelled \ {n}
    /\ Enter(n, [job \in Jobs |-> IF job \in Repeated(n) THEN "waiting" ELSE result[n][job]])
    /\ UNCHANGED <<request, troubles, registry, deployed, done, told>>

--------------------------------------------------------------------------------
(* Jobs                                                                        *)

Becomes(n, job, status) == result' = [result EXCEPT ![n][job] = status]
Reaches(n, milestone) == done' = [done EXCEPT ![n] = @ \cup {milestone}]

Trouble == troubles < MaxTroubles /\ troubles' = troubles + 1

\* The production environment has required reviewers.
Start(n, job) ==
    /\ Ready(n, job) /\ If(n, job)
    /\ job \in {"deploy-staging", "deploy-production"} => DeployFree(job)
    /\ Becomes(n, job, IF job = "deploy-production" THEN "review" ELSE "running")
    /\ UNCHANGED <<phase, request, cancelled, again, troubles, registry, deployed, done, told>>

Skip(n, job) ==
    /\ Ready(n, job) /\ ~If(n, job)
    /\ Becomes(n, job, "skipped")
    /\ UNCHANGED <<phase, request, cancelled, again, troubles, registry, deployed, done, told>>

\* A reviewer decides; nobody deciding for 30 days counts as a rejection.
Review(n) ==
    /\ result[n]["deploy-production"] = "review"
    /\ \/ /\ Becomes(n, "deploy-production", "running")
          /\ Reaches(n, "approved")
          /\ UNCHANGED troubles
       \/ /\ Trouble
          /\ Becomes(n, "deploy-production", "failure")
          /\ UNCHANGED done
    /\ UNCHANGED <<phase, request, cancelled, again, registry, deployed, told>>

Build(n) ==
    /\ result[n]["build"] = "running"
    /\ Becomes(n, "build", "success")
    /\ Reaches(n, "built")
    /\ UNCHANGED <<phase, request, cancelled, again, troubles, registry, deployed, told>>

\* With skip-tests both called jobs are skipped; the call then ends as skipped or success.
Test(n) ==
    /\ result[n]["test"] = "running"
    /\ \/ /\ request[n].skipTests
          /\ \E status \in {"skipped", "success"} : Becomes(n, "test", status)
          /\ UNCHANGED done
       \/ /\ ~request[n].skipTests
          /\ Becomes(n, "test", "success")
          /\ Reaches(n, "tested")
    /\ UNCHANGED <<phase, request, cancelled, again, troubles, registry, deployed, told>>

Push(n) == registry' = [tag \in Tags |-> IF tag \in PushedTags(n) THEN n ELSE registry[tag]]

Image(n) ==
    /\ result[n]["image"] = "running"
    /\ Becomes(n, "image", "success")
    /\ Reaches(n, "pushed")
    /\ Push(n)
    /\ UNCHANGED <<phase, request, cancelled, again, troubles, deployed, told>>

\* The image job may fail after the push, when it exports the cache.
JobFails(n, job) ==
    /\ result[n][job] = "running"
    /\ job = "test" => ~request[n].skipTests
    /\ Trouble
    /\ Becomes(n, job, "failure")
    /\ UNCHANGED registry \/ (job = "image" /\ Push(n))
    /\ UNCHANGED <<phase, request, cancelled, again, deployed, done, told>>

Upgrade(n, env) == deployed' = [deployed EXCEPT ![env] = [tag |-> RequestedTag(n), by |-> n]]

\* helm upgrade --wait, which needs the image, then the smoke test.
Deploy(n, env) ==
    /\ result[n][DeployJob(env)] = "running"
    /\ registry[RequestedTag(n)] # 0
    /\ Upgrade(n, env)
    /\ Becomes(n, DeployJob(env), "success")
    /\ Reaches(n, IF env = "staging" THEN "staged" ELSE "promoted")
    /\ UNCHANGED <<phase, request, cancelled, again, troubles, registry, told>>

\* The rollout or the smoke test fails after the upgrade, which is not rolled back.
DeployFails(n, env) ==
    /\ result[n][DeployJob(env)] = "running"
    /\ Trouble
    /\ Upgrade(n, env)
    /\ Becomes(n, DeployJob(env), "failure")
    /\ UNCHANGED <<phase, request, cancelled, again, registry, done, told>>

Results(n) == {result[n][job] : job \in Jobs \ {"notify"}}

\* Mutated form of Status: a skipped job makes the whole run skipped.
StatusSkipped(n) ==
    CASE "failure" \in Results(n) -> "failure"
      [] "failure" \notin Results(n) /\ "skipped" \in Results(n) -> "skipped"
      [] OTHER -> "success"

Status(n) ==
    CASE "failure" \in Results(n) -> "failure"
      [] "failure" \notin Results(n) /\ "cancelled" \in Results(n) -> "cancelled"
      [] OTHER -> "success"

\* The job computes the status and posts it.
Notify(n) ==
    /\ result[n]["notify"] = "running"
    /\ told' = [told EXCEPT ![n] = Status(n)]
    /\ Becomes(n, "notify", "success")
    /\ UNCHANGED <<phase, request, cancelled, again, troubles, registry, deployed, done>>

\* A user cancels the run: the busy job stops, unless its `if` says always(); then GitHub
\* may let it go on.  What is stopped may have pushed or upgraded already.
Cancel(n) ==
    /\ phase[n] = "active" /\ n \notin cancelled /\ Trouble
    /\ cancelled' = cancelled \cup {n}
    /\ \E job \in Jobs :
        /\ result[n][job] \in Busy
        /\ \/ job \notin {"build", "test"} /\ UNCHANGED <<result, registry, deployed>>
           \/ Becomes(n, job, "cancelled") /\ UNCHANGED <<registry, deployed>>
           \/ /\ job = "image" /\ Push(n)
              /\ Becomes(n, job, "cancelled")
              /\ UNCHANGED deployed
           \/ \E env \in Environments :
                /\ job = DeployJob(env) /\ result[n][job] = "running"
                /\ Upgrade(n, env)
                /\ Becomes(n, job, "cancelled")
                /\ UNCHANGED registry
    /\ UNCHANGED <<phase, request, again, done, told>>

--------------------------------------------------------------------------------
\* What the runners, the reviewers and GitHub do for a run without anybody asking.
Progress(n) ==
    \/ \E job \in Jobs : Start(n, job) \/ Skip(n, job)
    \/ Review(n) \/ Build(n) \/ Test(n) \/ Image(n) \/ Notify(n) \/ Complete(n)
    \/ \E env \in Environments : Deploy(n, env)

Fails(n) ==
    \/ \E job \in Jobs : JobFails(n, job)
    \/ \E env \in Environments : DeployFails(n, env)
    \/ Cancel(n)

Next == \E n \in Runs : Trigger(n) \/ Progress(n) \/ Fails(n) \/ Rerun(n)

\* Every job has timeout-minutes and every review a limit of 30 days, so a run goes on.
Spec == Init /\ [][Next]_vars /\ \A n \in Runs : WF_vars(Progress(n))

--------------------------------------------------------------------------------
(* Properties                                                                  *)

TypeOK ==
    /\ phase \in [Runs -> {"new", "pending", "active", "ended"}]
    /\ request \in [Runs -> Requests]
    /\ result \in [Runs -> [Jobs -> {"waiting"} \cup Busy \cup Ended]]
    /\ cancelled \subseteq Runs /\ again \subseteq Runs
    /\ troubles \in 0 .. MaxTroubles
    /\ registry \in [Tags -> 0 .. MaxRuns]
    /\ deployed \in [Environments -> [tag : Tags \cup {NoTag}, by : 0 .. MaxRuns]]
    /\ done \in [Runs -> SUBSET {"built", "tested", "pushed", "staged", "approved", "promoted"}]
    /\ told \in [Runs -> {"nothing", "success", "failure", "cancelled"}]

Tested(n) == "tested" \in done[n] \/ request[n].skipTests

\* After failed upgrades, cancellations and re-runs too, an environment was deployed to by a
\* run on main that pushed its image after its tests (or was asked to skip them), production
\* by one that was staged and approved before (the conditions of orders-api-pipeline.yml:62,
\* 70 and 85, which use always()).  And the tag it was given, unless it is a full SHA, always
\* names an image: the one that run itself pushed, or, when operators gave two runs the same
\* name, the one another of them pushed after its own tests.  That other run need not be on
\* main: nothing in the workflows keeps a name from being pushed again.
EnvironmentsRunTestedImages ==
    \A env \in Environments :
        LET n == deployed[env].by
            image == registry[deployed[env].tag]
        IN n # 0 =>
            /\ request[n].branch = "main" /\ "pushed" \in done[n] /\ Tested(n)
            /\ env = "production" => {"staged", "approved"} \subseteq done[n]
            /\ request[n].override # "sha" =>
                  \/ image = n
                  \/ /\ image # 0 /\ request[image].override = "name" /\ request[n].override = "name"
                     /\ Tested(image)

\* While a release that is not run again waits for its reviewer or is being promoted, staging
\* still runs what the reviewer is looking at, and its tag still is the image its own run
\* pushed, unless a run outside main took the same name in between: the concurrency group of
\* the caller keeps other runs on main away, the repeated ones too
\* (orders-api-pipeline.yml:33-35, 89).
StagedIsWhatIsPromoted ==
    \A n \in Runs \ again :
        result[n]["deploy-production"] \in Busy =>
            /\ deployed["staging"] = [tag |-> RequestedTag(n), by |-> n]
            /\ LET pushedLast == registry[RequestedTag(n)]
               IN \/ pushedLast = n
                  \/ request[n].override = "name" /\ pushedLast # 0
                     /\ request[pushedLast].branch # "main"

\* "concurrency queues runs in order" (reusable-deploy.yml:8), with the milestone gone: an
\* environment only goes back to an older run when somebody runs its failed jobs again.
DeployedInOrder ==
    [][\A env \in Environments :
        LET before == deployed[env].by
            after == deployed'[env].by
        IN after < before => after \in again]_vars

\* A run that reports success has shipped all it was asked for: skipped jobs, which the
\* notify job does not count as failures (orders-api-pipeline.yml:103-107), are the ones
\* the request leaves out.
SuccessMeansShipped ==
    \A n \in Runs :
        told[n] = "success" =>
            /\ "pushed" \in done[n]
            /\ request[n].branch = "main" =>
                /\ "staged" \in done[n]
                /\ request[n].environment = "production" => "promoted" \in done[n]

\* Every environment is given a tag under which an image was pushed: the image and the
\* deploy jobs derive it from the same inputs on their own (reusable-image.yml:62-64,
\* orders-api-pipeline.yml:66, 75, 90).
DeployedTagWasPushed ==
    \A env \in Environments : deployed[env].by # 0 => registry[deployed[env].tag] # 0

\* Once nobody triggers or repeats runs any more, every run has come to its end, and its last
\* job has reported the results it ended with, whatever failed, was skipped, cancelled or run
\* again (orders-api-pipeline.yml:98, 105-111): only a run that was replaced while it waited,
\* or whose report itself failed or was stopped, ends in silence.
EveryRunReports ==
    <>[](\A n \in Runs : phase[n] # "new" =>
            /\ phase[n] = "ended"
            /\ \/ result[n]["notify"] = "success" /\ told[n] = Status(n)
               \/ result[n]["notify"] \in {"failure", "cancelled"})

\* Every run keeps to the order and the gates of the Jenkinsfile.
BothGates(req) == {"branch", "approval"}
Contract == INSTANCE ReleaseContract WITH Gates <- BothGates
ImplementsReleaseContract == Contract!Spec
================================================================================
