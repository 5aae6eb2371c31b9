------------------------ MODULE PlatformPipelinesProofs ------------------------
(***************************************************************************)
(* Theorems about the pipeline on Jenkins, Tekton and Argo, for any number  *)
(* of runs on any of them, any requests, failures, timeouts and retries.    *)
(***************************************************************************)
EXTENDS PlatformPipelines, TLAPS

Statuses == {"waiting", "running", "succeeded", "failed", "skipped"}
Passed == {"succeeded", "skipped"}

TypeOK ==
    /\ phase \in [Runs -> {"new", "active", "ended"}]
    /\ request \in [Runs -> Requests]
    /\ task \in [Runs -> [AllTasks -> Statuses]]
    /\ registry \in [Tags -> {0} \cup Runs]
    /\ deployed \in [Environments -> {0} \cup Runs]
    /\ done \in [Runs -> SUBSET Contract!Milestones]
    /\ told \in [Runs -> {"nothing", "success", "warning", "failure"}]

--------------------------------------------------------------------------------
(* The inductive invariant                                                     *)

\* A task that was looked at has its needs behind it, also when it is stopped or retried.
GraphInv(n) ==
    \A t \in Tasks(n) : task[n][t] # "waiting" =>
        \A need \in Needs(n, t) : task[n][need] \in Passed

\* Tasks run in active runs only; a run that was not triggered has done nothing, and one that
\* has told of its success is over, a retry being for failures.
PhaseInv(n) ==
    /\ \A t \in AllTasks : task[n][t] = "running" => t \in Tasks(n) /\ phase[n] = "active"
    /\ phase[n] = "new" => done[n] = {} /\ \A t \in AllTasks : task[n][t] = "waiting"
    /\ told[n] = "success" => phase[n] = "ended"

CondInv(n) ==
    \A t \in Tasks(n) :
        /\ task[n][t] \in {"running", "succeeded"} => When(n, t)
        /\ task[n][t] = "skipped" => ~When(n, t)

\* Each success stands for a milestone.
MilestoneInv(n) ==
    /\ task[n]["build"] = "succeeded" => "built" \in done[n]
    /\ (\A t \in Tests \cap Tasks(n) : task[n][t] = "succeeded") => "tested" \in done[n]
    /\ task[n]["image"] = "succeeded" => "pushed" \in done[n]
    /\ task[n]["deploy-staging"] = "succeeded" => "staged" \in done[n]
    /\ task[n]["approve-production"] = "succeeded" => "approved" \in done[n]
    /\ task[n]["deploy-production"] = "succeeded" => "promoted" \in done[n]

DoneInv(n) ==
    /\ "pushed" \in done[n] => "tested" \in done[n] \/ request[n].skipTests
    /\ "staged" \in done[n] => "pushed" \in done[n]

RunInv(n) == GraphInv(n) /\ PhaseInv(n) /\ CondInv(n) /\ MilestoneInv(n) /\ DoneInv(n)
RunsInv == \A n \in Runs : RunInv(n)

\* What is behind the run an environment was upgraded by.
MayRunIn(env, n) ==
    /\ "pushed" \in done[n]
    /\ env = "production" => "staged" \in done[n]
    /\ On(n, "jenkins") => request[n].branch = "main"

DeployInv == \A env \in Environments : \A n \in Runs : deployed[env] = n => MayRunIn(env, n)

\* A tag that a run pushed names an image; the commit's own one, or under the operators' name
\* that of a run that was given the name and had its tests behind it.
RegistryInv ==
    \A n \in Runs :
        /\ "pushed" \in done[n] => registry[Tag(n)] # 0
        /\ registry[n] \in {0, n}
        /\ registry[Named] = n => request[n].override = "name" /\ Tested(n)

\* disableConcurrentBuilds: a build that has started has the earlier ones of its job behind it.
JobInv ==
    \A m, n \in Runs : n < m /\ SameJob(m, n) /\ phase[m] # "new" => phase[n] = "ended"

IInv == TypeOK /\ RunsInv /\ DeployInv /\ RegistryInv /\ SuccessMeansShipped /\ JobInv

--------------------------------------------------------------------------------
(* The graphs                                                                  *)

LEMMA RequestTypes ==
  ASSUME TypeOK, NEW n \in Runs
  PROVE  request[n].platform \in Platforms
<1>1. request[n] \in AllRequests
  BY PlatformsAssumption DEF TypeOK
<1> QED BY <1>1 DEF AllRequests

\* The tasks of a platform and what each of them needs.
LEMMA Graph ==
  ASSUME TypeOK, NEW n \in Runs
  PROVE  /\ Tasks(n) \subseteq AllTasks
         /\ {"clone", "build", "unit-test", "lint", "image", "deploy-staging",
             "deploy-production"} \subseteq Tasks(n)
         /\ "approve-production" \in Tasks(n) <=> ~On(n, "tekton")
         /\ Needs(n, "clone") = {} /\ Needs(n, "build") = {"clone"}
         /\ \A t \in Tests \cap Tasks(n) : Needs(n, t) = {"build"}
         /\ Needs(n, "image") = Tests \cap Tasks(n)
         /\ Needs(n, "deploy-staging") = {"image"}
         /\ Needs(n, "approve-production") = {"deploy-staging"}
         /\ Needs(n, "deploy-production") =
               Tasks(n) \cap {"deploy-staging", "approve-production"}
         /\ \A t \in AllTasks : Needs(n, t) \subseteq Tasks(n)
<1>1. /\ Tasks(n) \subseteq AllTasks
      /\ {"clone", "build", "unit-test", "lint", "image", "deploy-staging",
          "deploy-production"} \subseteq Tasks(n)
      /\ "approve-production" \in Tasks(n) <=> ~On(n, "tekton")
  BY RequestTypes DEF Tasks, On, Platforms, AllTasks, Tests
<1>2. Needs(n, "clone") = {} /\ Needs(n, "build") = {"clone"}
  BY <1>1 DEF Needs, Tests
<1>3. \A t \in Tests \cap Tasks(n) : Needs(n, t) = {"build"}
  BY <1>1 DEF Needs, Tests
<1>4. Needs(n, "image") = Tests \cap Tasks(n)
  BY <1>1 DEF Needs, Tests
<1>5. /\ Needs(n, "deploy-staging") = {"image"}
      /\ Needs(n, "approve-production") = {"deploy-staging"}
      /\ Needs(n, "deploy-production") = Tasks(n) \cap {"deploy-staging", "approve-production"}
  BY <1>1 DEF Needs, Tests
<1>6. \A t \in AllTasks : Needs(n, t) \subseteq Tasks(n)
  BY DEF Needs, AllTasks
<1> QED BY <1>1, <1>2, <1>3, <1>4, <1>5, <1>6

\* What is behind a task that runs or has succeeded.
LEMMA Behind ==
  ASSUME TypeOK, NEW n \in Runs, RunInv(n)
  PROVE  /\ \A t \in Tests : task[n][t] \in {"running", "succeeded"} /\ t \in Tasks(n) =>
               "built" \in done[n]
         /\ task[n]["image"] \in {"running", "succeeded"} =>
               "built" \in done[n] /\ ("tested" \in done[n] \/ request[n].skipTests)
         /\ task[n]["deploy-staging"] \in {"running", "succeeded"} =>
               "pushed" \in done[n] /\ (On(n, "jenkins") => request[n].branch = "main")
         /\ task[n]["approve-production"] \in {"running", "succeeded"}
              /\ "approve-production" \in Tasks(n) =>
               "staged" \in done[n] /\ request[n].environment = "production"
         /\ task[n]["deploy-production"] \in {"running", "succeeded"} =>
               /\ "staged" \in done[n] /\ request[n].environment = "production"
               /\ On(n, "jenkins") => request[n].branch = "main"
               /\ ~On(n, "tekton") => "approved" \in done[n]
<1>0. GraphInv(n) /\ CondInv(n) /\ MilestoneInv(n)
  BY DEF RunInv
<1>1. \A t \in Tasks(n) : task[n][t] \in Passed /\ When(n, t) => task[n][t] = "succeeded"
  BY <1>0 DEF CondInv, Passed
<1>2. When(n, "build") /\ When(n, "image")
  BY DEF When, Tests
<1>3. \A t \in Tests : task[n][t] # "waiting" /\ t \in Tasks(n) => "built" \in done[n]
  BY <1>0, <1>1, <1>2, Graph DEF GraphInv, MilestoneInv
<1>4. task[n]["image"] \in {"running", "succeeded"} =>
          "built" \in done[n] /\ ("tested" \in done[n] \/ request[n].skipTests)
  <2> SUFFICES ASSUME task[n]["image"] \in {"running", "succeeded"}
               PROVE  "built" \in done[n] /\ ("tested" \in done[n] \/ request[n].skipTests)
    OBVIOUS
  <2>1. \A t \in Tests \cap Tasks(n) : task[n][t] \in Passed
    BY <1>0, Graph DEF GraphInv
  <2>2. "built" \in done[n]
    BY <1>3, <2>1, Graph DEF Passed, Tests
  <2>3. ~request[n].skipTests => \A t \in Tests : When(n, t)
    BY DEF When, Tests
  <2> QED BY <1>0, <1>1, <2>1, <2>2, <2>3 DEF MilestoneInv
<1>5. task[n]["deploy-staging"] \in {"running", "succeeded"} =>
          "pushed" \in done[n] /\ (On(n, "jenkins") => request[n].branch = "main")
  BY <1>0, <1>1, <1>2, Graph DEF GraphInv, CondInv, When, MilestoneInv
<1>6. task[n]["approve-production"] \in {"running", "succeeded"}
        /\ "approve-production" \in Tasks(n) =>
          "staged" \in done[n] /\ request[n].environment = "production"
  <2> SUFFICES ASSUME task[n]["approve-production"] \in {"running", "succeeded"},
                      "approve-production" \in Tasks(n)
               PROVE  "staged" \in done[n] /\ request[n].environment = "production"
    OBVIOUS
  <2>1. When(n, "approve-production") /\ task[n]["deploy-staging"] \in Passed
    BY <1>0, Graph DEF GraphInv, CondInv
  <2>2. When(n, "deploy-staging") /\ request[n].environment = "production"
    BY <2>1 DEF When, Tests
  <2> QED BY <1>0, <1>1, <2>1, <2>2, Graph DEF MilestoneInv
<1>7. task[n]["deploy-production"] \in {"running", "succeeded"} =>
          /\ "staged" \in done[n] /\ request[n].environment = "production"
          /\ On(n, "jenkins") => request[n].branch = "main"
          /\ ~On(n, "tekton") => "approved" \in done[n]
  <2> SUFFICES ASSUME task[n]["deploy-production"] \in {"running", "succeeded"}
               PROVE  /\ "staged" \in done[n] /\ request[n].environment = "production"
                      /\ On(n, "jenkins") => request[n].branch = "main"
                      /\ ~On(n, "tekton") => "approved" \in done[n]
    OBVIOUS
  <2>1. /\ When(n, "deploy-production")
        /\ \A t \in Tasks(n) \cap {"deploy-staging", "approve-production"} : task[n][t] \in Passed
    BY <1>0, Graph DEF GraphInv, CondInv
  <2>2. /\ When(n, "deploy-staging") /\ When(n, "approve-production")
        /\ request[n].environment = "production"
        /\ On(n, "jenkins") => request[n].branch = "main"
    BY <2>1 DEF When, Tests
  <2> QED BY <1>0, <1>1, <2>1, <2>2, Graph DEF MilestoneInv
<1> QED BY <1>3, <1>4, <1>5, <1>6, <1>7

--------------------------------------------------------------------------------
(* One task of one run                                                         *)

LEMMA BecomesOnly ==
  ASSUME TypeOK, NEW n \in Runs, NEW t \in AllTasks, NEW status \in Statuses,
         Becomes(n, t, status)
  PROVE  /\ task' \in [Runs -> [AllTasks -> Statuses]]
         /\ task'[n][t] = status
         /\ \A other \in AllTasks \ {t} : task'[n][other] = task[n][other]
         /\ \A m \in Runs \ {n} : task'[m] = task[m]
  BY DEF TypeOK, Becomes

LEMMA ReachesOnly ==
  ASSUME TypeOK, NEW n \in Runs, NEW milestones, Reaches(n, milestones)
  PROVE  /\ done'[n] = done[n] \cup milestones
         /\ \A m \in Runs \ {n} : done'[m] = done[m]
  BY DEF TypeOK, Reaches

\* The graph and the conditions only depend on the request.
LEMMA SameGraph ==
  ASSUME UNCHANGED request, NEW n \in Runs
  PROVE  /\ Tasks(n)' = Tasks(n)
         /\ \A t \in AllTasks : Needs(n, t)' = Needs(n, t) /\ (When(n, t)' <=> When(n, t))
  BY DEF Tasks, Needs, When, On

LEMMA RunKept ==
  ASSUME TypeOK, NEW n \in Runs, RunInv(n), UNCHANGED request, task'[n] = task[n],
         done'[n] = done[n], phase'[n] = phase[n], told'[n] = told[n]
  PROVE  RunInv(n)'
<1>1. /\ Tasks(n)' = Tasks(n) /\ Tasks(n) \subseteq AllTasks
      /\ \A t \in AllTasks : Needs(n, t)' = Needs(n, t) /\ (When(n, t)' <=> When(n, t))
  BY SameGraph, Graph
<1>2. GraphInv(n)' /\ CondInv(n)'
  BY <1>1 DEF RunInv, GraphInv, CondInv
<1>3. PhaseInv(n)'
  BY <1>1 DEF RunInv, PhaseInv
<1>4. MilestoneInv(n)' /\ DoneInv(n)'
  BY <1>1 DEF RunInv, MilestoneInv, DoneInv
<1> QED BY <1>2, <1>3, <1>4 DEF RunInv

\* A task moves on: it starts or is skipped when its needs have passed, or it ends.
Moves(n, t, status) ==
    /\ phase[n] = "active" /\ t \in Tasks(n)
    /\ \/ Ready(n, t)
       \/ task[n][t] = "running"
    /\ status \in {"running", "succeeded", "failed", "skipped"}
    /\ status \in {"running", "succeeded"} => When(n, t)
    /\ status = "skipped" => ~When(n, t)
    /\ Becomes(n, t, status)

LEMMA MoveRun ==
  ASSUME TypeOK, NEW n \in Runs, RunInv(n), UNCHANGED <<phase, request, told>>,
         NEW t \in AllTasks, NEW status, Moves(n, t, status)
  PROVE  GraphInv(n)' /\ PhaseInv(n)' /\ CondInv(n)'
<1>1. /\ Tasks(n)' = Tasks(n) /\ Tasks(n) \subseteq AllTasks
      /\ \A u \in AllTasks : Needs(n, u)' = Needs(n, u) /\ (When(n, u)' <=> When(n, u))
      /\ \A u \in AllTasks : Needs(n, u) \subseteq Tasks(n)
  BY SameGraph, Graph
<1>2. /\ task'[n][t] = status /\ status # "waiting"
      /\ \A other \in AllTasks \ {t} : task'[n][other] = task[n][other]
  BY BecomesOnly DEF Moves, Statuses
<1>3. task[n][t] \notin Passed /\ \A need \in Needs(n, t) : task[n][need] \in Passed
  BY DEF Moves, Ready, Passed, RunInv, GraphInv
<1>4. GraphInv(n)'
  <2> SUFFICES ASSUME NEW u \in Tasks(n), task'[n][u] # "waiting", NEW need \in Needs(n, u)
               PROVE  task'[n][need] \in Passed
    BY <1>1 DEF GraphInv
  <2>1. task[n][need] \in Passed /\ need \in AllTasks
    BY <1>1, <1>2, <1>3 DEF RunInv, GraphInv
  <2> QED BY <1>2, <1>3, <2>1
<1>5. PhaseInv(n)'
  BY <1>1, <1>2 DEF RunInv, PhaseInv, Moves
<1>6. CondInv(n)'
  BY <1>1, <1>2 DEF RunInv, CondInv, Moves
<1> QED BY <1>4, <1>5, <1>6

\* A task that moves on without a success.
LEMMA MoveQuietly ==
  ASSUME TypeOK, RunsInv, UNCHANGED <<phase, request, told, done>>,
         NEW n \in Runs, NEW t \in AllTasks, NEW status, Moves(n, t, status),
         status # "succeeded"
  PROVE  RunsInv'
<1>1. Tasks(n)' = Tasks(n) /\ Tasks(n) \subseteq AllTasks
  BY SameGraph, Graph
<1>2. /\ task'[n][t] = status
      /\ \A other \in AllTasks \ {t} : task'[n][other] = task[n][other]
      /\ \A m \in Runs \ {n} : task'[m] = task[m]
  BY BecomesOnly DEF Moves, Statuses
<1>3. \A u \in AllTasks : task'[n][u] = "succeeded" => task[n][u] = "succeeded"
  BY <1>2
<1>4. MilestoneInv(n)' /\ DoneInv(n)'
  BY <1>1, <1>3 DEF RunsInv, RunInv, MilestoneInv, DoneInv, AllTasks
<1>5. RunInv(n)'
  BY <1>4, MoveRun DEF RunInv, RunsInv
<1>6. \A m \in Runs \ {n} : RunInv(m)'
  BY <1>2, RunKept DEF RunsInv
<1> QED BY <1>5, <1>6 DEF RunsInv

\* A task that succeeds, with its milestone.
LEMMA MoveOn ==
  ASSUME TypeOK, RunsInv, UNCHANGED <<phase, request, told>>,
         NEW n \in Runs, NEW t \in AllTasks, task[n][t] = "running",
         Becomes(n, t, "succeeded"), Reaches(n, Milestones(n, t))
  PROVE  RunsInv'
<1>1. Tasks(n)' = Tasks(n) /\ Tasks(n) \subseteq AllTasks
  BY SameGraph, Graph
<1>2. /\ task'[n][t] = "succeeded"
      /\ \A other \in AllTasks \ {t} : task'[n][other] = task[n][other]
      /\ \A m \in Runs \ {n} : task'[m] = task[m]
  BY BecomesOnly DEF Statuses
<1>3. /\ done'[n] = done[n] \cup Milestones(n, t)
      /\ \A m \in Runs \ {n} : done'[m] = done[m]
  BY ReachesOnly
<1>4. RunInv(n) /\ t \in Tasks(n) /\ phase[n] = "active" /\ When(n, t)
  BY DEF RunsInv, RunInv, PhaseInv, CondInv
<1>5. MilestoneInv(n)'
  <2>1. CASE t \in Tests
    <3>1. t \notin {"build", "image", "deploy-staging", "approve-production", "deploy-production"}
      BY <2>1 DEF Tests
    <3>2. (\A u \in Tests \cap Tasks(n) : task'[n][u] = "succeeded") => "tested" \in done'[n]
      <4> SUFFICES ASSUME \A u \in Tests \cap Tasks(n) : task'[n][u] = "succeeded"
                   PROVE  "tested" \in Milestones(n, t)
        BY <1>3
      <4>1. \A u \in (Tests \cap Tasks(n)) \ {t} : task[n][u] = "succeeded"
        BY <1>1, <1>2
      <4> QED BY <2>1, <3>1, <4>1 DEF Milestones
    <3> QED BY <1>1, <1>2, <1>3, <1>4, <3>1, <3>2 DEF RunInv, MilestoneInv, AllTasks
  <2>2. CASE t \notin Tests
    <3>1. (\A u \in Tests \cap Tasks(n) : task'[n][u] = "succeeded") => "tested" \in done'[n]
      BY <1>1, <1>2, <1>3, <1>4, <2>2 DEF RunInv, MilestoneInv
    <3>2. /\ t = "build" => "built" \in Milestones(n, t)
          /\ t = "image" => "pushed" \in Milestones(n, t)
          /\ t = "deploy-staging" => "staged" \in Milestones(n, t)
          /\ t = "approve-production" => "approved" \in Milestones(n, t)
          /\ t = "deploy-production" => "promoted" \in Milestones(n, t)
      BY <2>2 DEF Milestones
    <3> QED BY <1>1, <1>2, <1>3, <1>4, <3>1, <3>2 DEF RunInv, MilestoneInv, AllTasks
  <2> QED BY <2>1, <2>2
<1>6. DoneInv(n)'
  <2>1. /\ "pushed" \in Milestones(n, t) => t = "image"
        /\ "staged" \in Milestones(n, t) => t = "deploy-staging"
    BY DEF Milestones, AllTasks, Tests
  <2> QED BY <1>3, <1>4, <2>1, Behind DEF RunInv, DoneInv
<1>7. RunInv(n)'
  <2>1. Moves(n, t, "succeeded")
    BY <1>4 DEF Moves
  <2> QED BY <1>4, <1>5, <1>6, <2>1, MoveRun DEF RunInv
<1>8. \A m \in Runs \ {n} : RunInv(m)'
  BY <1>2, <1>3, RunKept DEF RunsInv
<1> QED BY <1>7, <1>8 DEF RunsInv

--------------------------------------------------------------------------------
(* The steps                                                                   *)

\* A step of a task, and one that lets a run begin, end or go on.
TaskStep(n, t, status) ==
    /\ Moves(n, t, status)
    /\ UNCHANGED <<phase, request, told>>
    /\ UNCHANGED deployed \/ \E env \in Environments :
                                /\ t = DeployTask(env) /\ task[n][t] = "running"
                                /\ Upgrade(n, env)
    /\ \/ UNCHANGED registry /\ (t = "image" => status # "succeeded")
       \/ t = "image" /\ task[n][t] = "running" /\ Push(n)
    /\ IF status = "succeeded"
       THEN task[n][t] = "running" /\ Reaches(n, Milestones(n, t))
       ELSE UNCHANGED done

RunStep(n) == Trigger(n) \/ End(n) \/ Timeout(n) \/ Retry(n)

LEMMA StepKinds ==
  ASSUME TypeOK, RunsInv, [Next]_vars
  PROVE  \/ UNCHANGED vars
         \/ \E n \in Runs : \/ RunStep(n)
                            \/ \E t \in AllTasks, status \in Statuses : TaskStep(n, t, status)
<1>1. ASSUME NEW n \in Runs, NEW t \in AllTasks, NEW status \in Statuses, task[n][t] = "running",
             status \in {"succeeded", "failed"}, Becomes(n, t, status)
      PROVE  Moves(n, t, status)
  BY <1>1 DEF Moves, RunsInv, RunInv, PhaseInv, CondInv
<1>2. ASSUME NEW n \in Runs, NEW t \in AllTasks, Skip(n, t) \/ Start(n, t)
      PROVE  \E status \in Statuses : TaskStep(n, t, status)
  <2>1. CASE Skip(n, t)
    BY <2>1 DEF Skip, TaskStep, Moves, Ready, Statuses
  <2>2. CASE Start(n, t)
    BY <2>2 DEF Start, TaskStep, Moves, Ready, Statuses
  <2> QED BY <1>2, <2>1, <2>2
<1>3. ASSUME NEW n \in Runs, StartProduction(n)
      PROVE  \E t \in AllTasks, status \in Statuses : TaskStep(n, t, status)
  <2> DEFINE t == "deploy-production"
             status == IF On(n, "jenkins") /\ n < milestone THEN "failed" ELSE "running"
  <2>1. TaskStep(n, t, status)
    BY <1>3 DEF StartProduction, TaskStep, Moves, Ready
  <2> QED BY <2>1 DEF AllTasks, Statuses
<1>4. ASSUME NEW n \in Runs, NEW t \in AllTasks, Succeed(n, t) \/ Fail(n, t)
      PROVE  \E status \in Statuses : TaskStep(n, t, status)
  <2>1. CASE Succeed(n, t)
    BY <1>1, <2>1 DEF Succeed, TaskStep, Statuses
  <2>2. CASE Fail(n, t)
    BY <1>1, <2>2 DEF Fail, TaskStep, Statuses
  <2> QED BY <1>4, <2>1, <2>2
<1>5. ASSUME NEW n \in Runs, NEW env \in Environments, Deploy(n, env) \/ DeployFails(n, env)
      PROVE  \E t \in AllTasks, status \in Statuses : TaskStep(n, t, status)
  <2> DEFINE t == DeployTask(env)
  <2>0. t \in AllTasks /\ t # "image"
    BY DEF DeployTask, AllTasks
  <2>1. CASE Deploy(n, env)
    BY <1>1, <2>0, <2>1 DEF Deploy, TaskStep, Statuses
  <2>2. CASE DeployFails(n, env)
    BY <1>1, <2>0, <2>2 DEF DeployFails, TaskStep, Statuses
  <2> QED BY <1>5, <2>1, <2>2
<1>6. ASSUME NEW n \in Runs, Image(n)
      PROVE  \E t \in AllTasks, status \in Statuses : TaskStep(n, t, status)
  <2>1. "image" \in AllTasks /\ "succeeded" \in Statuses
    BY DEF AllTasks, Statuses
  <2>2. TaskStep(n, "image", "succeeded")
    BY <1>1, <1>6, <2>1 DEF Image, TaskStep
  <2> QED BY <2>1, <2>2
<1>7. ASSUME NEW n \in Runs, Trigger(n) \/ Engine(n) \/ Work(n) \/ Timeout(n)
      PROVE  RunStep(n) \/ \E t \in AllTasks, status \in Statuses : TaskStep(n, t, status)
  BY <1>2, <1>3, <1>4, <1>5, <1>6, <1>7 DEF Engine, Work, RunStep
<1> QED BY <1>7 DEF Next

LEMMA UpgradeOnly ==
  ASSUME TypeOK, NEW n \in Runs, NEW env \in Environments, Upgrade(n, env)
  PROVE  /\ deployed' \in [Environments -> {0} \cup Runs] /\ deployed'[env] = n
         /\ \A other \in Environments \ {env} : deployed'[other] = deployed[other]
  BY DEF TypeOK, Upgrade

\* What is upgraded, by whom and while what is behind it.
LEMMA DeployedBy ==
  ASSUME TypeOK, RunsInv, [Next]_vars, NEW env \in Environments
  PROVE  \/ deployed'[env] = deployed[env]
         \/ \E n \in Runs : deployed'[env] = n /\ phase[n] = "active" /\ MayRunIn(env, n)
<1>1. ASSUME NEW n \in Runs, NEW other \in Environments, Upgrade(n, other),
             task[n][DeployTask(other)] = "running"
      PROVE  \/ deployed'[env] = deployed[env]
             \/ deployed'[env] = n /\ phase[n] = "active" /\ MayRunIn(env, n)
  <2>1. phase[n] = "active"
    BY <1>1 DEF RunsInv, RunInv, PhaseInv, DeployTask, AllTasks
  <2>2. MayRunIn(other, n)
    <3>1. RunInv(n)
      BY DEF RunsInv
    <3>2. CASE other = "staging"
      BY <1>1, <3>1, <3>2, Behind DEF DeployTask, MayRunIn
    <3>3. CASE other = "production"
      BY <1>1, <3>1, <3>3, Behind DEF DeployTask, MayRunIn, RunInv, DoneInv
    <3> QED BY <3>2, <3>3 DEF Environments
  <2> QED BY <1>1, <2>1, <2>2, UpgradeOnly
<1>2. ASSUME NEW n \in Runs, RunStep(n)
      PROVE  \/ UNCHANGED deployed
             \/ \E other \in Environments : task[n][DeployTask(other)] = "running" /\ Upgrade(n, other)
  BY <1>2 DEF RunStep, Trigger, End, Timeout, Retry, Running
<1>3. ASSUME NEW n \in Runs, NEW t \in AllTasks, NEW status \in Statuses, TaskStep(n, t, status)
      PROVE  \/ UNCHANGED deployed
             \/ \E other \in Environments : task[n][DeployTask(other)] = "running" /\ Upgrade(n, other)
  BY <1>3 DEF TaskStep
<1>4. \/ UNCHANGED deployed
      \/ \E n \in Runs, other \in Environments :
            task[n][DeployTask(other)] = "running" /\ Upgrade(n, other)
  BY <1>2, <1>3, StepKinds DEF vars
<1> QED BY <1>1, <1>4

\* What is pushed, by whom and while what is behind it.
LEMMA PushedBy ==
  ASSUME TypeOK, RunsInv, [Next]_vars
  PROVE  /\ \/ UNCHANGED registry
            \/ \E n \in Runs : Push(n) /\ task[n]["image"] = "running"
         /\ \A n \in Runs : "pushed" \in done'[n] => "pushed" \in done[n] \/ Push(n)
<1>1. ASSUME NEW n \in Runs, RunStep(n)
      PROVE  /\ UNCHANGED done
             /\ UNCHANGED registry \/ (Push(n) /\ task[n]["image"] = "running")
  BY <1>1 DEF RunStep, Trigger, End, Timeout, Retry, Running
<1>2. ASSUME NEW n \in Runs, NEW t \in AllTasks, NEW status \in Statuses, TaskStep(n, t, status)
      PROVE  /\ UNCHANGED registry \/ (Push(n) /\ task[n]["image"] = "running")
             /\ \A m \in Runs : "pushed" \in done'[m] => "pushed" \in done[m] \/ Push(m)
  <2>1. UNCHANGED registry \/ (Push(n) /\ task[n]["image"] = "running")
    BY <1>2 DEF TaskStep
  <2>2. CASE UNCHANGED done
    BY <2>1, <2>2
  <2>3. CASE status = "succeeded" /\ Reaches(n, Milestones(n, t))
    <3>1. /\ done'[n] = done[n] \cup Milestones(n, t)
          /\ \A m \in Runs \ {n} : done'[m] = done[m]
      BY <2>3, ReachesOnly
    <3>2. "pushed" \in Milestones(n, t) => t = "image"
      BY DEF Milestones, AllTasks, Tests
    <3>3. t = "image" => Push(n)
      BY <1>2, <2>3 DEF TaskStep
    <3> QED BY <2>1, <3>1, <3>2, <3>3
  <2> QED BY <1>2, <2>2, <2>3 DEF TaskStep
<1> QED BY <1>1, <1>2, StepKinds DEF vars

LEMMA TagType ==
  ASSUME NEW n \in Runs
  PROVE  /\ n # Named /\ n \in Tags /\ Named \in Tags /\ Tag(n) \in Tags
         /\ Tag(n) = IF request[n].override = "name" THEN Named ELSE n
  BY PlatformsAssumption DEF Named, Tags, Tag, Runs

LEMMA PushOnly ==
  ASSUME TypeOK, NEW n \in Runs, Push(n)
  PROVE  /\ registry' \in [Tags -> {0} \cup Runs] /\ registry'[Tag(n)] = n
         /\ \A tag \in Tags \ {Tag(n)} : registry'[tag] = registry[tag]
<1>1. Tag(n) \in Tags
  BY TagType
<1> QED BY <1>1 DEF TypeOK, Push

LEMMA MilestoneTypes ==
  ASSUME NEW n \in Runs, NEW t \in AllTasks
  PROVE  Milestones(n, t) \subseteq Contract!Milestones
  BY DEF Milestones, Contract!Milestones

LEMMA NextType ==
  ASSUME TypeOK, RunsInv, [Next]_vars
  PROVE  TypeOK'
<1>1. CASE UNCHANGED vars
  BY <1>1 DEF vars, TypeOK
<1>2. deployed' \in [Environments -> {0} \cup Runs]
  <2>1. ASSUME NEW n \in Runs, RunStep(n)
        PROVE  UNCHANGED deployed \/ \E env \in Environments : Upgrade(n, env)
    BY <2>1 DEF RunStep, Trigger, End, Timeout, Retry
  <2>2. UNCHANGED deployed \/ \E n \in Runs, env \in Environments : Upgrade(n, env)
    BY <2>1, StepKinds DEF TaskStep, vars
  <2> QED BY <2>2, UpgradeOnly DEF TypeOK
<1>2a. registry' \in [Tags -> {0} \cup Runs]
  BY PushedBy, PushOnly DEF TypeOK
<1>3. ASSUME NEW n \in Runs, NEW t \in AllTasks, NEW status \in Statuses, TaskStep(n, t, status)
      PROVE  TypeOK'
  <2>1. task' \in [Runs -> [AllTasks -> Statuses]]
    BY <1>3, BecomesOnly DEF TaskStep, Moves
  <2>2. done' \in [Runs -> SUBSET Contract!Milestones]
    BY <1>3, MilestoneTypes DEF TaskStep, TypeOK, Reaches
  <2> QED BY <1>2, <1>2a, <1>3, <2>1, <2>2 DEF TaskStep, TypeOK
<1>4. ASSUME NEW n \in Runs, RunStep(n) PROVE TypeOK'
  <2>1. UNCHANGED <<request, done>>
    BY <1>4 DEF RunStep, Trigger, End, Timeout, Retry
  <2>2. phase' \in [Runs -> {"new", "active", "ended"}]
    BY <1>4 DEF RunStep, Trigger, End, Timeout, Retry, TypeOK
  <2>3. task' \in [Runs -> [AllTasks -> Statuses]]
    BY <1>4 DEF RunStep, Trigger, End, Timeout, Retry, TypeOK, Statuses
  <2>4. told' \in [Runs -> {"nothing", "success", "warning", "failure"}]
    BY <1>4 DEF RunStep, Trigger, End, Timeout, Retry, TypeOK, Verdict
  <2> QED BY <1>2, <1>2a, <2>1, <2>2, <2>3, <2>4 DEF TypeOK
<1> QED BY <1>1, <1>3, <1>4, StepKinds

\* A run that ends well has every task behind it.
LEMMA AllPassed ==
  ASSUME TypeOK, NEW n \in Runs, RunInv(n), phase[n] = "active", Running(n) = {},
         Failed(n) = {}, \A t \in Tasks(n) : ~Ready(n, t)
  PROVE  \A t \in Tasks(n) : task[n][t] \in Passed
<1>1. \A t \in Tasks(n) : task[n][t] \in Passed \cup {"waiting"}
  BY Graph DEF TypeOK, Statuses, Running, Failed, Passed
<1>2. \A t \in Tasks(n) : (\A need \in Needs(n, t) : task[n][need] \in Passed) =>
          task[n][t] \in Passed
  BY <1>1 DEF Ready, Passed
<1>3. task[n]["clone"] \in Passed /\ task[n]["build"] \in Passed
  BY <1>2, Graph
<1>4. \A t \in Tests \cap Tasks(n) : task[n][t] \in Passed
  BY <1>2, <1>3, Graph
<1>5. task[n]["image"] \in Passed
  BY <1>2, <1>4, Graph
<1>6. task[n]["deploy-staging"] \in Passed
  BY <1>2, <1>5, Graph
<1>7. "approve-production" \in Tasks(n) => task[n]["approve-production"] \in Passed
  BY <1>2, <1>6, Graph
<1>8. task[n]["deploy-production"] \in Passed
  BY <1>2, <1>6, <1>7, Graph
<1> QED BY <1>3, <1>4, <1>5, <1>6, <1>7, <1>8, Graph DEF AllTasks

LEMMA RunStepRuns ==
  ASSUME TypeOK, RunsInv, NEW n \in Runs, RunStep(n)
  PROVE  RunsInv'
<1>1. UNCHANGED <<request, done>>
  BY DEF RunStep, Trigger, End, Timeout, Retry
<1>2. /\ Tasks(n)' = Tasks(n) /\ Tasks(n) \subseteq AllTasks /\ RunInv(n)
      /\ \A t \in AllTasks : Needs(n, t)' = Needs(n, t) /\ (When(n, t)' <=> When(n, t))
      /\ \A t \in AllTasks : Needs(n, t) \subseteq Tasks(n)
  BY <1>1, SameGraph, Graph DEF RunsInv
<1>3. ASSUME NEW m \in Runs, m # n PROVE RunInv(m)'
  <2>1. phase'[m] = phase[m] /\ task'[m] = task[m] /\ told'[m] = told[m]
    BY <1>3 DEF RunStep, Trigger, End, Timeout, Retry, TypeOK
  <2> QED BY <1>1, <2>1, RunKept DEF RunsInv
\* What succeeded or was skipped stays so; what is stopped has failed, what is retried waits.
<1>4. \A t \in AllTasks :
          \/ task'[n][t] = task[n][t]
          \/ task[n][t] = "running" /\ task'[n][t] = "failed"
          \/ task[n][t] = "failed" /\ task'[n][t] = "waiting"
  BY DEF RunStep, Trigger, End, Timeout, Retry, Running, Failed, TypeOK
<1>5. GraphInv(n)'
  <2> SUFFICES ASSUME NEW t \in Tasks(n), task'[n][t] # "waiting", NEW need \in Needs(n, t)
               PROVE  task'[n][need] \in Passed
    BY <1>2 DEF GraphInv
  <2>1. task[n][t] # "waiting" /\ need \in AllTasks
    BY <1>2, <1>4
  <2>2. task[n][need] \in Passed
    BY <1>2, <2>1 DEF RunInv, GraphInv
  <2> QED BY <1>4, <2>1, <2>2 DEF Passed
<1>6. CondInv(n)'
  BY <1>2, <1>4 DEF RunInv, CondInv
<1>7. PhaseInv(n)'
  <2>1. CASE Trigger(n)
    BY <1>1, <1>2, <2>1 DEF Trigger, TypeOK, RunInv, PhaseInv
  <2>2. CASE End(n)
    BY <1>1, <1>2, <2>2 DEF End, TypeOK, RunInv, PhaseInv, Running
  <2>3. CASE Timeout(n)
    <3>1. phase'[n] = "ended" /\ \A t \in AllTasks : task'[n][t] # "running"
      BY <1>2, <2>3 DEF Timeout, TypeOK, Running, RunInv, PhaseInv
    <3> QED BY <3>1 DEF PhaseInv
  <2>4. CASE Retry(n)
    <3>1. phase'[n] = "active" /\ told'[n] = "failure"
      BY <2>4 DEF Retry, TypeOK
    <3>2. \A t \in AllTasks : task'[n][t] = "running" => task[n][t] = "running"
      BY <1>4
    <3> QED BY <1>2, <3>1, <3>2 DEF RunInv, PhaseInv
  <2> QED BY <2>1, <2>2, <2>3, <2>4 DEF RunStep
<1>8. MilestoneInv(n)' /\ DoneInv(n)'
  <2>1. \A t \in AllTasks : task'[n][t] = "succeeded" => task[n][t] = "succeeded"
    BY <1>4
  <2> QED BY <1>1, <1>2, <2>1 DEF RunInv, MilestoneInv, DoneInv, AllTasks
<1> QED BY <1>3, <1>5, <1>6, <1>7, <1>8 DEF RunsInv, RunInv

LEMMA NextRuns ==
  ASSUME TypeOK, RunsInv, [Next]_vars
  PROVE  RunsInv'
<1>1. CASE UNCHANGED vars
  BY <1>1, RunKept DEF vars, RunsInv
<1>2. ASSUME NEW n \in Runs, NEW t \in AllTasks, NEW status \in Statuses, TaskStep(n, t, status)
      PROVE  RunsInv'
  <2>1. CASE status = "succeeded"
    BY <1>2, <2>1, MoveOn DEF TaskStep, Moves
  <2>2. CASE status # "succeeded"
    BY <1>2, <2>2, MoveQuietly DEF TaskStep
  <2> QED BY <2>1, <2>2
<1> QED BY <1>1, <1>2, RunStepRuns, StepKinds

\* What a step does not take back.
LEMMA StepEffects ==
  ASSUME TypeOK, RunsInv, [Next]_vars
  PROVE  /\ UNCHANGED request
         /\ \A n \in Runs : done[n] \subseteq done'[n]
         /\ \A n \in Runs : phase'[n] = phase[n] \/ RunStep(n)
         /\ \A n \in Runs : told'[n] = "success" =>
               told[n] = "success" \/ (End(n) /\ Verdict(n) = "success")
<1>1. CASE UNCHANGED vars
  BY <1>1 DEF vars
<1>2. ASSUME NEW n \in Runs, NEW t \in AllTasks, NEW status \in Statuses, TaskStep(n, t, status)
      PROVE  /\ UNCHANGED <<request, phase, told>>
             /\ \A m \in Runs : done[m] \subseteq done'[m]
  <2>1. UNCHANGED <<request, phase, told>> /\ (UNCHANGED done \/ Reaches(n, Milestones(n, t)))
    BY <1>2 DEF TaskStep
  <2> QED BY <2>1, ReachesOnly
<1>3. ASSUME NEW n \in Runs, RunStep(n)
      PROVE  /\ UNCHANGED <<request, done>>
             /\ \A m \in Runs : m # n => phase'[m] = phase[m] /\ told'[m] = told[m]
             /\ told'[n] = "success" =>
                   told[n] = "success" \/ (End(n) /\ Verdict(n) = "success")
  <2>1. UNCHANGED <<request, done>>
    BY <1>3 DEF RunStep, Trigger, End, Timeout, Retry
  <2>2. \A m \in Runs : m # n => phase'[m] = phase[m] /\ told'[m] = told[m]
    BY <1>3 DEF RunStep, Trigger, End, Timeout, Retry, TypeOK
  <2>3. told'[n] = "success" => told[n] = "success" \/ (End(n) /\ Verdict(n) = "success")
    BY <1>3 DEF RunStep, Trigger, End, Timeout, Retry, TypeOK
  <2> QED BY <2>1, <2>2, <2>3
<1> QED BY <1>1, <1>2, <1>3, StepKinds

LEMMA NextDeploy ==
  ASSUME TypeOK, RunsInv, DeployInv, [Next]_vars
  PROVE  DeployInv'
<1>1. \A env \in Environments : \A n \in Runs : MayRunIn(env, n) => MayRunIn(env, n)'
  BY StepEffects DEF MayRunIn, On
<1> QED BY <1>1, DeployedBy DEF DeployInv

LEMMA NextRegistry ==
  ASSUME TypeOK, RunsInv, RegistryInv, [Next]_vars
  PROVE  RegistryInv'
<1>1. /\ UNCHANGED request /\ \A n \in Runs : done[n] \subseteq done'[n]
      /\ \A n \in Runs : Tag(n)' = Tag(n) /\ (Tested(n) => Tested(n)')
  BY StepEffects DEF Tag, Tested
<1>2. CASE UNCHANGED registry
  <2>1. \A n \in Runs : Push(n) => registry'[Tag(n)] = n /\ n # 0
    BY PushOnly, TagType DEF Named
  <2> QED BY <1>1, <1>2, <2>1, PushedBy DEF RegistryInv
<1>3. ASSUME NEW n \in Runs, Push(n), task[n]["image"] = "running" PROVE RegistryInv'
  <2>1. /\ registry'[Tag(n)] = n /\ n # 0
        /\ \A tag \in Tags \ {Tag(n)} : registry'[tag] = registry[tag]
    BY <1>3, PushOnly, TagType DEF Named
  <2>2. Tested(n)'
    BY <1>1, <1>3, Behind DEF RunsInv, Tested
  <2>3. ASSUME NEW m \in Runs, "pushed" \in done'[m] PROVE registry'[Tag(m)] # 0
    <3>1. CASE Tag(m) = Tag(n)
      BY <2>1, <3>1
    <3>2. CASE Tag(m) # Tag(n)
      <4>1. Push(m) => registry'[Tag(m)] = m /\ m # 0
        BY PushOnly, TagType DEF Named
      <4>2. "pushed" \in done[m] => registry[Tag(m)] # 0
        BY DEF RegistryInv
      <4> QED BY <2>1, <2>3, <3>2, <4>1, <4>2, PushedBy, TagType
    <3> QED BY <3>1, <3>2
  <2>4. ASSUME NEW m \in Runs PROVE registry'[m] \in {0, m}
    <3>1. CASE Tag(n) = m
      BY <2>1, <3>1, TagType
    <3>2. CASE Tag(n) # m
      BY <2>1, <3>2, TagType DEF RegistryInv
    <3> QED BY <3>1, <3>2
  <2>5. ASSUME NEW m \in Runs, registry'[Named] = m
        PROVE  request[m].override = "name" /\ Tested(m)'
    <3>1. CASE Tag(n) = Named
      BY <2>1, <2>2, <2>5, <3>1, TagType
    <3>2. CASE Tag(n) # Named
      BY <1>1, <2>1, <2>5, <3>2, TagType DEF RegistryInv
    <3> QED BY <3>1, <3>2
  <2> QED BY <1>1, <2>3, <2>4, <2>5 DEF RegistryInv, Named
<1> QED BY <1>2, <1>3, PushedBy

LEMMA NextJob ==
  ASSUME TypeOK, RunsInv, JobInv, [Next]_vars
  PROVE  JobInv'
<1> SUFFICES ASSUME NEW m \in Runs, NEW n \in Runs, n < m, SameJob(m, n), phase'[m] # "new"
             PROVE  phase'[n] = "ended"
  BY StepEffects DEF JobInv, SameJob, On
<1>1. phase[n] = "ended"
  <2>1. CASE phase[m] # "new"
    BY <2>1 DEF JobInv
  <2>2. CASE phase[m] = "new"
    <3>1. Trigger(m)
      BY <2>2, StepEffects DEF RunStep, End, Timeout, Retry
    <3>2. n \in 1 .. m - 1 /\ SameJob(n, m)
      BY DEF Runs, SameJob
    <3> QED BY <3>1, <3>2 DEF Trigger
  <2> QED BY <2>1, <2>2
<1>2. ~RunStep(n) \/ phase'[n] = "ended"
  BY <1>1 DEF RunStep, Trigger, End, Timeout, Retry, SameJob, On
<1> QED BY <1>1, <1>2, StepEffects

LEMMA NextShipped ==
  ASSUME TypeOK, RunsInv, SuccessMeansShipped, [Next]_vars
  PROVE  SuccessMeansShipped'
<1> DEFINE Shipped(n) ==
        /\ "pushed" \in done[n] /\ Tested(n)
        /\ (On(n, "jenkins") => request[n].branch = "main") =>
            /\ "staged" \in done[n]
            /\ request[n].environment = "production" => "promoted" \in done[n]
<1>1. \A n \in Runs : Shipped(n) => Shipped(n)'
  BY StepEffects DEF On, Tested
<1>2. ASSUME NEW n \in Runs, End(n), Verdict(n) = "success" PROVE Shipped(n)
  <2>1. Failed(n) = {}
    BY <1>2 DEF Verdict
  <2>2. RunInv(n) /\ \A t \in Tasks(n) : task[n][t] \in Passed
    BY <1>2, <2>1, AllPassed DEF RunsInv, End
  <2>3. \A t \in Tasks(n) : When(n, t) => task[n][t] = "succeeded"
    BY <2>2 DEF RunInv, CondInv, Passed
  <2>4. /\ When(n, "image")
        /\ (On(n, "jenkins") => request[n].branch = "main") =>
              /\ When(n, "deploy-staging")
              /\ request[n].environment = "production" => When(n, "deploy-production")
    BY DEF When, Tests
  <2> QED BY <2>2, <2>3, <2>4, Graph DEF RunInv, MilestoneInv, DoneInv, Tested
<1>3. \A n \in Runs : told[n] = "success" => Shipped(n)
  BY DEF SuccessMeansShipped, RunsInv, RunInv, PhaseInv
<1> HIDE DEF Shipped
<1>4. \A n \in Runs : told'[n] = "success" => Shipped(n)'
  BY <1>1, <1>2, <1>3, StepEffects
<1> QED BY <1>4 DEF SuccessMeansShipped, Shipped

--------------------------------------------------------------------------------
LEMMA InitInvariant ==
  ASSUME Init
  PROVE  IInv
<1>1. TypeOK
  BY DEF Init, TypeOK, Statuses, Contract!Milestones
<1>2. RunsInv
  <2> SUFFICES ASSUME NEW n \in Runs PROVE RunInv(n)
    BY DEF RunsInv
  <2>1. \A t \in AllTasks : task[n][t] = "waiting"
    BY DEF Init
  <2>2. \A t \in Tasks(n) \cup {"build", "image", "deploy-staging", "approve-production",
                                "deploy-production", "unit-test"} : task[n][t] = "waiting"
    BY <1>1, <2>1, Graph DEF AllTasks, Tests
  <2>3. "unit-test" \in Tests \cap Tasks(n)
    BY <1>1, Graph DEF Tests
  <2> QED BY <2>1, <2>2, <2>3
          DEF Init, RunInv, GraphInv, PhaseInv, CondInv, MilestoneInv, DoneInv
<1>3. DeployInv /\ SuccessMeansShipped /\ JobInv
  BY DEF Init, DeployInv, SuccessMeansShipped, JobInv, Runs
<1>4. RegistryInv
  BY DEF Init, RegistryInv, Named, Tags, Runs
<1> QED BY <1>1, <1>2, <1>3, <1>4 DEF IInv

\* The inductive invariant holds of every run of the Jenkinsfile, the Tekton pipeline and the
\* Argo DAG: which jobs may have started and what each deployment was given.
THEOREM InductiveInvariant == Spec => []IInv
<1>1. IInv /\ [Next]_vars => IInv'
  BY NextType, NextRuns, NextDeploy, NextRegistry, NextShipped, NextJob DEF IInv
<1> QED BY <1>1, InitInvariant, PTL DEF Spec

\* Every variable keeps its type.
THEOREM TypeCorrect == Spec => []TypeOK
BY InductiveInvariant, PTL DEF IInv

\* An environment was upgraded by a run with a pushed, tested image that went through staging
\* before production, on Jenkins from main; its tag always names that image, or the tested one
\* of another Jenkins build that was given the same IMAGE_TAG_OVERRIDE (Jenkinsfile:38, 45).
\* Failed upgrades, timeouts and argo retry are included.
THEOREM TestedImagesOnly == Spec => []EnvironmentsRunTestedImages
<1>1. IInv => EnvironmentsRunTestedImages
  <2> SUFFICES ASSUME IInv, NEW env \in Environments, deployed[env] # 0
               PROVE  LET n == deployed[env]
                          image == registry[Tag(n)]
                      IN
                      /\ "pushed" \in done[n] /\ Tested(n)
                      /\ env = "production" => "staged" \in done[n]
                      /\ On(n, "jenkins") => request[n].branch = "main"
                      /\ \/ image = n
                         \/ /\ image # 0 /\ request[image].override = "name"
                            /\ request[n].override = "name" /\ Tested(image)
    BY DEF EnvironmentsRunTestedImages
  <2>1. TypeOK /\ RegistryInv
    BY DEF IInv
  <2>2. PICK n \in Runs : n = deployed[env]
    BY <2>1 DEF TypeOK
  <2>3. MayRunIn(env, n) /\ DoneInv(n)
    BY <2>2 DEF IInv, DeployInv, RunsInv, RunInv
  <2>4. registry[Tag(n)] # 0 /\ registry[Tag(n)] \in {0} \cup Runs
    BY <2>1, <2>3, TagType DEF RegistryInv, MayRunIn, TypeOK
  <2>5. CASE request[n].override # "name"
    <3>1. registry[Tag(n)] = n
      BY <2>1, <2>4, <2>5, TagType DEF RegistryInv
    <3> QED BY <2>2, <2>3, <3>1 DEF MayRunIn, DoneInv, Tested
  <2>6. CASE request[n].override = "name"
    <3>1. PICK m \in Runs : m = registry[Tag(n)]
      BY <2>4
    <3>2. request[m].override = "name" /\ Tested(m)
      BY <2>1, <2>6, <3>1, TagType DEF RegistryInv
    <3> QED BY <2>2, <2>3, <2>4, <2>6, <3>1, <3>2 DEF MayRunIn, DoneInv, Tested
  <2> QED BY <2>5, <2>6
<1> QED BY <1>1, InductiveInvariant, PTL

\* Nobody is told of a success by post, finally or the workflow's phase unless the run shipped
\* all it was asked for.
THEOREM SuccessShipped == Spec => []SuccessMeansShipped
BY InductiveInvariant, PTL DEF IInv

\* Builds of one Jenkins job follow each other, so an older one never replaces a newer one in an
\* environment: the lock and the milestone of the Jenkinsfile are not needed for it.
THEOREM JenkinsInOrder == Spec => JenkinsDeploysInOrder
<1>1. IInv /\ [Next]_vars =>
          [\A env \in Environments :
              LET before == deployed[env]
                  after == deployed'[env]
              IN after < before => ~(On(before, "jenkins") /\ On(after, "jenkins"))]_vars
  <2> SUFFICES ASSUME IInv, [Next]_vars, NEW env \in Environments,
                      deployed'[env] < deployed[env],
                      On(deployed[env], "jenkins"), On(deployed'[env], "jenkins")
               PROVE  FALSE
    BY DEF On
  <2>1. TypeOK /\ RunsInv /\ DeployInv /\ JobInv
    BY DEF IInv
  <2>2. deployed[env] \in {0} \cup Runs
    BY <2>1 DEF TypeOK
  <2>3. PICK n \in Runs : deployed'[env] = n /\ phase[n] = "active" /\ MayRunIn(env, n)
    BY <2>1, <2>2, DeployedBy, PlatformsAssumption DEF Runs
  <2>4. PICK m \in Runs : deployed[env] = m
    BY <2>2, <2>3, PlatformsAssumption DEF Runs
  <2>5. MayRunIn(env, m) /\ phase[m] # "new"
    BY <2>1, <2>4 DEF DeployInv, MayRunIn, RunsInv, RunInv, PhaseInv
  <2>6. n < m /\ SameJob(m, n)
    BY <2>3, <2>4, <2>5 DEF MayRunIn, SameJob
  <2> QED BY <2>1, <2>3, <2>5, <2>6 DEF JobInv
<1> QED BY <1>1, InductiveInvariant, PTL DEF Spec, JenkinsDeploysInOrder

--------------------------------------------------------------------------------
(* The contract                                                                *)

LEMMA SuccessMayReach ==
  ASSUME TypeOK, RunsInv, NEW n \in Runs, NEW t \in AllTasks, task[n][t] = "running",
         NEW reached \in Milestones(n, t)
  PROVE  Contract!MayReach(n, reached)
<1>1. RunInv(n) /\ t \in Tasks(n)
  BY DEF RunsInv, RunInv, PhaseInv
<1>2. /\ "branch" \in GatesOf(request[n]) => On(n, "jenkins")
      /\ "approval" \in GatesOf(request[n]) => ~On(n, "tekton")
  BY RequestTypes DEF GatesOf, On, Platforms
<1>3. CASE t \in Tests
  <2>1. reached = "tested"
    BY <1>3 DEF Milestones, Tests
  <2> QED BY <1>1, <1>3, <2>1, Behind DEF Contract!MayReach
<1>4. CASE t = "build"
  BY <1>4 DEF Milestones, Contract!MayReach, Tests
<1>5. CASE t = "image"
  <2>1. reached = "pushed"
    BY <1>5 DEF Milestones, Tests
  <2> QED BY <1>1, <1>5, <2>1, Behind DEF Contract!MayReach
<1>6. CASE t = "deploy-staging"
  <2>1. reached = "staged"
    BY <1>6 DEF Milestones, Tests
  <2> QED BY <1>1, <1>2, <1>6, <2>1, Behind DEF Contract!MayReach
<1>7. CASE t = "approve-production"
  <2>1. reached = "approved"
    BY <1>7 DEF Milestones, Tests
  <2> QED BY <1>1, <1>7, <2>1, Behind DEF Contract!MayReach
<1>8. CASE t = "deploy-production"
  <2>1. reached = "promoted"
    BY <1>8 DEF Milestones, Tests
  <2> QED BY <1>1, <1>2, <1>8, <2>1, Behind DEF Contract!MayReach
<1>9. CASE t = "clone"
  BY <1>9 DEF Milestones, Tests
<1> QED BY <1>3, <1>4, <1>5, <1>6, <1>7, <1>8, <1>9 DEF AllTasks

LEMMA AtMostOneMilestone ==
  ASSUME NEW n \in Runs, NEW t \in AllTasks
  PROVE  Milestones(n, t) = {} \/ \E reached \in Contract!Milestones : Milestones(n, t) = {reached}
  BY DEF Milestones, Contract!Milestones

LEMMA NextContract ==
  ASSUME IInv, [Next]_vars
  PROVE  [Contract!Next]_(Contract!vars)
<1>1. TypeOK /\ RunsInv
  BY DEF IInv
<1>2. ASSUME UNCHANGED <<request, done>> PROVE [Contract!Next]_(Contract!vars)
  BY <1>2 DEF Contract!vars
<1>3. ASSUME NEW n \in Runs, NEW t \in AllTasks, task[n][t] = "running", UNCHANGED request,
             Reaches(n, Milestones(n, t))
      PROVE  [Contract!Next]_(Contract!vars)
  <2>1. CASE Milestones(n, t) \subseteq done[n]
    <3>1. UNCHANGED done
      BY <1>1, <1>3, <2>1 DEF Reaches, TypeOK
    <3> QED BY <1>2, <1>3, <3>1
  <2>2. CASE ~(Milestones(n, t) \subseteq done[n])
    <3>1. PICK reached \in Contract!Milestones : Milestones(n, t) = {reached} /\ reached \notin done[n]
      BY <2>2, AtMostOneMilestone
    <3>2. Contract!MayReach(n, reached)
      BY <1>1, <1>3, <3>1, SuccessMayReach
    <3>3. Contract!Reach(n, reached)
      BY <1>3, <3>1, <3>2 DEF Reaches, Contract!Reach
    <3> QED BY <3>3 DEF Contract!Next
  <2> QED BY <2>1, <2>2
<1>4. ASSUME NEW n \in Runs, NEW t \in AllTasks, NEW status \in Statuses, TaskStep(n, t, status)
      PROVE  [Contract!Next]_(Contract!vars)
  BY <1>2, <1>3, <1>4 DEF TaskStep
<1>5. ASSUME NEW n \in Runs, RunStep(n) PROVE [Contract!Next]_(Contract!vars)
  BY <1>2, <1>5 DEF RunStep, Trigger, End, Timeout, Retry
<1>6. ASSUME UNCHANGED vars PROVE [Contract!Next]_(Contract!vars)
  BY <1>2, <1>6 DEF vars
<1> QED BY <1>1, <1>4, <1>5, <1>6, StepKinds

\* Each platform keeps the order of the Jenkinsfile and the gates it has: every step is one of
\* the contract of a release, or none.
THEOREM KeepsReleaseContract == Spec => ImplementsReleaseContract
<1>1. Init => Contract!Init
  BY DEF Init, Contract!Init
<1> QED BY <1>1, NextContract, InductiveInvariant, PTL DEF Spec, ImplementsReleaseContract, Contract!Spec
================================================================================
