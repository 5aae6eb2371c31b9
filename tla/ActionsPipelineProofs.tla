------------------------- MODULE ActionsPipelineProofs -------------------------
(***************************************************************************)
(* Theorems about the GitHub Actions pipeline, for any number of runs, any  *)
(* requests, failures, cancellations and re-runs.                           *)
(***************************************************************************)
EXTENDS ActionsPipeline, TLAPS

Statuses == {"waiting"} \cup Busy \cup Ended

--------------------------------------------------------------------------------
(* The inductive invariant                                                     *)

\* A job is looked at when its needs have ended, and stays behind them in a re-run.
NeedsInv(n) ==
    \A job \in Jobs : result[n][job] # "waiting" =>
        \A need \in Needs(job) : result[n][need] \in Ended

\* Only active runs have busy jobs; a run that has not started has done nothing.
PhaseInv(n) ==
    /\ \A job \in Jobs : result[n][job] \in Busy => phase[n] = "active"
    /\ phase[n] = "new" => done[n] = {} /\ n \notin cancelled /\ n \notin again
    /\ phase[n] \in {"new", "pending"} /\ n \notin again =>
          \A job \in Jobs : result[n][job] = "waiting"
    /\ phase[n] = "ended" => \A job \in Jobs : result[n][job] \in Ended

\* A cancelled run does not skip its tests and push the image all the same.
CancelInv(n) ==
    n \in cancelled =>
        /\ result[n]["build"] \in Ended
        /\ result[n]["build"] = "success" => result[n]["test"] \in Ended

\* The condition of a job without the part that asks whether the run is cancelled.
Checked(n, job) ==
    CASE job = "test" -> result[n]["build"] = "success"
      [] job = "image" -> ImageIf(n)
      [] job = "deploy-staging" -> StagingIf(n)
      [] job = "deploy-production" -> ProductionIf(n)
      [] OTHER -> TRUE

\* What a job found when it was looked at is still so.
CondInv(n) ==
    \A job \in Jobs :
        /\ result[n][job] \in Busy \cup {"success"} => Checked(n, job)
        /\ result[n][job] = "skipped" =>
              ~Checked(n, job) \/ (job = "test" /\ request[n].skipTests)

\* Each result stands for a milestone.
MilestoneInv(n) ==
    /\ result[n]["build"] = "success" => "built" \in done[n]
    /\ result[n]["test"] = "success" => "tested" \in done[n] \/ request[n].skipTests
    /\ result[n]["image"] = "success" => "pushed" \in done[n]
    /\ result[n]["deploy-staging"] = "success" => "staged" \in done[n]
    /\ result[n]["deploy-production"] \in {"running", "success"} => "approved" \in done[n]
    /\ result[n]["deploy-production"] = "success" => "promoted" \in done[n]

\* The milestones of a run are in the order of the contract.
DoneInv(n) ==
    /\ "pushed" \in done[n] =>
          "built" \in done[n] /\ ("tested" \in done[n] \/ request[n].skipTests)
    /\ "staged" \in done[n] => "pushed" \in done[n] /\ request[n].branch = "main"
    /\ "approved" \in done[n] => "staged" \in done[n]

RunInv(n) ==
    /\ NeedsInv(n) /\ PhaseInv(n) /\ CancelInv(n) /\ CondInv(n)
    /\ MilestoneInv(n) /\ DoneInv(n)

RunsInv == \A n \in Runs : RunInv(n)

NameTag == [form |-> "name", of |-> 0]

\* A tag that a run pushed names an image; the short tag of a commit never another one's,
\* the operators' name one of a run that was given it, and the full SHA none.
RegistryInv ==
    \A n \in Runs :
        /\ registry[NameTag] = n => Tested(n) /\ request[n].override = "name"
        /\ "pushed" \in done[n] => registry[PushedTag(n)] # 0
        /\ registry[[form |-> "short", of |-> n]] \in {0, n}
        /\ registry[[form |-> "full", of |-> n]] = 0

MayRunIn(env, n) ==
    /\ "pushed" \in done[n] /\ request[n].branch = "main"
    /\ env = "production" => "approved" \in done[n]

DeployInv ==
    \A env \in Environments : \A n \in Runs : deployed[env].by = n =>
        deployed[env].tag = RequestedTag(n) /\ MayRunIn(env, n)

\* The concurrency group of a branch: one active run, one pending run behind an active one.
GroupInv ==
    \A m, n \in Runs : SameGroup(m, n) =>
        /\ phase[m] = "active" /\ phase[n] = "active" => m = n
        /\ phase[m] = "pending" /\ phase[n] = "pending" => m = n

PendingInv ==
    \A n \in Runs : phase[n] = "pending" =>
        \E m \in Runs : SameGroup(m, n) /\ phase[m] = "active"

\* Runs are triggered in order, and none overtakes one that is not run again.
OrderInv ==
    \A m, n \in Runs : n < m =>
        /\ phase[m] # "new" => phase[n] # "new"
        /\ SameGroup(m, n) /\ n \notin again =>
              /\ phase[n] = "pending" => phase[m] = "new"
              /\ phase[n] = "active" => \A env \in Environments : deployed[env].by # m

\* What a release on main has pushed and staged stays in place while the run is active.
PromotionInv ==
    \A n \in Runs \ again :
        phase[n] = "active" /\ request[n].branch = "main" =>
            /\ result[n]["image"] = "success" =>
                  LET pushedLast == registry[PushedTag(n)] IN
                  \/ pushedLast = n
                  \/ /\ request[n].override = "name" /\ pushedLast # 0
                     /\ request[pushedLast].branch # "main"
            /\ result[n]["deploy-staging"] = "success" =>
                  /\ request[n].override # "sha"
                  /\ deployed["staging"] = [tag |-> RequestedTag(n), by |-> n]

SafetyInv == TypeOK /\ RunsInv /\ RegistryInv /\ DeployInv /\ SuccessMeansShipped
IInv == SafetyInv /\ GroupInv /\ PendingInv /\ OrderInv /\ PromotionInv

--------------------------------------------------------------------------------
(* One job of one run                                                          *)

\* The needs of a job that is not waiting have ended; what the checks read are needs.
LEMMA NeedsAreJobs ==
  /\ \A job \in Jobs : Needs(job) \subseteq Jobs
  /\ \A job \in Jobs : job \notin Needs(job)
  /\ Needs("test") = {"build"} /\ Needs("image") = {"build", "test"}
  /\ Needs("deploy-staging") = {"build", "image"}
  /\ Needs("deploy-production") = {"build", "deploy-staging"}
  BY DEF Needs, Jobs

LEMMA BecomesOnly ==
  ASSUME TypeOK, NEW n \in Runs, NEW job \in Jobs, NEW status \in Statuses,
         Becomes(n, job, status)
  PROVE  /\ result' \in [Runs -> [Jobs -> Statuses]]
         /\ result'[n][job] = status
         /\ \A other \in Jobs \ {job} : result'[n][other] = result[n][other]
         /\ \A m \in Runs \ {n} : result'[m] = result[m]
  BY DEF TypeOK, Becomes, Statuses

\* A run that a step leaves alone, or that gets its group, stays as it is.
LEMMA RunKept ==
  ASSUME NEW n \in Runs, RunInv(n), UNCHANGED request,
         result'[n] = result[n], done'[n] = done[n],
         phase'[n] = phase[n] \/ (phase[n] = "pending" /\ phase'[n] = "active"),
         n \in cancelled' => n \in cancelled, n \in again => n \in again',
         n \in again' => phase[n] # "new"
  PROVE  RunInv(n)'
<1>1. NeedsInv(n)' /\ PhaseInv(n)'
  BY DEF RunInv, NeedsInv, PhaseInv
<1>2. CancelInv(n)'
  BY DEF RunInv, CancelInv
<1>3. CondInv(n)'
  BY DEF RunInv, CondInv, Checked, ImageIf, StagingIf, ProductionIf
<1>4. MilestoneInv(n)' /\ DoneInv(n)'
  BY DEF RunInv, MilestoneInv, DoneInv
<1> QED BY <1>1, <1>2, <1>3, <1>4 DEF RunInv

\* A job moves on: it starts or is skipped after a look at its condition, or it ends.
Advance(n, job, status) ==
    /\ phase[n] = "active"
    /\ Ready(n, job) \/ result[n][job] \in Busy
    /\ status \in Busy \cup Ended
    /\ Becomes(n, job, status)
    /\ status \in Busy \cup {"success"} => Checked(n, job)
    /\ status = "skipped" => ~Checked(n, job) \/ (job = "test" /\ request[n].skipTests)

LEMMA AdvanceRun ==
  ASSUME TypeOK, NEW n \in Runs, RunInv(n), UNCHANGED <<phase, request>>,
         NEW job \in Jobs, NEW status, Advance(n, job, status)
  PROVE  NeedsInv(n)' /\ PhaseInv(n)' /\ CondInv(n)'
<1>1. /\ result'[n][job] = status /\ status \in Busy \cup Ended /\ status # "waiting"
      /\ \A other \in Jobs \ {job} : result'[n][other] = result[n][other]
  BY BecomesOnly DEF Advance, Statuses, Busy, Ended
<1>2. result[n][job] \notin Ended
  BY DEF Advance, Ready, Busy, Ended
<1>3. \A need \in Needs(job) : result[n][need] \in Ended
  BY DEF Advance, Ready, RunInv, NeedsInv, Busy
\* Nothing that has started or ended needs the job.
<1>4. \A other \in Jobs : result'[n][other] # "waiting" =>
          /\ job \notin Needs(other)
          /\ \A need \in Needs(other) : result[n][need] \in Ended /\ result'[n][need] = result[n][need]
  <2> SUFFICES ASSUME NEW other \in Jobs, result'[n][other] # "waiting"
               PROVE  /\ job \notin Needs(other)
                      /\ \A need \in Needs(other) :
                            result[n][need] \in Ended /\ result'[n][need] = result[n][need]
    OBVIOUS
  <2>1. \A need \in Needs(other) : result[n][need] \in Ended
    BY <1>1, <1>3 DEF RunInv, NeedsInv
  <2>2. job \notin Needs(other)
    BY <1>2, <2>1
  <2> QED BY <1>1, <2>1, <2>2, NeedsAreJobs
<1>5. NeedsInv(n)'
  BY <1>4 DEF NeedsInv
<1>6. PhaseInv(n)'
  BY <1>1 DEF RunInv, PhaseInv, Advance
<1>7. \A other \in Jobs : result'[n][other] # "waiting" => (Checked(n, other)' <=> Checked(n, other))
  BY <1>4, NeedsAreJobs DEF Checked, ImageIf, StagingIf, ProductionIf, Jobs
<1>8. CondInv(n)'
  <2> SUFFICES ASSUME NEW other \in Jobs
               PROVE  /\ result'[n][other] \in Busy \cup {"success"} => Checked(n, other)'
                      /\ result'[n][other] = "skipped" =>
                            ~Checked(n, other)' \/ (other = "test" /\ request'[n].skipTests)
    BY DEF CondInv
  <2>1. CASE other = job
    BY <1>1, <1>7, <2>1 DEF Advance, Busy
  <2>2. CASE other # job
    BY <1>1, <1>7, <2>2 DEF RunInv, CondInv, Busy
  <2> QED BY <2>1, <2>2
<1> QED BY <1>5, <1>6, <1>8

LEMMA AdvanceCancel ==
  ASSUME TypeOK, NEW n \in Runs, RunInv(n), UNCHANGED cancelled,
         NEW job \in Jobs, NEW status, Advance(n, job, status)
  PROVE  CancelInv(n)'
<1>1. \A other \in Jobs \ {job} : result'[n][other] = result[n][other]
  BY BecomesOnly DEF Advance, Statuses
<1>2. result[n][job] \notin Ended
  BY DEF Advance, Ready, Busy, Ended
<1>3. "build" \in Jobs /\ "test" \in Jobs
  BY DEF Jobs
<1> QED BY <1>1, <1>2, <1>3 DEF RunInv, CancelInv

\* A job that moves on without reaching a milestone: it starts, is skipped, fails or is cancelled.
LEMMA AdvanceQuietly ==
  ASSUME TypeOK, NEW n \in Runs, RunInv(n), UNCHANGED <<request, done>>,
         NEW job \in Jobs, NEW status, Advance(n, job, status),
         \/ status \notin {"success"} /\ (job = "deploy-production" => status # "running")
         \/ job = "notify"
  PROVE  MilestoneInv(n)' /\ DoneInv(n)'
<1>1. /\ result'[n][job] = status
      /\ \A other \in Jobs \ {job} : result'[n][other] = result[n][other]
  BY BecomesOnly DEF Advance, Statuses
<1>2. MilestoneInv(n)'
  BY <1>1 DEF RunInv, MilestoneInv, Jobs
<1>3. DoneInv(n)'
  BY DEF RunInv, DoneInv
<1> QED BY <1>2, <1>3

\* A step of run n is no step of the others.
LEMMA OthersKept ==
  ASSUME TypeOK, RunsInv, NEW n \in Runs, NEW job \in Jobs, NEW status,
         Advance(n, job, status), UNCHANGED <<phase, request, again>>,
         NEW m \in Runs, m # n, done'[m] = done[m], m \in cancelled' => m \in cancelled
  PROVE  RunInv(m)'
<1>1. result'[m] = result[m]
  BY BecomesOnly DEF Advance, Statuses
<1>2. m \in again => phase[m] # "new"
  BY DEF RunsInv, RunInv, PhaseInv
<1> QED BY <1>1, <1>2, RunKept DEF RunsInv

LEMMA StartRuns ==
  ASSUME TypeOK, RunsInv, NEW n \in Runs, NEW job \in Jobs, Start(n, job) \/ Skip(n, job)
  PROVE  RunsInv'
<1> DEFINE status == IF If(n, job)
                     THEN IF job = "deploy-production" THEN "review" ELSE "running"
                     ELSE "skipped"
<1>1. UNCHANGED <<phase, request, cancelled, again, done>>
  BY DEF Start, Skip
<1>2. Ready(n, job) /\ Becomes(n, job, status) /\ status \in Busy \cup Ended
  BY DEF Start, Skip, Busy, Ended
<1>3. If(n, job) => Checked(n, job)
  BY NeedsAreJobs DEF If, Checked, Succeeded
<1>4. ~If(n, job) => ~Checked(n, job)
  <2>1. result[n][job] = "waiting" /\ "waiting" \notin Ended /\ CancelInv(n)
    BY <1>2 DEF Ready, Ended, RunsInv, RunInv
  <2>2. CASE job = "build"
    BY <2>1, <2>2 DEF If, Succeeded, Needs, CancelInv
  <2>3. CASE job = "test"
    BY <2>1, <2>3, NeedsAreJobs DEF If, Succeeded, Checked, CancelInv
  <2>4. CASE job \notin {"build", "test"}
    BY <2>4 DEF If, Checked, Jobs
  <2> QED BY <2>2, <2>3, <2>4
<1> HIDE DEF status
<1>5. Advance(n, job, status)
  BY <1>2, <1>3, <1>4 DEF Advance, Ready, Busy, Ended, status
<1>6. /\ status # "success" /\ (job = "deploy-production" => status # "running")
  BY DEF status
<1>7. RunInv(n)'
  BY <1>1, <1>5, <1>6, AdvanceRun, AdvanceCancel, AdvanceQuietly DEF RunsInv, RunInv
<1>8. \A m \in Runs : m # n => RunInv(m)'
  BY <1>1, <1>5, OthersKept
<1> QED BY <1>7, <1>8 DEF RunsInv

\* A busy job has every earlier job behind it.
LEMMA BusyNeeds ==
  ASSUME NEW n \in Runs, RunInv(n), NEW job \in Jobs, result[n][job] \in Busy
  PROVE  /\ phase[n] = "active" /\ Checked(n, job)
         /\ job # "build" => result[n]["build"] \in Ended
         /\ job \notin {"build", "test"} => result[n]["test"] \in Ended
<1>1. phase[n] = "active" /\ Checked(n, job)
  BY DEF RunInv, PhaseInv, CondInv
<1>2. \A other \in Jobs : result[n][other] # "waiting" =>
          \A need \in Needs(other) : result[n][need] \in Ended /\ result[n][need] # "waiting"
  BY DEF RunInv, NeedsInv, Ended
<1>3. result[n][job] # "waiting"
  BY DEF Busy
<1>4. Needs("notify") = Jobs \ {"notify"}
  BY DEF Needs
<1> QED BY <1>1, <1>2, <1>3, <1>4, NeedsAreJobs DEF Jobs

\* A job fails, is turned down by its reviewer or is stopped.
LEMMA FailureRuns ==
  ASSUME TypeOK, RunsInv, NEW n \in Runs, NEW job \in Jobs, result[n][job] \in Busy,
         NEW status \in {"failure", "cancelled"}, Becomes(n, job, status),
         UNCHANGED <<phase, request, again, done>>,
         cancelled' = cancelled \/ cancelled' = cancelled \cup {n}
  PROVE  RunsInv'
<1>1. RunInv(n) /\ phase[n] = "active"
  BY BusyNeeds DEF RunsInv
<1>2. Advance(n, job, status) /\ status # "success" /\ status # "running"
  BY <1>1 DEF Advance, Busy, Ended
<1>3. NeedsInv(n)' /\ PhaseInv(n)' /\ CondInv(n)' /\ MilestoneInv(n)' /\ DoneInv(n)'
  BY <1>1, <1>2, AdvanceRun, AdvanceQuietly
<1>4. CancelInv(n)'
  <2>1. /\ result'[n][job] = status /\ status \in Ended
        /\ \A other \in Jobs \ {job} : result'[n][other] = result[n][other]
    BY BecomesOnly DEF Statuses, Ended
  <2> QED BY <1>1, <2>1, BusyNeeds DEF CancelInv, Jobs
<1>5. RunInv(n)'
  BY <1>3, <1>4 DEF RunInv
<1>6. \A m \in Runs : m # n => RunInv(m)'
  BY <1>2, OthersKept
<1> QED BY <1>5, <1>6 DEF RunsInv

\* A job ends well, or a review does, and its run reaches a milestone.
LEMMA SuccessRuns ==
  ASSUME TypeOK, RunsInv, NEW n \in Runs, NEW job \in Jobs, result[n][job] \in Busy,
         NEW status \in {"success", "skipped", "running"}, Becomes(n, job, status),
         status = "skipped" => job = "test" /\ request[n].skipTests,
         UNCHANGED <<phase, request, again, cancelled>>,
         MilestoneInv(n)', DoneInv(n)', \A m \in Runs \ {n} : done'[m] = done[m]
  PROVE  RunsInv'
<1>1. RunInv(n) /\ phase[n] = "active" /\ Checked(n, job)
  BY BusyNeeds DEF RunsInv
<1>2. Advance(n, job, status)
  BY <1>1 DEF Advance, Busy, Ended
<1>3. RunInv(n)'
  BY <1>1, <1>2, AdvanceRun, AdvanceCancel DEF RunInv
<1>4. \A m \in Runs : m # n => RunInv(m)'
  BY <1>2, OthersKept
<1> QED BY <1>3, <1>4 DEF RunsInv

LEMMA ReachesOnly ==
  ASSUME TypeOK, NEW n \in Runs, NEW milestone, Reaches(n, milestone)
  PROVE  /\ done'[n] = done[n] \cup {milestone}
         /\ \A m \in Runs \ {n} : done'[m] = done[m]
  BY DEF TypeOK, Reaches

\* What is behind a run whose image is being built, or which is being deployed.
LEMMA Behind ==
  ASSUME NEW n \in Runs, RunInv(n)
  PROVE  /\ result[n]["image"] \in Busy \cup {"success"} =>
               "built" \in done[n] /\ ("tested" \in done[n] \/ request[n].skipTests)
         /\ result[n]["deploy-staging"] \in Busy \cup {"success"} =>
               "pushed" \in done[n] /\ request[n].branch = "main"
         /\ result[n]["deploy-production"] \in Busy \cup {"success"} =>
               /\ result[n]["deploy-staging"] = "success" /\ "staged" \in done[n]
               /\ request[n].environment = "production"
<1>1. {"build", "test", "image", "deploy-staging", "deploy-production"} \subseteq Jobs
  BY DEF Jobs
<1>2. result[n]["image"] \in Busy \cup {"success"} => ImageIf(n)
  BY <1>1 DEF RunInv, CondInv, Checked
<1>3. result[n]["deploy-staging"] \in Busy \cup {"success"} => StagingIf(n)
  BY <1>1 DEF RunInv, CondInv, Checked
<1>4. result[n]["deploy-production"] \in Busy \cup {"success"} => ProductionIf(n)
  BY <1>1 DEF RunInv, CondInv, Checked
<1>5. result[n]["test"] = "skipped" /\ result[n]["build"] = "success" => request[n].skipTests
  BY <1>1 DEF RunInv, CondInv, Checked
<1> QED BY <1>2, <1>3, <1>4, <1>5 DEF RunInv, MilestoneInv, ImageIf, StagingIf, ProductionIf

LEMMA MilestonesReached ==
  ASSUME TypeOK, RunsInv, NEW n \in Runs,
         Review(n) \/ Build(n) \/ Test(n) \/ Image(n) \/ Notify(n)
            \/ \E env \in Environments : Deploy(n, env)
  PROVE  RunsInv'
<1> USE DEF Busy
<1>0. RunInv(n) /\ Jobs # {} /\ {"build", "test", "image", "deploy-staging", "deploy-production", "notify"} = Jobs
  BY DEF RunsInv, Jobs
<1>1. CASE Build(n)
  <2>1. "build" \in Jobs /\ result[n]["build"] = "running" /\ Becomes(n, "build", "success")
        /\ Reaches(n, "built") /\ UNCHANGED <<phase, request, again, cancelled>>
    BY <1>0, <1>1 DEF Build
  <2>2. MilestoneInv(n)' /\ DoneInv(n)'
    BY <1>0, <2>1, BecomesOnly, ReachesOnly DEF RunInv, MilestoneInv, DoneInv, Statuses, Ended
  <2> QED BY <2>1, <2>2, ReachesOnly, SuccessRuns
<1>2. CASE Test(n)
  <2>1. PICK status \in {"skipped", "success"} :
          /\ result[n]["test"] = "running" /\ Becomes(n, "test", status)
          /\ status = "skipped" => request[n].skipTests
          /\ \/ request[n].skipTests /\ UNCHANGED done
             \/ Reaches(n, "tested")
          /\ UNCHANGED <<phase, request, again, cancelled>>
    BY <1>2 DEF Test
  <2>2. "test" \in Jobs /\ status \in Statuses
    BY <1>0, <2>1 DEF Statuses, Ended
  <2>3. MilestoneInv(n)' /\ DoneInv(n)' /\ \A m \in Runs \ {n} : done'[m] = done[m]
    BY <1>0, <2>1, <2>2, BecomesOnly, ReachesOnly DEF RunInv, MilestoneInv, DoneInv
  <2> QED BY <2>1, <2>2, <2>3, SuccessRuns
<1>3. CASE Image(n)
  <2>1. "image" \in Jobs /\ result[n]["image"] = "running" /\ Becomes(n, "image", "success")
        /\ Reaches(n, "pushed") /\ UNCHANGED <<phase, request, again, cancelled>>
    BY <1>0, <1>3 DEF Image
  <2>2. MilestoneInv(n)' /\ DoneInv(n)'
    BY <1>0, <2>1, Behind, BecomesOnly, ReachesOnly DEF RunInv, MilestoneInv, DoneInv, Statuses, Ended
  <2> QED BY <2>1, <2>2, ReachesOnly, SuccessRuns
<1>4. CASE Review(n)
  <2> DEFINE job == "deploy-production"
  <2>0. job \in Jobs /\ result[n][job] = "review" /\ UNCHANGED <<phase, request, again, cancelled>>
    BY <1>0, <1>4 DEF Review
  <2>1. CASE Becomes(n, job, "running") /\ Reaches(n, "approved")
    <3>1. MilestoneInv(n)' /\ DoneInv(n)'
      BY <1>0, <2>0, <2>1, Behind, BecomesOnly, ReachesOnly DEF RunInv, MilestoneInv, DoneInv, Statuses
    <3> QED BY <2>0, <2>1, <3>1, ReachesOnly, SuccessRuns
  <2>2. CASE Becomes(n, job, "failure") /\ UNCHANGED done
    BY <2>0, <2>2, FailureRuns
  <2> QED BY <1>4, <2>1, <2>2 DEF Review
<1>5. CASE Notify(n)
  <2>1. "notify" \in Jobs /\ result[n]["notify"] = "running" /\ Becomes(n, "notify", "success")
        /\ UNCHANGED <<phase, request, again, cancelled, done>>
    BY <1>0, <1>5 DEF Notify
  <2>2. MilestoneInv(n)' /\ DoneInv(n)'
    BY <1>0, <2>1, BecomesOnly DEF RunInv, MilestoneInv, DoneInv, Statuses, Ended
  <2> QED BY <2>1, <2>2, SuccessRuns
<1>6. CASE Deploy(n, "staging")
  <2> DEFINE job == "deploy-staging"
  <2>1. job \in Jobs /\ result[n][job] = "running" /\ Becomes(n, job, "success")
        /\ Reaches(n, "staged") /\ UNCHANGED <<phase, request, again, cancelled>>
    BY <1>0, <1>6 DEF Deploy, DeployJob
  <2>2. MilestoneInv(n)' /\ DoneInv(n)'
    BY <1>0, <2>1, Behind, BecomesOnly, ReachesOnly DEF RunInv, MilestoneInv, DoneInv, Statuses, Ended
  <2> QED BY <2>1, <2>2, ReachesOnly, SuccessRuns
<1>7. CASE Deploy(n, "production")
  <2> DEFINE job == "deploy-production"
  <2>1. job \in Jobs /\ result[n][job] = "running" /\ Becomes(n, job, "success")
        /\ Reaches(n, "promoted") /\ UNCHANGED <<phase, request, again, cancelled>>
    BY <1>0, <1>7 DEF Deploy, DeployJob
  <2>2. MilestoneInv(n)' /\ DoneInv(n)'
    BY <1>0, <2>1, Behind, BecomesOnly, ReachesOnly DEF RunInv, MilestoneInv, DoneInv, Statuses, Ended
  <2> QED BY <2>1, <2>2, ReachesOnly, SuccessRuns
<1> QED BY <1>1, <1>2, <1>3, <1>4, <1>5, <1>6, <1>7 DEF Environments

LEMMA FailsRuns ==
  ASSUME TypeOK, RunsInv, NEW n \in Runs, Fails(n)
  PROVE  RunsInv'
<1> USE DEF Busy
<1>1. CASE \E job \in Jobs : JobFails(n, job)
  BY <1>1, FailureRuns DEF JobFails
<1>2. CASE \E env \in Environments : DeployFails(n, env)
  BY <1>2, FailureRuns DEF DeployFails, DeployJob, Jobs
<1>3. CASE Cancel(n)
  <2>1. PICK job \in Jobs :
          /\ result[n][job] \in Busy
          /\ (job \notin {"build", "test"} /\ UNCHANGED result) \/ Becomes(n, job, "cancelled")
    BY <1>3 DEF Cancel
  <2>2. UNCHANGED <<phase, request, again, done>> /\ cancelled' = cancelled \cup {n}
    BY <1>3 DEF Cancel
  <2>3. CASE Becomes(n, job, "cancelled")
    BY <2>1, <2>2, <2>3, FailureRuns
  <2>4. CASE job \notin {"build", "test"} /\ UNCHANGED result
    <3>1. RunInv(n) /\ phase[n] = "active"
      BY <2>1, BusyNeeds DEF RunsInv
    <3>2. CancelInv(n)'
      BY <2>1, <2>4, <3>1, BusyNeeds DEF CancelInv
    <3>3. NeedsInv(n)' /\ PhaseInv(n)'
      BY <2>2, <2>4, <3>1 DEF RunInv, NeedsInv, PhaseInv
    <3>4. CondInv(n)' /\ MilestoneInv(n)' /\ DoneInv(n)'
      BY <2>2, <2>4, <3>1
      DEF RunInv, CondInv, Checked, ImageIf, StagingIf, ProductionIf, MilestoneInv, DoneInv
    <3>5. \A m \in Runs : m # n => RunInv(m)'
      BY <2>2, <2>4, RunKept DEF RunsInv, RunInv, PhaseInv
    <3> QED BY <3>1, <3>2, <3>3, <3>4, <3>5 DEF RunsInv, RunInv
  <2> QED BY <2>1, <2>3, <2>4
<1> QED BY <1>1, <1>2, <1>3 DEF Fails

--------------------------------------------------------------------------------
(* Triggers, re-runs and ends                                                  *)

\* What is run again includes all that was lost, and all that needs what is run again.
LEMMA RepeatedClosed ==
  ASSUME NEW n \in Runs
  PROVE  /\ Lost(n) \subseteq Repeated(n)
         /\ \A job \in Jobs : \A need \in Needs(job) : need \in Repeated(n) => job \in Repeated(n)
<1> DEFINE From(k) == \E j \in 1 .. k : Order[j] \in Lost(n)
<1>1. Len(Order) = 6
  BY DEF Order
<1>2. /\ Order[1] = "build" /\ Order[2] = "test" /\ Order[3] = "image"
      /\ Order[4] = "deploy-staging" /\ Order[5] = "deploy-production" /\ Order[6] = "notify"
  BY DEF Order
<1>3. \A i \in 1 .. 6 : Order[i] \in Repeated(n) <=> From(i)
  <2>1. \A i \in 1 .. 6 : From(i) => Order[i] \in Repeated(n)
    BY <1>1 DEF Repeated
  <2>2. \A i, j \in 1 .. 6 : Order[i] = Order[j] => i = j
    BY <1>2
  <2>3. \A i \in 1 .. 6 : Order[i] \in Repeated(n) => From(i)
    BY <1>1, <2>2 DEF Repeated
  <2> QED BY <2>1, <2>3
<1>4. \A job \in Jobs : \E i \in 1 .. 6 : Order[i] = job
  BY <1>2 DEF Jobs
<1>5. Lost(n) \subseteq Repeated(n)
  BY <1>3, <1>4 DEF Lost
<1>6. \A i, j \in 1 .. 6 : i <= j /\ From(i) => From(j)
  OBVIOUS
<1>7. \A job \in Jobs : \A need \in Needs(job) :
          \E i, j \in 1 .. 6 : i <= j /\ Order[i] = need /\ Order[j] = job
  BY <1>2, Z3 DEF Needs, Jobs
<1> QED BY <1>3, <1>5, <1>6, <1>7

\* A run that another one replaces in its group keeps what it did before; the rest is cancelled.
LEMMA ReplacedRun ==
  ASSUME TypeOK, NEW m \in Runs, RunInv(m), phase[m] = "pending", phase'[m] = "ended",
         result'[m] = [job \in Jobs |-> IF result[m][job] = "waiting" THEN "cancelled"
                                        ELSE result[m][job]],
         UNCHANGED request, done'[m] = done[m]
  PROVE  RunInv(m)'
<1>1. \A job \in Jobs :
          /\ result[m][job] = "waiting" => result'[m][job] = "cancelled"
          /\ result[m][job] # "waiting" => result'[m][job] = result[m][job]
  OBVIOUS
<1>2. \A job \in Jobs : result'[m][job] \in Ended
  BY <1>1 DEF RunInv, PhaseInv, TypeOK, Statuses, Ended, Busy
<1>3. NeedsInv(m)' /\ PhaseInv(m)'
  BY <1>2, NeedsAreJobs DEF NeedsInv, PhaseInv, Ended, Busy
<1>4. CancelInv(m)'
  BY <1>2 DEF CancelInv, Jobs
<1>5. \A job \in Jobs : result'[m][job] \in Busy \cup {"success", "skipped"} =>
          result'[m][job] = result[m][job] /\ (Checked(m, job)' <=> Checked(m, job))
  <2> SUFFICES ASSUME NEW job \in Jobs, result'[m][job] \in Busy \cup {"success", "skipped"}
               PROVE  result'[m][job] = result[m][job] /\ (Checked(m, job)' <=> Checked(m, job))
    OBVIOUS
  <2>1. result'[m][job] = result[m][job] /\ result[m][job] # "waiting"
    BY <1>1 DEF Busy
  <2>2. \A need \in Needs(job) : result'[m][need] = result[m][need]
    BY <1>1, <2>1, NeedsAreJobs DEF RunInv, NeedsInv, Ended
  <2> QED BY <2>1, <2>2, NeedsAreJobs DEF Checked, ImageIf, StagingIf, ProductionIf
<1>6. CondInv(m)'
  BY <1>5 DEF RunInv, CondInv
<1>7. MilestoneInv(m)' /\ DoneInv(m)'
  BY <1>1 DEF RunInv, MilestoneInv, DoneInv, Jobs
<1> QED BY <1>3, <1>4, <1>6, <1>7 DEF RunInv

\* What a run that asks for its group does to itself and to the others.
LEMMA EnterOnly ==
  ASSUME TypeOK, NEW n \in Runs, NEW fresh \in [Jobs -> Statuses], Enter(n, fresh)
  PROVE  /\ phase' \in [Runs -> {"new", "pending", "active", "ended"}]
         /\ result' \in [Runs -> [Jobs -> Statuses]]
         /\ result'[n] = fresh
         /\ phase'[n] = IF InGroup(n, "active") = {} THEN "active" ELSE "pending"
         /\ \A m \in Runs \ {n} :
              \/ /\ phase'[m] = phase[m] /\ result'[m] = result[m]
                 /\ phase'[n] = "pending" /\ phase[m] = "pending" => ~SameGroup(m, n)
              \/ /\ phase[m] = "pending" /\ phase'[m] = "ended" /\ SameGroup(m, n)
                 /\ phase'[n] = "pending"
                 /\ result'[m] = [job \in Jobs |-> IF result[m][job] = "waiting" THEN "cancelled"
                                                   ELSE result[m][job]]
<1>1. CASE InGroup(n, "active") = {}
  <2>1. phase' = [phase EXCEPT ![n] = "active"] /\ result' = [result EXCEPT ![n] = fresh]
    BY <1>1 DEF Enter
  <2>2. phase \in [Runs -> {"new", "pending", "active", "ended"}] /\ result \in [Runs -> [Jobs -> Statuses]]
    BY DEF TypeOK, Statuses
  <2> QED BY <1>1, <2>1, <2>2
<1>2. CASE InGroup(n, "active") # {}
  <2> DEFINE replaced == InGroup(n, "pending")
  <2>1. /\ phase' = [m \in Runs |->
               IF m = n THEN "pending" ELSE IF m \in replaced THEN "ended" ELSE phase[m]]
        /\ result' = [m \in Runs |->
               IF m = n THEN fresh
               ELSE IF m \in replaced
               THEN [job \in Jobs |-> IF result[m][job] = "waiting" THEN "cancelled"
                                      ELSE result[m][job]]
               ELSE result[m]]
    BY <1>2 DEF Enter
  <2>2. \A m \in Runs : m \in replaced <=> m # n /\ SameGroup(m, n) /\ phase[m] = "pending"
    BY DEF InGroup
  <2> HIDE DEF replaced
  <2>3. phase' \in [Runs -> {"new", "pending", "active", "ended"}]
    BY <2>1 DEF TypeOK
  <2>4. result' \in [Runs -> [Jobs -> Statuses]]
    BY <2>1 DEF TypeOK, Statuses, Ended
  <2>5. result'[n] = fresh /\ phase'[n] = "pending"
    BY <2>1
  <2>6. ASSUME NEW m \in Runs \ {n}
        PROVE  \/ /\ phase'[m] = phase[m] /\ result'[m] = result[m]
                  /\ phase[m] = "pending" => ~SameGroup(m, n)
               \/ /\ phase[m] = "pending" /\ phase'[m] = "ended" /\ SameGroup(m, n)
                  /\ result'[m] = [job \in Jobs |-> IF result[m][job] = "waiting" THEN "cancelled"
                                                    ELSE result[m][job]]
    BY <2>1, <2>2
  <2> QED BY <1>2, <2>3, <2>4, <2>5, <2>6
<1> QED BY <1>1, <1>2

\* A run that is triggered or run again starts from its kept results.
Fresh(n) ==
    IF phase[n] = "new" THEN result[n]
    ELSE [job \in Jobs |-> IF job \in Repeated(n) THEN "waiting" ELSE result[n][job]]

LEMMA EntersFresh ==
  ASSUME TypeOK, NEW n \in Runs, Trigger(n) \/ Rerun(n)
  PROVE  /\ Enter(n, Fresh(n)) /\ Fresh(n) \in [Jobs -> Statuses]
         /\ phase[n] \in {"new", "ended"}
         /\ UNCHANGED <<request, troubles, registry, deployed, done, told>>
         /\ again' = IF phase[n] = "new" THEN again ELSE again \cup {n}
         /\ cancelled' = IF phase[n] = "new" THEN cancelled ELSE cancelled \ {n}
  BY DEF Trigger, Rerun, Fresh, TypeOK, Statuses

LEMMA EnterRuns ==
  ASSUME TypeOK, RunsInv, NEW n \in Runs, Trigger(n) \/ Rerun(n)
  PROVE  RunsInv'
<1>1. ASSUME NEW m \in Runs, m # n PROVE RunInv(m)'
  <2>1. RunInv(m) /\ UNCHANGED request /\ done'[m] = done[m]
    BY EntersFresh DEF RunsInv
  <2>2. CASE phase'[m] = phase[m] /\ result'[m] = result[m]
    <3>1. /\ m \in cancelled' => m \in cancelled
          /\ m \in again' <=> m \in again
      BY <1>1, EntersFresh
    <3> QED BY <2>1, <2>2, <3>1, RunKept DEF RunInv, PhaseInv
  <2>3. CASE ~(phase'[m] = phase[m] /\ result'[m] = result[m])
    BY <1>1, <2>1, <2>3, EntersFresh, EnterOnly, ReplacedRun
  <2> QED BY <2>2, <2>3
<1>2. RunInv(n) /\ UNCHANGED <<request, done>> /\ result'[n] = Fresh(n)
      /\ phase'[n] \in {"active", "pending"}
  BY EntersFresh, EnterOnly DEF RunsInv
<1>3. ASSUME phase[n] = "new" PROVE RunInv(n)'
  <2>1. result'[n] = result[n] /\ \A job \in Jobs : result[n][job] = "waiting"
    BY <1>2, <1>3 DEF Fresh, RunInv, PhaseInv
  <2>2. n \notin cancelled' /\ n \notin again' /\ done[n] = {}
    BY <1>2, <1>3, EntersFresh DEF RunInv, PhaseInv
  <2>3. NeedsInv(n)' /\ PhaseInv(n)' /\ CancelInv(n)' /\ CondInv(n)'
    BY <1>2, <2>1, <2>2 DEF NeedsInv, PhaseInv, CancelInv, CondInv, Busy, Ended
  <2>4. MilestoneInv(n)' /\ DoneInv(n)'
    BY <1>2, <2>1, <2>2 DEF MilestoneInv, DoneInv, Jobs
  <2> QED BY <2>3, <2>4 DEF RunInv
<1>4. ASSUME phase[n] = "ended" PROVE RunInv(n)'
  <2>1. \A job \in Jobs :
            /\ job \in Repeated(n) => result'[n][job] = "waiting"
            /\ job \notin Repeated(n) =>
                  result'[n][job] = result[n][job] /\ result[n][job] \in Ended
    BY <1>2, <1>4 DEF Fresh, RunInv, PhaseInv
  <2>2. n \notin cancelled' /\ n \in again'
    BY <1>4, EntersFresh
  <2>3. \A job \in Jobs : result'[n][job] # "waiting" =>
            /\ result'[n][job] = result[n][job] /\ result[n][job] \in Ended
            /\ \A need \in Needs(job) :
                  result'[n][need] = result[n][need] /\ result[n][need] \in Ended
    BY <2>1, RepeatedClosed, NeedsAreJobs
  <2>4. NeedsInv(n)' /\ PhaseInv(n)' /\ CancelInv(n)'
    BY <1>2, <2>2, <2>3 DEF NeedsInv, PhaseInv, CancelInv, Busy, Ended
  <2>5. \A job \in Jobs : result'[n][job] # "waiting" =>
            (Checked(n, job)' <=> Checked(n, job))
    BY <1>2, <2>3, NeedsAreJobs DEF Checked, ImageIf, StagingIf, ProductionIf
  <2>6. CondInv(n)'
    <3> SUFFICES ASSUME NEW job \in Jobs
                 PROVE  /\ result'[n][job] \in Busy \cup {"success"} => Checked(n, job)'
                        /\ result'[n][job] = "skipped" =>
                              ~Checked(n, job)' \/ (job = "test" /\ request'[n].skipTests)
      BY DEF CondInv
    <3>1. CASE result'[n][job] = "waiting"
      BY <3>1 DEF Busy
    <3>2. CASE result'[n][job] # "waiting"
      BY <1>2, <2>3, <2>5, <3>2 DEF RunInv, CondInv
    <3> QED BY <3>1, <3>2
  <2>7. MilestoneInv(n)' /\ DoneInv(n)'
    BY <1>2, <2>3 DEF RunInv, MilestoneInv, DoneInv, Jobs
  <2> QED BY <2>4, <2>6, <2>7 DEF RunInv
<1>5. RunInv(n)'
  BY <1>3, <1>4, EntersFresh
<1> QED BY <1>1, <1>5 DEF RunsInv

LEMMA CompleteRuns ==
  ASSUME TypeOK, RunsInv, NEW n \in Runs, Complete(n)
  PROVE  RunsInv'
<1>1. UNCHANGED <<request, result, cancelled, again, done>>
  BY DEF Complete
<1>2. ASSUME NEW m \in Runs, m # n PROVE RunInv(m)'
  <2>1. phase'[m] = phase[m] \/ (phase[m] = "pending" /\ phase'[m] = "active")
    BY <1>2 DEF Complete, InGroup, TypeOK
  <2> QED BY <1>1, <2>1, RunKept DEF RunsInv, RunInv, PhaseInv
<1>3. phase'[n] = "ended" /\ \A job \in Jobs : result[n][job] \in Ended
  BY DEF Complete, TypeOK
<1>4. PhaseInv(n)'
  BY <1>1, <1>3 DEF PhaseInv, Ended, Busy
<1>5. RunInv(n)'
  BY <1>1, <1>4
  DEF RunsInv, RunInv, NeedsInv, CancelInv, CondInv, Checked, ImageIf, StagingIf, ProductionIf,
      MilestoneInv, DoneInv
<1> QED BY <1>2, <1>5 DEF RunsInv

LEMMA NextRuns ==
  ASSUME TypeOK, RunsInv, [Next]_vars
  PROVE  RunsInv'
<1>1. CASE UNCHANGED vars
  BY <1>1 DEF vars, RunsInv, RunInv, NeedsInv, PhaseInv, CancelInv, CondInv, Checked, ImageIf,
              StagingIf, ProductionIf, MilestoneInv, DoneInv
<1>2. ASSUME NEW n \in Runs, Trigger(n) \/ Progress(n) \/ Fails(n) \/ Rerun(n)
      PROVE  RunsInv'
  BY <1>2, EnterRuns, FailsRuns, StartRuns, MilestonesReached, CompleteRuns DEF Progress
<1> QED BY <1>1, <1>2 DEF Next

--------------------------------------------------------------------------------
(* Types                                                                       *)

LEMMA TagTypes ==
  ASSUME TypeOK, NEW n \in Runs
  PROVE  /\ RequestedTag(n) \in Tags /\ PushedTag(n) \in Tags
         /\ request[n].override # "sha" => PushedTag(n) = RequestedTag(n)
         /\ PushedTag(n) \in {[form |-> "short", of |-> n], [form |-> "name", of |-> 0]}
         /\ request[n].override # "name" => PushedTag(n) = [form |-> "short", of |-> n]
         /\ request[n].override = "name" => PushedTag(n) = [form |-> "name", of |-> 0]
         /\ request[n].branch \in {"main", "feature"}
<1>1. /\ [form |-> "short", of |-> n] \in Tags /\ [form |-> "full", of |-> n] \in Tags
      /\ [form |-> "name", of |-> 0] \in Tags
  BY DEF Tags
<1>2. /\ request[n].override \in {"", "name", "sha"}
      /\ request[n].branch \in {"main", "feature"}
  <2>1. request[n] \in Requests
    BY DEF TypeOK
  <2>2. request[n] \in AllRequests
    BY <2>1, ActionsAssumption
  <2> QED BY <2>2 DEF AllRequests, Overrides
<1>3. /\ [form |-> "short", of |-> n] # [form |-> "full", of |-> n]
      /\ [form |-> "name", of |-> 0] # [form |-> "full", of |-> n]
  <2>1. [form |-> "short", of |-> n].form = "short" /\ [form |-> "full", of |-> n].form = "full"
        /\ [form |-> "name", of |-> 0].form = "name"
    OBVIOUS
  <2> QED BY <2>1
<1>4. CASE request[n].override = "name"
  BY <1>1, <1>2, <1>3, <1>4 DEF RequestedTag, PushedTag
<1>5. CASE request[n].override = "sha"
  BY <1>1, <1>2, <1>3, <1>5 DEF RequestedTag, PushedTag
<1>6. CASE request[n].override = ""
  BY <1>1, <1>2, <1>3, <1>6 DEF RequestedTag, PushedTag
<1> QED BY <1>2, <1>4, <1>5, <1>6

\* The tags a deployment may be given, and the one that is pushed for it.
GivenTags == [form : {"short", "full"}, of : Runs] \cup {NameTag}

\* Of these tags the image job pushes one.
LEMMA ImagePushes ==
  ASSUME TypeOK, NEW n \in Runs, Push(n)
  PROVE  /\ registry' \in [Tags -> 0 .. MaxRuns]
         /\ registry'[PushedTag(n)] = n
         /\ \A tag \in GivenTags : tag # PushedTag(n) => registry'[tag] = registry[tag]
<1>1. /\ PushedTag(n) \in Tags /\ PushedTag(n) \in PushedTags(n) /\ n \in 0 .. MaxRuns
  BY TagTypes, ActionsAssumption DEF PushedTags, Runs
<1>2. registry' = [tag \in Tags |-> IF tag \in PushedTags(n) THEN n ELSE registry[tag]]
  BY DEF Push
<1>3. registry' \in [Tags -> 0 .. MaxRuns]
  BY <1>1, <1>2 DEF TypeOK
<1>4. registry'[PushedTag(n)] = n
  BY <1>1, <1>2
<1>5. ASSUME NEW tag \in GivenTags, tag # PushedTag(n)
      PROVE  registry'[tag] = registry[tag]
  <2>1. tag \in Tags
    BY DEF GivenTags, NameTag, Tags
  <2>2. tag # [form |-> request[n].branch, of |-> 0]
    <3>1. tag.form \in {"short", "full", "name"}
      BY DEF GivenTags, NameTag
    <3>2. [form |-> request[n].branch, of |-> 0].form \in {"main", "feature"}
      BY TagTypes
    <3> QED BY <3>1, <3>2
  <2>3. tag \notin PushedTags(n)
    BY <1>5, <2>2 DEF PushedTags
  <2> QED BY <1>2, <2>1, <2>3
<1> QED BY <1>3, <1>4, <1>5

LEMMA InitSafety ==
  ASSUME Init
  PROVE  SafetyInv
<1>1. TypeOK
  BY ActionsAssumption DEF Init, TypeOK, Tags, NoTag, Environments
<1>2. RunsInv
  BY DEF Init, RunsInv, RunInv, NeedsInv, PhaseInv, CancelInv, CondInv, MilestoneInv, DoneInv,
         Busy, Ended, Jobs
<1>3. RegistryInv
  BY DEF Init, RegistryInv, Tags, NameTag, Runs
<1>4. DeployInv /\ SuccessMeansShipped
  BY DEF Init, DeployInv, SuccessMeansShipped, Runs
<1> QED BY <1>1, <1>2, <1>3, <1>4 DEF SafetyInv

LEMMA UpgradeType ==
  ASSUME TypeOK, NEW n \in Runs, NEW env \in Environments, Upgrade(n, env)
  PROVE  /\ deployed' \in [Environments -> [tag : Tags \cup {NoTag}, by : 0 .. MaxRuns]]
         /\ deployed'[env] = [tag |-> RequestedTag(n), by |-> n]
         /\ \A other \in Environments \ {env} : deployed'[other] = deployed[other]
<1>1. RequestedTag(n) \in Tags /\ n \in 0 .. MaxRuns
  BY TagTypes, ActionsAssumption DEF Runs
<1> QED BY <1>1 DEF TypeOK, Upgrade

LEMMA DeployJobs == \A env \in Environments : DeployJob(env) \in Jobs
  BY DEF DeployJob, Jobs, Environments

LEMMA NextType ==
  ASSUME TypeOK, [Next]_vars
  PROVE  TypeOK'
<1> DEFINE ResultType == result' \in [Runs -> [Jobs -> {"waiting"} \cup Busy \cup Ended]]
           DoneType == done' \in [Runs -> SUBSET {"built", "tested", "pushed", "staged",
                                                  "approved", "promoted"}]
           TroublesType == troubles' \in 0 .. MaxTroubles
<1>1. CASE UNCHANGED vars
  BY <1>1 DEF vars, TypeOK
<1>2. ASSUME NEW n \in Runs, NEW job \in Jobs, NEW status \in Statuses, Becomes(n, job, status)
      PROVE  ResultType
  BY <1>2, BecomesOnly DEF Statuses
<1>3. ASSUME NEW n \in Runs,
             NEW milestone \in {"built", "tested", "pushed", "staged", "approved", "promoted"},
             Reaches(n, milestone)
      PROVE  DoneType
  BY <1>3 DEF TypeOK, Reaches
<1>4. ASSUME Trouble PROVE TroublesType
  BY <1>4, ActionsAssumption DEF TypeOK, Trouble
<1>5. ASSUME NEW n \in Runs, Trigger(n) \/ Rerun(n) PROVE TypeOK'
  <2>1. phase' \in [Runs -> {"new", "pending", "active", "ended"}] /\ ResultType
    BY <1>5, EntersFresh, EnterOnly DEF Statuses
  <2> QED BY <1>5, <2>1, EntersFresh, SMTT(30) DEF TypeOK
<1>6. ASSUME NEW n \in Runs, NEW job \in Jobs, Start(n, job) \/ Skip(n, job) PROVE TypeOK'
  <2>1. \E status \in Statuses : Becomes(n, job, status)
    BY <1>6 DEF Start, Skip, Statuses, Busy, Ended
  <2> QED BY <1>2, <1>6, <2>1 DEF TypeOK, Start, Skip
<1>7. ASSUME NEW n \in Runs, Review(n) PROVE TypeOK'
  <2>1. ResultType
    BY <1>2, <1>7 DEF Review, Statuses, Busy, Ended, Jobs
  <2>2. DoneType /\ TroublesType
    BY <1>3, <1>4, <1>7 DEF Review, TypeOK
  <2> QED BY <1>7, <2>1, <2>2 DEF TypeOK, Review
<1>8. ASSUME NEW n \in Runs, Build(n) \/ Test(n) \/ Image(n) PROVE TypeOK'
  <2>1. ResultType
    BY <1>2, <1>8 DEF Build, Test, Image, Statuses, Ended, Jobs
  <2>2. DoneType
    BY <1>3, <1>8 DEF Build, Test, Image, TypeOK
  <2>3. registry' \in [Tags -> 0 .. MaxRuns]
    <3>1. CASE Build(n) \/ Test(n)
      BY <3>1 DEF Build, Test, TypeOK
    <3>2. CASE Image(n)
      BY <3>2, ImagePushes DEF Image
    <3> QED BY <1>8, <3>1, <3>2
  <2> QED BY <1>8, <2>1, <2>2, <2>3 DEF TypeOK, Build, Test, Image
<1>9. ASSUME NEW n \in Runs, Notify(n) PROVE TypeOK'
  <2>1. ResultType
    BY <1>2, <1>9 DEF Notify, Statuses, Ended, Jobs
  <2>2. told' \in [Runs -> {"nothing", "success", "failure", "cancelled"}]
    BY <1>9 DEF Notify, Status, TypeOK
  <2> QED BY <1>9, <2>1, <2>2 DEF TypeOK, Notify
<1>10. ASSUME NEW n \in Runs, Complete(n) PROVE TypeOK'
  BY <1>10 DEF Complete, TypeOK
<1>11. ASSUME NEW n \in Runs, NEW env \in Environments, Deploy(n, env) \/ DeployFails(n, env)
       PROVE  TypeOK'
  <2>1. ResultType
    BY <1>2, <1>11, DeployJobs DEF Deploy, DeployFails, Statuses, Ended
  <2>2. DoneType /\ TroublesType
    BY <1>3, <1>4, <1>11 DEF Deploy, DeployFails, TypeOK
  <2>3. deployed' \in [Environments -> [tag : Tags \cup {NoTag}, by : 0 .. MaxRuns]]
    BY <1>11, UpgradeType DEF Deploy, DeployFails
  <2> QED BY <1>11, <2>1, <2>2, <2>3 DEF TypeOK, Deploy, DeployFails
<1>12. ASSUME NEW n \in Runs, NEW job \in Jobs, JobFails(n, job) PROVE TypeOK'
  <2>1. ResultType /\ TroublesType
    BY <1>2, <1>4, <1>12 DEF JobFails, Statuses, Ended
  <2>2. registry' \in [Tags -> 0 .. MaxRuns]
    BY <1>12, ImagePushes DEF JobFails, TypeOK
  <2> QED BY <1>12, <2>1, <2>2 DEF TypeOK, JobFails
<1>13. ASSUME NEW n \in Runs, Cancel(n) PROVE TypeOK'
  <2>1. ResultType /\ TroublesType
    BY <1>2, <1>4, <1>13 DEF Cancel, Statuses, Ended, TypeOK
  <2>2. deployed' \in [Environments -> [tag : Tags \cup {NoTag}, by : 0 .. MaxRuns]]
    BY <1>13, UpgradeType DEF Cancel, TypeOK
  <2>3. registry' \in [Tags -> 0 .. MaxRuns]
    BY <1>13, ImagePushes DEF Cancel, TypeOK
  <2> QED BY <1>13, <2>1, <2>2, <2>3 DEF TypeOK, Cancel
<1> QED BY <1>1, <1>5, <1>6, <1>7, <1>8, <1>9, <1>10, <1>11, <1>12, <1>13 DEF Next, Progress, Fails

--------------------------------------------------------------------------------
(* The registry, the environments and the notifications                        *)

\* A helm upgrade, however its job goes on.
Upgrades(n, env) ==
    /\ result[n][DeployJob(env)] = "running"
    /\ Upgrade(n, env)
    /\ UNCHANGED <<phase, request, again, registry>>

\* A push, however its job goes on.
Pushes(n) == result[n]["image"] \in Busy /\ Push(n)

\* What the steps do to what the runs share.
LEMMA StepEffects ==
  ASSUME TypeOK, [Next]_vars
  PROVE  /\ UNCHANGED request
         /\ \A n \in Runs :
              /\ done[n] \subseteq done'[n]
              /\ "pushed" \in done'[n] /\ "pushed" \notin done[n] => Image(n)
         /\ UNCHANGED registry \/ \E n \in Runs : Pushes(n)
         /\ UNCHANGED deployed \/ \E n \in Runs, env \in Environments : Upgrades(n, env)
         /\ UNCHANGED told \/ \E n \in Runs : Notify(n)
<1>1. CASE UNCHANGED vars
  BY <1>1 DEF vars
<1>2. ASSUME NEW n \in Runs, Trigger(n) \/ Rerun(n) \/ Complete(n)
      PROVE  UNCHANGED <<request, done, registry, deployed, told>>
  BY <1>2 DEF Trigger, Rerun, Complete
<1>3. ASSUME NEW n \in Runs, NEW job \in Jobs, Start(n, job) \/ Skip(n, job) \/ JobFails(n, job)
      PROVE  /\ UNCHANGED <<request, done, deployed, told>>
             /\ UNCHANGED registry \/ Pushes(n)
  BY <1>3 DEF Start, Skip, JobFails, Pushes, Busy
<1>4. ASSUME NEW n \in Runs, Review(n) \/ Build(n) \/ Test(n)
      PROVE  /\ UNCHANGED <<request, registry, deployed, told>>
             /\ UNCHANGED done \/ \E milestone \in {"built", "tested", "approved"} :
                                     Reaches(n, milestone)
  BY <1>4 DEF Review, Build, Test
<1>5. ASSUME NEW n \in Runs, Image(n)
      PROVE  UNCHANGED <<request, deployed, told>> /\ Reaches(n, "pushed") /\ Pushes(n)
  BY <1>5 DEF Image, Pushes, Busy
<1>6. ASSUME NEW n \in Runs, NEW env \in Environments, Deploy(n, env)
      PROVE  /\ UNCHANGED <<request, registry, told>> /\ Upgrades(n, env)
             /\ \E milestone \in {"staged", "promoted"} : Reaches(n, milestone)
  BY <1>6 DEF Deploy, Upgrades
<1>7. ASSUME NEW n \in Runs, NEW env \in Environments, DeployFails(n, env)
      PROVE  UNCHANGED <<request, done, registry, told>> /\ Upgrades(n, env)
  BY <1>7 DEF DeployFails, Upgrades
<1>8. ASSUME NEW n \in Runs, Notify(n)
      PROVE  UNCHANGED <<request, done, registry, deployed>>
  BY <1>8 DEF Notify
<1>9. ASSUME NEW n \in Runs, Cancel(n)
      PROVE  /\ UNCHANGED <<request, done, told>>
             /\ UNCHANGED registry \/ Pushes(n)
             /\ UNCHANGED deployed \/ \E env \in Environments : Upgrades(n, env)
  BY <1>9 DEF Cancel, Upgrades, Pushes
<1>10. ASSUME NEW n \in Runs, NEW milestone, Reaches(n, milestone)
       PROVE  \A m \in Runs : /\ done[m] \subseteq done'[m]
                              /\ done'[m] \subseteq done[m] \cup (IF m = n THEN {milestone} ELSE {})
  BY <1>10, ReachesOnly
<1>11. UNCHANGED request
  BY <1>1, <1>2, <1>3, <1>4, <1>5, <1>6, <1>7, <1>8, <1>9 DEF Next, Progress, Fails
<1>12. UNCHANGED registry \/ \E n \in Runs : Pushes(n)
  BY <1>1, <1>2, <1>3, <1>4, <1>5, <1>6, <1>7, <1>8, <1>9 DEF Next, Progress, Fails
<1>13. UNCHANGED told \/ \E n \in Runs : Notify(n)
  BY <1>1, <1>2, <1>3, <1>4, <1>5, <1>6, <1>7, <1>9 DEF Next, Progress, Fails
<1>14. UNCHANGED deployed \/ \E n \in Runs, env \in Environments : Upgrades(n, env)
  BY <1>1, <1>2, <1>3, <1>4, <1>5, <1>6, <1>7, <1>8, <1>9 DEF Next, Progress, Fails
<1>15. \/ UNCHANGED done
       \/ \E n \in Runs : Image(n) /\ Reaches(n, "pushed")
       \/ \E n \in Runs : \E milestone \in {"built", "tested", "staged", "approved", "promoted"} :
              Reaches(n, milestone)
  <2> DEFINE Effect ==
          \/ UNCHANGED done
          \/ \E n \in Runs : Image(n) /\ Reaches(n, "pushed")
          \/ \E n \in Runs : \E milestone \in {"built", "tested", "staged", "approved", "promoted"} :
                 Reaches(n, milestone)
  <2>1. ASSUME NEW n \in Runs, Review(n) \/ Build(n) \/ Test(n) PROVE Effect
    BY <1>4, <2>1
  <2>2. ASSUME NEW n \in Runs, NEW env \in Environments, Deploy(n, env) PROVE Effect
    BY <1>6, <2>2
  <2>3. ASSUME NEW n \in Runs, Progress(n) PROVE Effect
    BY <1>2, <1>3, <1>5, <1>8, <2>1, <2>2, <2>3 DEF Progress
  <2>4. ASSUME NEW n \in Runs, Fails(n) PROVE Effect
    BY <1>3, <1>7, <1>9, <2>4 DEF Fails
  <2>5. ASSUME UNCHANGED done PROVE Effect
    BY <2>5
  <2>6. ASSUME NEW n \in Runs, Trigger(n) \/ Rerun(n) PROVE Effect
    BY <1>2, <2>5, <2>6
  <2> HIDE DEF Effect
  <2>7. ASSUME UNCHANGED vars PROVE Effect
    BY <2>5, <2>7 DEF vars
  <2>8. ASSUME Next PROVE Effect
    BY <2>3, <2>4, <2>6, <2>8 DEF Next
  <2>9. Effect
    BY <2>7, <2>8
  <2> QED BY <2>9 DEF Effect
<1>16. \A n \in Runs : /\ done[n] \subseteq done'[n]
                       /\ "pushed" \in done'[n] /\ "pushed" \notin done[n] => Image(n)
  BY <1>10, <1>15
<1> QED BY <1>11, <1>12, <1>13, <1>14, <1>16

LEMMA NextRegistry ==
  ASSUME TypeOK, RunsInv, RegistryInv, [Next]_vars
  PROVE  RegistryInv'
<1>1. /\ \A n \in Runs : PushedTag(n)' = PushedTag(n)
      /\ UNCHANGED request /\ \A n \in Runs : done[n] \subseteq done'[n]
  BY StepEffects DEF PushedTag, RequestedTag
<1>1a. /\ \A n \in Runs : Image(n) => registry'[PushedTag(n)] # 0
       /\ \A n \in Runs : "pushed" \in done'[n] => "pushed" \in done[n] \/ Image(n)
  BY StepEffects, ImagePushes DEF Image, Runs
<1>2. CASE UNCHANGED registry
  <2>1. \A n \in Runs : Tested(n) => Tested(n)'
    BY <1>1 DEF Tested
  <2> QED BY <1>1, <1>1a, <1>2, <2>1 DEF RegistryInv
<1>3. ASSUME NEW n \in Runs, Pushes(n) PROVE RegistryInv'
  <2>1. /\ registry'[PushedTag(n)] = n /\ n # 0
        /\ \A tag \in GivenTags : tag # PushedTag(n) => registry'[tag] = registry[tag]
    BY <1>3, ImagePushes DEF Pushes, Runs
  <2>2. \A m \in Runs : PushedTag(m) \in GivenTags
    BY TagTypes DEF GivenTags, NameTag
  <2>3. Tested(n)' /\ \A m \in Runs : Tested(m) => Tested(m)'
    BY <1>1, <1>3, Behind DEF Pushes, Tested, RunsInv
  <2>4. ASSUME NEW m \in Runs, "pushed" \in done'[m] PROVE registry'[PushedTag(m)'] # 0
    <3>1. PushedTag(m)' = PushedTag(m)
      BY <1>1
    <3>2. CASE PushedTag(m) = PushedTag(n)
      BY <2>1, <3>1, <3>2
    <3>3. CASE PushedTag(m) # PushedTag(n)
      <4>1. "pushed" \in done[m] => registry[PushedTag(m)] # 0
        BY DEF RegistryInv
      <4> QED BY <1>1a, <2>1, <2>2, <2>4, <3>1, <3>3, <4>1
    <3> QED BY <3>2, <3>3
  <2>5. ASSUME NEW m \in Runs
        PROVE  /\ registry'[[form |-> "short", of |-> m]] \in {0, m}
               /\ registry'[[form |-> "full", of |-> m]] = 0
    <3>1. [form |-> "short", of |-> m] \in GivenTags /\ [form |-> "full", of |-> m] \in GivenTags
      BY DEF GivenTags
    <3>2. /\ [form |-> "full", of |-> m] # PushedTag(n)
          /\ m # n => [form |-> "short", of |-> m] # PushedTag(n)
      <4>1. /\ [form |-> "full", of |-> m].form = "full" /\ [form |-> "short", of |-> m].of = m
            /\ [form |-> "short", of |-> n].form = "short" /\ [form |-> "short", of |-> n].of = n
            /\ [form |-> "name", of |-> 0].form = "name" /\ [form |-> "name", of |-> 0].of = 0
        OBVIOUS
      <4>2. m # 0
        BY DEF Runs
      <4> QED BY <4>1, <4>2, TagTypes
    <3> QED BY <2>1, <3>1, <3>2 DEF RegistryInv
  <2>6. ASSUME NEW m \in Runs, registry'[NameTag] = m
        PROVE  Tested(m)' /\ request'[m].override = "name"
    <3>1. NameTag \in GivenTags
      BY DEF GivenTags
    <3>2. CASE PushedTag(n) = NameTag
      <4>1. request[n].override = "name"
        <5>1. [form |-> "short", of |-> n].form = "short" /\ NameTag.form = "name"
          BY DEF NameTag
        <5> QED BY <3>2, <5>1, TagTypes
      <4> QED BY <1>1, <2>1, <2>3, <2>6, <3>2, <4>1
    <3>3. CASE PushedTag(n) # NameTag
      <4>1. registry[NameTag] = m
        BY <2>1, <2>6, <3>1, <3>3
      <4> QED BY <1>1, <2>3, <4>1 DEF RegistryInv
    <3> QED BY <3>2, <3>3
  <2> QED BY <2>4, <2>5, <2>6 DEF RegistryInv, NameTag
<1> QED BY <1>2, <1>3, StepEffects

LEMMA NextDeploy ==
  ASSUME TypeOK, RunsInv, DeployInv, [Next]_vars
  PROVE  DeployInv'
<1>1. \A n \in Runs : RequestedTag(n)' = RequestedTag(n)
  BY StepEffects DEF RequestedTag
<1>2. \A n \in Runs : \A env \in Environments : MayRunIn(env, n) => MayRunIn(env, n)'
  BY StepEffects DEF MayRunIn
<1>3. CASE UNCHANGED deployed
  BY <1>1, <1>2, <1>3 DEF DeployInv
<1>4. ASSUME NEW n \in Runs, NEW env \in Environments, Upgrades(n, env) PROVE DeployInv'
  <2>1. RunInv(n)
    BY DEF RunsInv
  <2>2. MayRunIn(env, n)
    <3>1. CASE env = "staging"
      BY <1>4, <2>1, <3>1, Behind DEF Upgrades, DeployJob, Busy, MayRunIn
    <3>2. CASE env = "production"
      BY <1>4, <2>1, <3>2, Behind DEF Upgrades, DeployJob, Busy, RunInv, MilestoneInv, DoneInv, MayRunIn
    <3> QED BY <3>1, <3>2 DEF Environments
  <2>3. /\ deployed'[env] = [tag |-> RequestedTag(n), by |-> n]
        /\ \A other \in Environments \ {env} : deployed'[other] = deployed[other]
    BY <1>4, UpgradeType DEF Upgrades
  <2>4. deployed'[env].tag = RequestedTag(n)' /\ deployed'[env].by = n /\ MayRunIn(env, n)'
    BY <1>1, <1>2, <2>2, <2>3
  <2>5. \A other \in Environments \ {env} : \A m \in Runs : deployed'[other].by = m =>
            deployed'[other].tag = RequestedTag(m)' /\ MayRunIn(other, m)'
    BY <1>1, <1>2, <2>3 DEF DeployInv
  <2> QED BY <2>4, <2>5 DEF DeployInv
<1> QED BY <1>3, <1>4, StepEffects

LEMMA NextShipped ==
  ASSUME TypeOK, RunsInv, SuccessMeansShipped, [Next]_vars
  PROVE  SuccessMeansShipped'
<1>1. UNCHANGED request /\ \A n \in Runs : done[n] \subseteq done'[n]
  BY StepEffects
<1>2. ASSUME NEW n \in Runs, told'[n] = told[n], told'[n] = "success"
      PROVE  /\ "pushed" \in done'[n]
             /\ request'[n].branch = "main" =>
                  /\ "staged" \in done'[n]
                  /\ request'[n].environment = "production" => "promoted" \in done'[n]
  BY <1>1, <1>2 DEF SuccessMeansShipped
<1>3. ASSUME NEW n \in Runs, Notify(n), Status(n) = "success"
      PROVE  /\ "pushed" \in done[n]
             /\ request[n].branch = "main" =>
                  /\ "staged" \in done[n]
                  /\ request[n].environment = "production" => "promoted" \in done[n]
  <2>1. "failure" \notin Results(n) /\ "cancelled" \notin Results(n)
    BY <1>3 DEF Status
  <2>2. \A job \in Jobs \ {"notify"} : result[n][job] \in Ended
    <3>1. result[n]["notify"] # "waiting" /\ Needs("notify") = Jobs \ {"notify"}
      BY <1>3 DEF Notify, Needs
    <3> QED BY <3>1 DEF RunsInv, RunInv, NeedsInv, Jobs
  <2>3. \A job \in Jobs \ {"notify"} : result[n][job] \in {"success", "skipped"}
    BY <2>1, <2>2 DEF Results, Ended
  <2>4. CondInv(n) /\ MilestoneInv(n)
    BY DEF RunsInv, RunInv
  <2>5. result[n]["build"] = "success"
    BY <2>3, <2>4 DEF CondInv, Checked, Jobs
  <2>6. result[n]["image"] = "success"
    BY <2>3, <2>4, <2>5 DEF CondInv, Checked, ImageIf, Jobs
  <2>7. request[n].branch = "main" => result[n]["deploy-staging"] = "success"
    BY <2>3, <2>4, <2>6 DEF CondInv, Checked, StagingIf, Jobs
  <2>8. request[n].branch = "main" /\ request[n].environment = "production" =>
            result[n]["deploy-production"] = "success"
    BY <2>3, <2>4, <2>7 DEF CondInv, Checked, ProductionIf, Jobs
  <2> QED BY <2>4, <2>6, <2>7, <2>8 DEF MilestoneInv
<1>4. ASSUME NEW n \in Runs, Notify(n) PROVE SuccessMeansShipped'
  <2>1. told'[n] = Status(n) /\ \A m \in Runs : m # n => told'[m] = told[m]
    BY <1>4 DEF Notify, TypeOK
  <2> QED BY <1>1, <1>2, <1>3, <1>4, <2>1 DEF SuccessMeansShipped
<1> QED BY <1>2, <1>4, StepEffects DEF SuccessMeansShipped

\* The inductive part about a single run holds of every run of orders-api-pipeline.yml: which
\* jobs may have started, with what result, and what each deployment was given.
THEOREM SafetyInvariant == Spec => []SafetyInv
<1>1. SafetyInv /\ [Next]_vars => SafetyInv'
  BY NextType, NextRuns, NextRegistry, NextDeploy, NextShipped DEF SafetyInv
<1> QED BY <1>1, InitSafety, PTL DEF Spec

\* Every variable keeps its type.
THEOREM TypeCorrect == Spec => []TypeOK
BY SafetyInvariant, PTL DEF SafetyInv

\* An environment was deployed to by a run of main with a pushed, tested image, production by
\* one that was staged and approved before: the always() conditions of
\* orders-api-pipeline.yml:62, 70 and 85 let no failed, cancelled or repeated job through.
\* Its tag, unless it is a full SHA, names that image, whatever other runs push, or, if
\* operators gave the same name to two runs, the tested image another of them pushed.
THEOREM TestedImagesOnly == Spec => []EnvironmentsRunTestedImages
<1>1. SafetyInv => EnvironmentsRunTestedImages
  <2> SUFFICES ASSUME SafetyInv, NEW env \in Environments, deployed[env].by # 0
               PROVE  LET n == deployed[env].by
                          image == registry[deployed[env].tag]
                      IN
                      /\ request[n].branch = "main" /\ "pushed" \in done[n] /\ Tested(n)
                      /\ env = "production" => {"staged", "approved"} \subseteq done[n]
                      /\ request[n].override # "sha" =>
                            \/ image = n
                            \/ /\ image # 0 /\ request[image].override = "name"
                               /\ request[n].override = "name" /\ Tested(image)
    BY DEF EnvironmentsRunTestedImages
  <2>0. TypeOK /\ RegistryInv /\ \A n \in Runs : DoneInv(n)
    BY DEF SafetyInv, RunsInv, RunInv
  <2>1. PICK n \in Runs : n = deployed[env].by
    BY <2>0, ActionsAssumption DEF TypeOK, Runs
  <2>2. deployed[env].tag = RequestedTag(n) /\ MayRunIn(env, n)
    BY <2>1 DEF SafetyInv, DeployInv
  <2>3. ASSUME request[n].override # "sha"
        PROVE  LET image == registry[RequestedTag(n)] IN
               \/ image = n
               \/ /\ image # 0 /\ request[image].override = "name" /\ request[n].override = "name"
                  /\ Tested(image)
    <3>1. RequestedTag(n) = PushedTag(n) /\ registry[PushedTag(n)] # 0
      BY <2>0, <2>2, <2>3, TagTypes DEF RegistryInv, MayRunIn
    <3>2. CASE request[n].override # "name"
      <4>1. RequestedTag(n) = [form |-> "short", of |-> n]
        BY <2>0, <3>1, <3>2, TagTypes
      <4>2. registry[RequestedTag(n)] \in {0, n} /\ registry[RequestedTag(n)] # 0
        BY <2>0, <3>1, <4>1 DEF RegistryInv
      <4> QED BY <4>2
    <3>3. CASE request[n].override = "name"
      <4>1. RequestedTag(n) = NameTag /\ NameTag \in Tags
        BY <2>0, <3>1, <3>3, TagTypes DEF NameTag
      <4>2. PICK m \in Runs : m = registry[NameTag]
        BY <2>0, <3>1, <4>1, ActionsAssumption DEF TypeOK, Runs
      <4>3. request[m].override = "name" /\ Tested(m)
        BY <2>0, <4>2 DEF RegistryInv, NameTag
      <4> QED BY <3>1, <3>3, <4>1, <4>2, <4>3
    <3> QED BY <3>2, <3>3
  <2>4. /\ request[n].branch = "main" /\ "pushed" \in done[n] /\ Tested(n)
        /\ env = "production" => {"staged", "approved"} \subseteq done[n]
    BY <2>0, <2>2 DEF MayRunIn, DoneInv, Tested
  <2> QED BY <2>1, <2>2, <2>3, <2>4
<1> QED BY <1>1, SafetyInvariant, PTL

\* A run that reports success has shipped what it was asked for: of the jobs the notify job
\* of orders-api-pipeline.yml:103-107 counts as harmless, the skipped ones, none was due.
THEOREM SuccessShipped == Spec => []SuccessMeansShipped
BY SafetyInvariant, PTL DEF SafetyInv

--------------------------------------------------------------------------------
(* The contract                                                                *)

LEMMA ReachContract ==
  ASSUME TypeOK, NEW n \in Runs, NEW milestone \in Contract!Milestones,
         Reaches(n, milestone), UNCHANGED request, Contract!MayReach(n, milestone)
  PROVE  [Contract!Next]_(Contract!vars)
<1>1. CASE milestone \in done[n]
  BY <1>1 DEF Reaches, TypeOK, Contract!vars
<1>2. CASE milestone \notin done[n]
  BY <1>2 DEF Reaches, Contract!Next, Contract!Reach
<1> QED BY <1>1, <1>2

LEMMA NextContract ==
  ASSUME SafetyInv, [Next]_vars
  PROVE  [Contract!Next]_(Contract!vars)
<1> USE DEF Busy, Contract!MayReach, Contract!Milestones
<1>0. TypeOK /\ \A n \in Runs : RunInv(n)
  BY DEF SafetyInv, RunsInv
<1>1. ASSUME UNCHANGED <<request, done>> PROVE [Contract!Next]_(Contract!vars)
  BY <1>1 DEF Contract!vars
<1>2. ASSUME NEW n \in Runs, Build(n) PROVE [Contract!Next]_(Contract!vars)
  BY <1>0, <1>2, ReachContract DEF Build
<1>3. ASSUME NEW n \in Runs, Test(n) PROVE [Contract!Next]_(Contract!vars)
  <2>1. Contract!MayReach(n, "tested")
    BY <1>0, <1>3 DEF Test, RunInv, CondInv, Checked, MilestoneInv, Jobs
  <2> QED BY <1>0, <1>1, <1>3, <2>1, ReachContract DEF Test
<1>4. ASSUME NEW n \in Runs, Image(n) PROVE [Contract!Next]_(Contract!vars)
  <2>1. Contract!MayReach(n, "pushed")
    BY <1>0, <1>4, Behind DEF Image
  <2> QED BY <1>0, <1>4, <2>1, ReachContract DEF Image
<1>5. ASSUME NEW n \in Runs, Review(n) PROVE [Contract!Next]_(Contract!vars)
  <2>1. Contract!MayReach(n, "approved")
    BY <1>0, <1>5, Behind DEF Review
  <2> QED BY <1>0, <1>1, <1>5, <2>1, ReachContract DEF Review
<1>6. ASSUME NEW n \in Runs, Deploy(n, "staging") PROVE [Contract!Next]_(Contract!vars)
  <2>1. Contract!MayReach(n, "staged")
    BY <1>0, <1>6, Behind DEF Deploy, DeployJob
  <2> QED BY <1>0, <1>6, <2>1, ReachContract DEF Deploy
<1>7. ASSUME NEW n \in Runs, Deploy(n, "production") PROVE [Contract!Next]_(Contract!vars)
  <2>1. Contract!MayReach(n, "promoted")
    BY <1>0, <1>7, Behind DEF Deploy, DeployJob, RunInv, MilestoneInv
  <2> QED BY <1>0, <1>7, <2>1, ReachContract DEF Deploy
<1>8. ASSUME NEW n \in Runs, Progress(n) PROVE [Contract!Next]_(Contract!vars)
  <2>1. \A env \in Environments : env = "staging" \/ env = "production"
    BY DEF Environments
  <2>2. ASSUME NEW job \in Jobs, Start(n, job) \/ Skip(n, job) PROVE [Contract!Next]_(Contract!vars)
    BY <1>1, <2>2 DEF Start, Skip
  <2>3. ASSUME Notify(n) \/ Complete(n) PROVE [Contract!Next]_(Contract!vars)
    BY <1>1, <2>3 DEF Notify, Complete
  <2> QED BY <1>2, <1>3, <1>4, <1>5, <1>6, <1>7, <1>8, <2>1, <2>2, <2>3 DEF Progress
<1>9. ASSUME NEW n \in Runs, Fails(n) \/ Trigger(n) \/ Rerun(n) PROVE [Contract!Next]_(Contract!vars)
  <2>1. UNCHANGED <<request, done>>
    BY <1>9 DEF Fails, JobFails, DeployFails, Cancel, Trigger, Rerun
  <2> QED BY <1>1, <2>1
<1>10. ASSUME UNCHANGED vars PROVE [Contract!Next]_(Contract!vars)
  BY <1>1, <1>10 DEF vars
<1> QED BY <1>8, <1>9, <1>10 DEF Next

\* The migrated pipeline keeps the order and both gates of the Jenkinsfile: it implements the
\* contract of a release, step by step.
THEOREM KeepsReleaseContract == Spec => ImplementsReleaseContract
<1>1. Init => Contract!Init
  BY DEF Init, Contract!Init
<1> QED BY <1>1, NextContract, SafetyInvariant, PTL DEF Spec, ImplementsReleaseContract, Contract!Spec

--------------------------------------------------------------------------------
(* The concurrency group of a branch                                           *)

\* What the steps do to the phases: a run asks for its group, or ends and hands it over, and
\* every other step leaves the phases and the re-runs alone.
LEMMA PhaseSteps ==
  ASSUME TypeOK, [Next]_vars
  PROVE  \/ UNCHANGED <<phase, again>>
         \/ \E n \in Runs :
              (Trigger(n) \/ Rerun(n) \/ Complete(n)) /\ UNCHANGED <<registry, deployed, done>>
<1>1. CASE UNCHANGED vars
  BY <1>1 DEF vars
<1>2. ASSUME NEW n \in Runs, Trigger(n) \/ Rerun(n) \/ Complete(n)
      PROVE  UNCHANGED <<registry, deployed, done>>
  BY <1>2 DEF Trigger, Rerun, Complete
<1>3. ASSUME NEW n \in Runs,
             \/ Review(n) \/ Build(n) \/ Test(n) \/ Image(n) \/ Notify(n) \/ Fails(n)
             \/ \E job \in Jobs : Start(n, job) \/ Skip(n, job)
             \/ \E env \in Environments : Deploy(n, env)
      PROVE  UNCHANGED <<phase, again>>
  BY <1>3 DEF Review, Build, Test, Image, Notify, Fails, JobFails, DeployFails, Cancel, Start,
              Skip, Deploy
<1>4. CASE Next
  BY <1>2, <1>3, <1>4 DEF Next, Progress
<1> QED BY <1>1, <1>4

LEMMA GroupIsEquivalence ==
  /\ \A n \in Runs : SameGroup(n, n)
  /\ \A m, n \in Runs : SameGroup(m, n) => SameGroup(n, m)
  /\ \A k, m, n \in Runs : SameGroup(k, m) /\ SameGroup(m, n) => SameGroup(k, n)
  /\ UNCHANGED request => \A m, n \in Runs : SameGroup(m, n)' <=> SameGroup(m, n)
  BY DEF SameGroup

\* What happens to the phases when a run asks for its group.
LEMMA EnterPhases ==
  ASSUME TypeOK, NEW n \in Runs, Trigger(n) \/ Rerun(n)
  PROVE  /\ phase[n] \in {"new", "ended"}
         /\ \/ /\ phase'[n] = "active"
               /\ \A m \in Runs : m # n /\ SameGroup(m, n) => phase[m] # "active"
            \/ /\ phase'[n] = "pending"
               /\ \E m \in Runs : m # n /\ SameGroup(m, n) /\ phase[m] = "active"
         /\ \A m \in Runs : m # n =>
              \/ /\ phase'[m] = phase[m]
                 /\ phase'[n] = "pending" /\ phase[m] = "pending" => ~SameGroup(m, n)
              \/ phase[m] = "pending" /\ phase'[m] = "ended"
<1>1. Enter(n, Fresh(n)) /\ Fresh(n) \in [Jobs -> Statuses] /\ phase[n] \in {"new", "ended"}
  BY EntersFresh
<1>2. InGroup(n, "active") = {} <=>
          \A m \in Runs : m # n /\ SameGroup(m, n) => phase[m] # "active"
  BY DEF InGroup
<1>3. phase'[n] = IF InGroup(n, "active") = {} THEN "active" ELSE "pending"
  BY <1>1, EnterOnly
<1>4. \A m \in Runs \ {n} :
          \/ /\ phase'[m] = phase[m]
             /\ phase'[n] = "pending" /\ phase[m] = "pending" => ~SameGroup(m, n)
          \/ phase[m] = "pending" /\ phase'[m] = "ended"
  BY <1>1, EnterOnly
<1> QED BY <1>1, <1>2, <1>3, <1>4

\* What happens to the phases when a run ends.
LEMMA CompletePhases ==
  ASSUME TypeOK, NEW n \in Runs, Complete(n)
  PROVE  /\ phase[n] = "active" /\ phase'[n] = "ended" /\ UNCHANGED <<result, again>>
         /\ \A m \in Runs : m # n =>
              IF phase[m] = "pending" /\ SameGroup(m, n)
              THEN phase'[m] = "active" ELSE phase'[m] = phase[m]
  BY DEF Complete, InGroup, TypeOK

LEMMA NextGroup ==
  ASSUME TypeOK, GroupInv, PendingInv, [Next]_vars
  PROVE  GroupInv' /\ PendingInv'
<1>1. \A m, n \in Runs : SameGroup(m, n)' <=> SameGroup(m, n)
  BY StepEffects, GroupIsEquivalence
<1>2. CASE UNCHANGED <<phase, again>>
  BY <1>1, <1>2 DEF GroupInv, PendingInv
<1>3. ASSUME NEW n \in Runs, Trigger(n) \/ Rerun(n) PROVE GroupInv' /\ PendingInv'
  <2>1. GroupInv'
    <3> SUFFICES ASSUME NEW l \in Runs, NEW m \in Runs, SameGroup(l, m),
                        \/ phase'[l] = "active" /\ phase'[m] = "active"
                        \/ phase'[l] = "pending" /\ phase'[m] = "pending"
                 PROVE  l = m
      BY <1>1 DEF GroupInv
    <3>1. CASE l # n /\ m # n
      BY <1>3, <3>1, EnterPhases DEF GroupInv
    <3>2. CASE l = n \/ m = n
      BY <1>3, <3>2, EnterPhases, GroupIsEquivalence
    <3> QED BY <3>1, <3>2
  <2>2. PendingInv'
    <3> SUFFICES ASSUME NEW l \in Runs, phase'[l] = "pending"
                 PROVE  \E m \in Runs : SameGroup(m, l) /\ phase'[m] = "active"
      BY <1>1 DEF PendingInv
    <3>1. PICK m \in Runs : SameGroup(m, l) /\ phase[m] = "active"
      BY <1>3, EnterPhases DEF PendingInv
    <3>2. m # n /\ phase'[m] = "active"
      BY <1>3, <3>1, EnterPhases
    <3> QED BY <3>1, <3>2
  <2> QED BY <2>1, <2>2
<1>4. ASSUME NEW n \in Runs, Complete(n) PROVE GroupInv' /\ PendingInv'
  <2>1. GroupInv'
    <3> SUFFICES ASSUME NEW l \in Runs, NEW m \in Runs, SameGroup(l, m),
                        \/ phase'[l] = "active" /\ phase'[m] = "active"
                        \/ phase'[l] = "pending" /\ phase'[m] = "pending"
                 PROVE  l = m
      BY <1>1 DEF GroupInv
    <3>1. l # n /\ m # n
      BY <1>4, CompletePhases
    <3>2. SameGroup(l, n) <=> SameGroup(m, n)
      BY GroupIsEquivalence
    <3>3. CASE SameGroup(l, n)
      BY <1>4, <3>1, <3>2, <3>3, CompletePhases DEF GroupInv
    <3>4. CASE ~SameGroup(l, n)
      BY <1>4, <3>1, <3>2, <3>4, CompletePhases DEF GroupInv
    <3> QED BY <3>3, <3>4
  <2>2. PendingInv'
    <3> SUFFICES ASSUME NEW l \in Runs, phase'[l] = "pending"
                 PROVE  \E m \in Runs : SameGroup(m, l) /\ phase'[m] = "active"
      BY <1>1 DEF PendingInv
    <3>1. l # n /\ phase[l] = "pending" /\ ~SameGroup(l, n)
      BY <1>4, CompletePhases
    <3>2. PICK m \in Runs : SameGroup(m, l) /\ phase[m] = "active"
      BY <3>1 DEF PendingInv
    <3>3. m # n /\ phase'[m] = "active"
      BY <1>4, <3>1, <3>2, CompletePhases, GroupIsEquivalence
    <3> QED BY <3>2, <3>3
  <2> QED BY <2>1, <2>2
<1> QED BY <1>2, <1>3, <1>4, PhaseSteps

--------------------------------------------------------------------------------
(* The order of the deployments                                                *)

\* A run that was not triggered yet is in no environment.
LEMMA NewIsNowhere ==
  ASSUME RunsInv, DeployInv, NEW m \in Runs, phase[m] = "new"
  PROVE  \A env \in Environments : deployed[env].by # m
  BY DEF RunsInv, RunInv, PhaseInv, DeployInv, MayRunIn

\* A run upgrades an environment while it is active and its branch is main.
LEMMA UpgradeBy ==
  ASSUME RunsInv, NEW n \in Runs, NEW env \in Environments, Upgrades(n, env)
  PROVE  phase[n] = "active" /\ request[n].branch = "main"
<1>1. RunInv(n) /\ result[n][DeployJob(env)] \in Busy
  BY DEF RunsInv, Upgrades, Busy
<1>2. phase[n] = "active"
  BY <1>1, BusyNeeds, DeployJobs
<1>3. CASE env = "staging"
  BY <1>1, <1>2, <1>3, Behind DEF DeployJob
<1>4. CASE env = "production"
  BY <1>1, <1>2, <1>4, Behind DEF DeployJob, RunInv, DoneInv
<1> QED BY <1>3, <1>4 DEF Environments

\* What is said of two runs of which the one triggered first is n.
OrderOf(m, n) ==
    /\ phase[m] # "new" => phase[n] # "new"
    /\ SameGroup(m, n) /\ n \notin again =>
          /\ phase[n] = "pending" => phase[m] = "new"
          /\ phase[n] = "active" => \A env \in Environments : deployed[env].by # m

LEMMA NextOrder ==
  ASSUME SafetyInv, GroupInv, PendingInv, OrderInv, [Next]_vars
  PROVE  OrderInv'
<1> SUFFICES ASSUME NEW m \in Runs, NEW n \in Runs, n < m
             PROVE  OrderOf(m, n)'
  BY DEF OrderInv, OrderOf
<1>1. OrderOf(m, n) /\ TypeOK /\ RunsInv /\ DeployInv
  BY DEF OrderInv, OrderOf, SafetyInv
<1>2. SameGroup(m, n)' <=> SameGroup(m, n)
  BY <1>1, StepEffects, GroupIsEquivalence
<1>3. m # n
  BY DEF Runs
<1>4. CASE UNCHANGED <<phase, again>>
  <2>1. CASE UNCHANGED deployed
    BY <1>1, <1>2, <1>4, <2>1 DEF OrderOf
  <2>2. ASSUME NEW k \in Runs, NEW env \in Environments, Upgrades(k, env),
               SameGroup(m, n), phase[n] = "active", n \notin again, NEW any \in Environments
        PROVE  deployed'[any].by # m
    <3>1. k # m
      BY <1>1, <1>3, <2>2, UpgradeBy DEF GroupInv
    <3>2. deployed'[any] = deployed[any] \/ deployed'[any].by = k
      <4>1. /\ deployed'[env] = [tag |-> RequestedTag(k), by |-> k]
            /\ \A other \in Environments \ {env} : deployed'[other] = deployed[other]
        BY <1>1, <2>2, UpgradeType DEF Upgrades
      <4> QED BY <4>1
    <3> QED BY <1>1, <2>2, <3>1, <3>2 DEF OrderOf
  <2> QED BY <1>1, <1>2, <1>4, <2>1, <2>2, StepEffects DEF OrderOf
<1>5. ASSUME NEW k \in Runs, Trigger(k) \/ Rerun(k), UNCHANGED deployed
      PROVE  OrderOf(m, n)'
  <2>1. again' = IF phase[k] = "new" THEN again ELSE again \cup {k}
    BY <1>1, <1>5, EntersFresh
  <2>2. CASE k # m /\ k # n
    BY <1>1, <1>2, <1>5, <2>1, <2>2, EnterPhases DEF OrderOf
  <2>3. CASE k = n
    <3>1. phase'[n] # "new" /\ phase'[m] \in {phase[m], "ended"}
          /\ (phase[m] = "new" => phase'[m] = "new")
      BY <1>1, <1>3, <1>5, <2>3, EnterPhases
    <3>2. CASE phase[n] = "new"
      <4>1. phase[m] = "new"
        BY <1>1, <3>2 DEF OrderOf
      <4> QED BY <1>1, <1>5, <3>1, <4>1, NewIsNowhere DEF OrderOf
    <3>3. CASE phase[n] # "new"
      BY <2>1, <2>3, <3>1, <3>3 DEF OrderOf
    <3> QED BY <3>2, <3>3
  <2>4. CASE k = m
    <3>1. phase[m] \in {"new", "ended"} /\ phase'[m] # "new"
      BY <1>1, <1>5, <2>4, EnterPhases
    <3>2. phase'[n] # "new"
      <4>1. CASE Trigger(k)
        <5>1. n \in 1 .. k - 1
          BY <2>4 DEF Runs
        <5>2. phase[n] # "new"
          BY <4>1, <5>1 DEF Trigger
        <5> QED BY <1>1, <1>3, <1>5, <2>4, <5>2, EnterPhases
      <4>2. CASE Rerun(k)
        <5>1. phase[n] # "new"
          BY <1>1, <2>4, <4>2 DEF Rerun, OrderOf
        <5> QED BY <1>1, <1>3, <1>5, <2>4, <5>1, EnterPhases
      <4> QED BY <1>5, <4>1, <4>2
    <3>3. phase'[n] \in {"pending", "active"} => phase'[n] = phase[n]
      BY <1>1, <1>3, <1>5, <2>4, EnterPhases
    <3>4. SameGroup(m, n) /\ phase'[n] = "pending" => FALSE
      <4> SUFFICES ASSUME SameGroup(m, n), phase'[n] = "pending" PROVE FALSE
        OBVIOUS
      <4>1. PICK l \in Runs : SameGroup(l, n) /\ phase[l] = "active"
        BY <3>3 DEF PendingInv
      <4>2. l # m /\ SameGroup(l, m)
        BY <3>1, <4>1, GroupIsEquivalence
      <4>3. phase'[m] = "pending" /\ SameGroup(n, m)
        BY <1>1, <1>5, <2>4, <4>1, <4>2, EnterPhases, GroupIsEquivalence
      <4> QED BY <1>1, <1>3, <1>5, <2>4, <3>3, <4>3, EnterPhases
    <3>5. n \in again' <=> n \in again
      BY <1>3, <2>1, <2>4
    <3> QED BY <1>1, <1>2, <1>5, <3>2, <3>3, <3>4, <3>5 DEF OrderOf
  <2> QED BY <2>2, <2>3, <2>4
<1>6. ASSUME NEW k \in Runs, Complete(k), UNCHANGED deployed PROVE OrderOf(m, n)'
  <2>1. UNCHANGED again
    BY <1>1, <1>6, CompletePhases
  <2>2. /\ phase'[m] = "new" <=> phase[m] = "new"
        /\ phase'[n] = "new" <=> phase[n] = "new"
        /\ phase'[n] = "pending" => phase[n] = "pending"
        /\ phase'[n] = "active" => phase[n] \in {"pending", "active"}
    BY <1>1, <1>6, CompletePhases
  <2> QED BY <1>1, <1>2, <1>6, <2>1, <2>2, NewIsNowhere DEF OrderOf
<1> QED BY <1>1, <1>4, <1>5, <1>6, PhaseSteps

--------------------------------------------------------------------------------
(* What staging runs while a release is promoted                               *)

\* A job of an active run that is not run again only succeeds in its own step.
LEMMA SuccessSteps ==
  ASSUME TypeOK, RunsInv, [Next]_vars, NEW n \in Runs, n \notin again', phase'[n] = "active"
  PROVE  /\ result'[n]["image"] = "success" =>
              Image(n) \/ (phase[n] = "active" /\ result[n]["image"] = "success")
         /\ result'[n]["deploy-staging"] = "success" =>
              \/ Deploy(n, "staging")
              \/ phase[n] = "active" /\ result[n]["deploy-staging"] = "success"
<1> DEFINE Shipping == {"image", "deploy-staging"}
           Kept == /\ phase[n] = "active"
                   /\ \A job \in Shipping : result'[n][job] = "success" =>
                                               result[n][job] = "success"
           Unstarted == \A job \in Shipping : result'[n][job] # "success"
<1>0. /\ Shipping \subseteq Jobs
      /\ phase[n] \in {"new", "pending"} => \A job \in Jobs : n \in again \/ result[n][job] = "waiting"
  BY DEF Jobs, RunsInv, RunInv, PhaseInv
<1>1. CASE UNCHANGED vars
  BY <1>1 DEF vars
<1>2. ASSUME NEW m \in Runs, NEW job \in Jobs, NEW status \in Statuses, Becomes(m, job, status),
             UNCHANGED phase,
             m # n \/ job \notin Shipping \/ status # "success"
      PROVE  Kept
  BY <1>0, <1>2, BecomesOnly
<1>3. ASSUME NEW m \in Runs, Trigger(m) \/ Rerun(m) PROVE Kept \/ Unstarted
  <2>1. CASE m = n
    <3>1. phase[n] = "new" /\ Enter(n, Fresh(n)) /\ Fresh(n) \in [Jobs -> Statuses]
      BY <1>3, <2>1, EntersFresh
    <3>2. result'[n] = result[n] /\ n \notin again
      BY <3>1, <2>1, <1>3, EnterOnly, EntersFresh DEF Fresh
    <3> QED BY <1>0, <3>1, <3>2
  <2>2. CASE m # n
    <3>1. Enter(m, Fresh(m)) /\ Fresh(m) \in [Jobs -> Statuses]
      BY <1>3, EntersFresh
    <3>2. phase'[n] = phase[n] /\ result'[n] = result[n]
      BY <2>2, <3>1, EnterOnly
    <3> QED BY <3>2
  <2> QED BY <2>1, <2>2
<1>4. ASSUME NEW m \in Runs, Complete(m) PROVE Kept \/ Unstarted
  BY <1>0, <1>4, CompletePhases
<1>5. ASSUME NEW m \in Runs, NEW job \in Jobs, Start(m, job) \/ Skip(m, job) \/ JobFails(m, job)
      PROVE  Kept
  <2>1. \E status \in Statuses \ {"success"} : Becomes(m, job, status)
    BY <1>5 DEF Start, Skip, JobFails, Statuses, Busy, Ended
  <2> QED BY <1>2, <1>5, <2>1 DEF Start, Skip, JobFails
<1>6. ASSUME NEW m \in Runs, Review(m) \/ Build(m) \/ Test(m) \/ Notify(m) PROVE Kept
  <2>1. /\ \E job \in Jobs \ Shipping : \E status \in Statuses : Becomes(m, job, status)
        /\ UNCHANGED phase
    BY <1>6 DEF Review, Build, Test, Notify, Jobs, Statuses, Busy, Ended
  <2> QED BY <1>2, <2>1
<1>7. ASSUME NEW m \in Runs, Image(m), m # n PROVE Kept
  BY <1>0, <1>2, <1>7 DEF Image, Statuses, Ended
<1>8. ASSUME NEW m \in Runs, NEW env \in Environments, Deploy(m, env), m # n \/ env # "staging"
      PROVE  Kept
  <2>1. Becomes(m, DeployJob(env), "success") /\ UNCHANGED phase /\ "success" \in Statuses
    BY <1>8 DEF Deploy, Statuses, Ended
  <2>2. env # "staging" => DeployJob(env) \notin Shipping
    BY DEF DeployJob
  <2> QED BY <1>2, <1>8, <2>1, <2>2, DeployJobs
<1>9. ASSUME NEW m \in Runs, NEW env \in Environments, DeployFails(m, env) PROVE Kept
  BY <1>2, <1>9, DeployJobs DEF DeployFails, Statuses, Ended
<1>10. ASSUME NEW m \in Runs, Cancel(m) PROVE Kept
  <2>1. UNCHANGED <<phase, result>> \/ \E job \in Jobs : Becomes(m, job, "cancelled")
    BY <1>10 DEF Cancel
  <2>2. UNCHANGED phase /\ "cancelled" \in Statuses
    BY <1>10 DEF Cancel, Statuses, Ended
  <2> QED BY <1>2, <2>1, <2>2
<1>11. ASSUME Deploy(n, "staging")
       PROVE  UNCHANGED phase /\ result'[n]["image"] = result[n]["image"]
  BY <1>0, <1>11, BecomesOnly DEF Deploy, DeployJob, Statuses, Ended
<1>12. ASSUME Image(n)
       PROVE  UNCHANGED phase /\ result'[n]["deploy-staging"] = result[n]["deploy-staging"]
  BY <1>0, <1>12, BecomesOnly DEF Image, Statuses, Ended
<1>13. CASE Next
  <2> HIDE DEF Kept, Unstarted
  <2>1. ASSUME NEW m \in Runs, Progress(m)
        PROVE  Kept \/ Unstarted \/ Image(n) \/ Deploy(n, "staging")
    <3>1. ASSUME NEW env \in Environments, Deploy(m, env) PROVE Kept \/ Deploy(n, "staging")
      BY <1>8, <3>1
    <3> QED BY <1>4, <1>5, <1>6, <1>7, <2>1, <3>1 DEF Progress
  <2>2. ASSUME NEW m \in Runs, Trigger(m) \/ Fails(m) \/ Rerun(m) PROVE Kept \/ Unstarted
    BY <1>3, <1>5, <1>9, <1>10, <2>2 DEF Fails
  <2>3. Kept \/ Unstarted \/ Image(n) \/ Deploy(n, "staging")
    BY <1>13, <2>1, <2>2 DEF Next
  <2> QED BY <1>11, <1>12, <2>3 DEF Kept, Unstarted
<1> QED BY <1>1, <1>13

\* What a release has pushed and staged is in place.
InPlace(n) ==
    /\ result[n]["image"] = "success" =>
          LET pushedLast == registry[PushedTag(n)] IN
          \/ pushedLast = n
          \/ /\ request[n].override = "name" /\ pushedLast # 0
             /\ request[pushedLast].branch # "main"
    /\ result[n]["deploy-staging"] = "success" =>
          /\ request[n].override # "sha"
          /\ deployed["staging"] = [tag |-> RequestedTag(n), by |-> n]

LEMMA NextPromotion ==
  ASSUME SafetyInv, GroupInv, PromotionInv, [Next]_vars
  PROVE  PromotionInv'
<1> SUFFICES ASSUME NEW n \in Runs, n \notin again', phase'[n] = "active",
                    request[n].branch = "main"
             PROVE  InPlace(n)'
  BY StepEffects DEF SafetyInv, PromotionInv, InPlace
<1>1. TypeOK /\ RunsInv /\ RegistryInv
  BY DEF SafetyInv
<1>2. /\ UNCHANGED request
      /\ PushedTag(n)' = PushedTag(n) /\ RequestedTag(n)' = RequestedTag(n)
      /\ PushedTag(n) \in Tags /\ RequestedTag(n) \in Tags
  BY <1>1, StepEffects, TagTypes DEF PushedTag, RequestedTag
<1>3. n \notin again
  BY <1>1, EntersFresh, PhaseSteps, CompletePhases
<1>4. phase[n] = "active" => InPlace(n)
  BY <1>3 DEF PromotionInv, InPlace
<1>5. ASSUME result'[n]["image"] = "success"
      PROVE  LET pushedLast == registry'[PushedTag(n)] IN
             \/ pushedLast = n
             \/ /\ request[n].override = "name" /\ pushedLast # 0
                /\ request[pushedLast].branch # "main"
  <2>1. Image(n) \/ (phase[n] = "active" /\ result[n]["image"] = "success")
    BY <1>1, <1>5, SuccessSteps
  <2>2. CASE Image(n) \/ Pushes(n)
    BY <1>1, <1>2, <2>2, ImagePushes DEF Image, Pushes
  <2>3. CASE UNCHANGED registry /\ ~Image(n)
    BY <1>4, <2>1, <2>3 DEF InPlace
  <2>4. ASSUME NEW m \in Runs, m # n, Pushes(m), ~Image(n)
        PROVE  LET pushedLast == registry'[PushedTag(n)] IN
               \/ pushedLast = n
               \/ /\ request[n].override = "name" /\ pushedLast # 0
                  /\ request[pushedLast].branch # "main"
    <3>1. phase[n] = "active" /\ result[n]["image"] = "success"
      BY <2>1, <2>4
    <3>2. /\ registry'[PushedTag(m)] = m /\ PushedTag(n) \in GivenTags
          /\ \A tag \in GivenTags : tag # PushedTag(m) => registry'[tag] = registry[tag]
      BY <1>1, <2>4, ImagePushes, TagTypes DEF GivenTags, NameTag, Pushes
    <3>3. CASE PushedTag(m) # PushedTag(n)
      <4>1. registry'[PushedTag(n)] = registry[PushedTag(n)]
        BY <1>1, <1>2, <3>2, <3>3 DEF TypeOK
      <4> QED BY <1>4, <3>1, <4>1 DEF InPlace
    <3>4. CASE PushedTag(m) = PushedTag(n)
      <4>1. registry'[PushedTag(n)] = m /\ m # 0
        BY <1>1, <3>2, <3>4 DEF TypeOK, Runs
      <4>2. request[n].override = "name"
        <5>1. /\ [form |-> "short", of |-> n].of = n /\ [form |-> "short", of |-> m].of = m
              /\ [form |-> "name", of |-> 0].of = 0 /\ n # 0
          BY DEF Runs
        <5> QED BY <1>1, <2>4, <3>4, <5>1, TagTypes
      <4>3. phase[m] = "active"
        BY <1>1, <2>4, BusyNeeds DEF Pushes, Jobs, RunsInv
      <4>4. request[m].branch # "main"
        BY <2>4, <3>1, <4>3 DEF GroupInv, SameGroup
      <4> QED BY <4>1, <4>2, <4>4
    <3> QED BY <3>3, <3>4
  <2> QED BY <1>1, <2>2, <2>3, <2>4, StepEffects
<1>6. ASSUME result'[n]["deploy-staging"] = "success"
      PROVE  /\ request[n].override # "sha"
             /\ deployed'["staging"] = [tag |-> RequestedTag(n), by |-> n]
  <2>0. "staging" \in Environments
    BY DEF Environments
  <2>1. \/ Deploy(n, "staging")
        \/ phase[n] = "active" /\ result[n]["deploy-staging"] = "success"
    BY <1>1, <1>6, SuccessSteps
  <2>2. CASE Deploy(n, "staging")
    <3>1. deployed'["staging"] = [tag |-> RequestedTag(n), by |-> n] /\ registry[RequestedTag(n)] # 0
      BY <1>1, <2>0, <2>2, UpgradeType DEF Deploy
    <3>2. request[n].override = "sha" => RequestedTag(n) = [form |-> "full", of |-> n]
      BY DEF RequestedTag
    <3> QED BY <1>1, <3>1, <3>2 DEF RegistryInv
  <2>3. CASE ~Deploy(n, "staging")
    <3>1. /\ phase[n] = "active" /\ result[n]["deploy-staging"] = "success"
          /\ request[n].override # "sha"
          /\ deployed["staging"] = [tag |-> RequestedTag(n), by |-> n]
      BY <1>4, <2>1, <2>3 DEF InPlace
    <3>2. ASSUME NEW m \in Runs, NEW env \in Environments, Upgrades(m, env)
          PROVE  env # "staging" /\ deployed'["staging"] = deployed["staging"]
      <4>1. phase[m] = "active" /\ request[m].branch = "main"
        BY <1>1, <3>2, UpgradeBy
      <4>2. m = n
        BY <3>1, <4>1 DEF GroupInv, SameGroup
      <4>3. env # "staging"
        BY <3>1, <3>2, <4>2 DEF Upgrades, DeployJob
      <4>4. Upgrade(m, env)
        BY <3>2 DEF Upgrades
      <4>5. \A other \in Environments \ {env} : deployed'[other] = deployed[other]
        BY <1>1, <4>4, UpgradeType
      <4> QED BY <2>0, <4>3, <4>5
    <3> QED BY <1>1, <3>1, <3>2, StepEffects
  <2> QED BY <2>2, <2>3
<1> QED BY <1>2, <1>5, <1>6 DEF InPlace

--------------------------------------------------------------------------------
LEMMA InitOrder ==
  ASSUME Init
  PROVE  GroupInv /\ PendingInv /\ OrderInv /\ PromotionInv
BY DEF Init, GroupInv, PendingInv, OrderInv, PromotionInv

\* The whole inductive invariant, with what the concurrency group of
\* orders-api-pipeline.yml:33-35 keeps of several runs: at most one of a branch at work, at
\* most one waiting, and the order in which they reach an environment.
THEOREM InductiveInvariant == Spec => []IInv
<1>1. Init => IInv
  BY InitSafety, InitOrder DEF IInv
<1>2. IInv /\ [Next]_vars => IInv'
  <2> SUFFICES ASSUME IInv, [Next]_vars PROVE IInv'
    OBVIOUS
  <2>1. SafetyInv'
    BY NextType, NextRuns, NextRegistry, NextDeploy, NextShipped DEF SafetyInv, IInv
  <2>2. GroupInv' /\ PendingInv'
    BY NextGroup DEF IInv, SafetyInv
  <2> QED BY <2>1, <2>2, NextOrder, NextPromotion DEF IInv
<1> QED BY <1>1, <1>2, PTL DEF Spec

\* Nobody takes staging, or the tag, from a release while it waits for its reviewer or is
\* promoted: the concurrency group of orders-api-pipeline.yml:33-35 keeps the other runs on
\* main away, however many there are and whatever fails, is cancelled or is run again.
THEOREM PromotedIsStaged == Spec => []StagedIsWhatIsPromoted
<1>1. IInv => StagedIsWhatIsPromoted
  <2> SUFFICES ASSUME IInv, NEW n \in Runs \ again, result[n]["deploy-production"] \in Busy
               PROVE  /\ deployed["staging"] = [tag |-> RequestedTag(n), by |-> n]
                      /\ LET pushedLast == registry[RequestedTag(n)]
                         IN \/ pushedLast = n
                            \/ request[n].override = "name" /\ pushedLast # 0
                               /\ request[pushedLast].branch # "main"
    BY DEF StagedIsWhatIsPromoted
  <2>1. TypeOK /\ RunInv(n)
    BY DEF IInv, SafetyInv, RunsInv
  <2>2. phase[n] = "active" /\ result[n]["deploy-staging"] = "success"
    BY <2>1, BusyNeeds, Behind DEF Jobs
  <2>3. result[n]["image"] = "success" /\ request[n].branch = "main"
    BY <2>1, <2>2 DEF RunInv, CondInv, Checked, StagingIf, Jobs
  <2>4. InPlace(n)
    BY <2>2, <2>3 DEF IInv, PromotionInv, InPlace
  <2>5. PushedTag(n) = RequestedTag(n)
    BY <2>1, <2>2, <2>4, TagTypes DEF InPlace
  <2> QED BY <2>2, <2>3, <2>4, <2>5 DEF InPlace
<1> QED BY <1>1, InductiveInvariant, PTL

\* An environment goes back to an older run only when that run is run again: the queues of
\* reusable-deploy.yml:8 order the helm upgrades of all the others, failed ones included.
THEOREM DeploysInOrder == Spec => DeployedInOrder
<1>1. IInv /\ [Next]_vars =>
          [\A env \in Environments :
              LET before == deployed[env].by
                  after == deployed'[env].by
              IN after < before => after \in again]_vars
  <2> SUFFICES ASSUME IInv, [Next]_vars, NEW env \in Environments,
                      deployed'[env].by < deployed[env].by
               PROVE  deployed'[env].by \in again
    OBVIOUS
  <2>1. TypeOK /\ RunsInv /\ DeployInv
    BY DEF IInv, SafetyInv
  <2>2. deployed[env].by \in 0 .. MaxRuns
    BY <2>1 DEF TypeOK
  <2>3. PICK n \in Runs, other \in Environments : Upgrades(n, other)
    BY <2>1, <2>2, StepEffects, ActionsAssumption
  <2>4. /\ deployed'[other] = [tag |-> RequestedTag(n), by |-> n]
        /\ \A third \in Environments \ {other} : deployed'[third] = deployed[third]
    BY <2>1, <2>3, UpgradeType DEF Upgrades
  <2>5. env = other
    BY <2>2, <2>4, ActionsAssumption
  <2>6. deployed'[env].by = n
    BY <2>4, <2>5
  <2>7. PICK m \in Runs : m = deployed[env].by
    BY <2>2, <2>6, ActionsAssumption DEF Runs
  <2>8. n < m /\ SameGroup(m, n) /\ phase[n] = "active"
    BY <2>1, <2>3, <2>6, <2>7, UpgradeBy DEF SameGroup, DeployInv, MayRunIn
  <2>9. n \in again
    BY <2>7, <2>8 DEF IInv, OrderInv
  <2> QED BY <2>6, <2>9
<1> QED BY <1>1, InductiveInvariant, PTL DEF Spec, DeployedInOrder
================================================================================
