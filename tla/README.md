# Verification of the Jenkins → GitHub Actions migration platform

TLA+ models, model-checking runs and machine-checked proofs for the code in this
repository. Paths such as `controller/...` are relative to the repository root
(`src/` in `PROJECT.json`).

1. [The system](#1-the-system)
2. [Modules and how they correspond to the code](#2-modules-and-how-they-correspond-to-the-code)
3. [Runs](#3-runs)
4. [Fairness](#4-fairness)
5. [What is proved](#5-what-is-proved)
6. [Where the code and its documents disagree](#6-where-the-code-and-its-documents-disagree)
7. [What is assumed of the platforms](#7-what-is-assumed-of-the-platforms)
8. [What is not modelled](#8-what-is-not-modelled)
9. [Plan](#9-plan)

## 1. The system

| Part | Where | State it keeps | Operations | Interacts with |
|---|---|---|---|---|
| workflow-notifier: reconciler | `controller/internal/controller/workflow_controller.go`, `api/v1alpha1/types.go` | none of its own: the annotation `notified-phase` on the Workflow, the informer cache and the work queue of controller-runtime | `Reconcile` (Get, decide, `Notify`, Patch), `PhaseChanged`, `eventFor`, `SetupWithManager` | API server (watch, get, patch), webhook through `notify.Notifier`, Argo (which writes the objects) |
| workflow-notifier: webhook | `controller/internal/notify/notify.go` | one call: attempt counter, last error | `Notify`, `post`, `Sign` | HTTP receiver |
| workflow-notifier: process | `controller/cmd/controller/main.go`, `config/manager/deployment.yaml` | the leader-election lease, two pods | start, elect, serve, stop | API server |
| GitHub Actions pipeline | `.github/workflows/orders-api-pipeline.yml`, `reusable-*.yml`, `.github/actions/*` | job results, registry tags, deployed tags, concurrency groups | build, test, image, deploy-staging, deploy-production, notify | registry, cluster, reviewers, Slack |
| Argo DAG | `workflows/argo/build-test-deploy.yaml` | node phases of one Workflow | clone … deploy-production, suspend/resume | cluster; its phase is what the notifier watches |
| Tekton pipeline | `legacy/tekton/` | TaskRun results of one PipelineRun | clone … deploy-production, finally notify | cluster, Slack |
| Jenkins pipeline | `legacy/jenkins/Jenkinsfile`, `vars/` | stage results, lock, milestone | Checkout … Deploy production, post | registry, cluster, Slack |
| migration-analyzer | `tools/migration-analyzer/` | none (a pure function of a Jenkinsfile) | `strip_comments`, `scan`, `analyze`, `render`, exit code | files |
| hack scripts | `hack/*.py` | a directory of JSON schemas; a cache of downloaded schemas shared by the runs | CRD schema conversion, composition and skeleton rendering, catalog validation | files, upstream repositories, kubeconform |
| ArtifactStore | `infra/crossplane`, `infra/terraform` | the XR with its status, seven composed objects, what each made of the cloud | composition by patches, reconcile, providers; Terraform plan as the other way to the same resources | Crossplane, provider-aws |
| Backstage template | `backstage/` | none | scaffolds a service | files |
| repository CI, docs | `.github/workflows/ci.yml`, `docs/` | – | lint and validate | – |

### What is hard, and what makes each part correct

**workflow-notifier.** Three parties write and read one object at different
times: Argo moves the workflow through its phases, may retry or delete it and
see its name submitted again; the informer shows the controller an older version
of it; the controller posts and then records. Read, POST and PATCH are separate
steps, the process can die or lose its lease between any two, a POST can be
accepted although the client saw an error, and a PATCH names the object but not
the uid or the version it was meant for. It is correct when

- what the webhook hears happened (`NothingInvented`);
- nothing is recorded before it was delivered (`RecordedAfterDelivery`);
- no completion is lost between predicate, queue, backoff and first list
  (`QuietMeansDelivered`, `QuietMeansRecorded`, `EventuallyDelivered`);
- restarts, resyncs and its own patches do not start it again
  (`SettledIsFinal`, `RecordedIsNotResent`, `EventuallyQuiet`).

**Webhook delivery.** Several ways out of one loop, a receiver that may have
accepted what the client gave up on, and settings at 0 and below. Correct when
nil means accepted, a permanent error means refused, giving up means that every allowed
attempt was made, and the call always returns.

**Pipelines.** The same release process is written four times. The
conditions that keep an untested image out of production are spread over jobs
(`if: always() && …`, `depends`, `when`, `runAfter`, `post`), and only follow
from each other along the whole chain; helm is not rolled back when a
deploy fails; runs overlap, are cancelled, replaced in their concurrency group,
timed out and retried; and an override lets two runs push their images under one tag.
Correct when what an environment runs was built, tested,
pushed, staged (and approved) in that order, the tag it was given names a tested image
whoever pushed it last, older runs do not replace newer
ones, a reported success shipped what was asked for, and every run ends and reports.

**migration-analyzer.** Sequential. Its pitfalls are the interplay of three
regular expressions that strip comments, line numbers that must survive the
stripping, two tables (report sections, exit severity) that must agree, and lists
(secrets, stages, plugins) that are taken from the whole text, where a match may run over a
line end, while findings are taken from single lines: a secret may be on one and not on the
other.

**ArtifactStore.** Ordered patches on the base of each of seven resources,
each of which is skipped without a word when a source is missing and overwrites what
an earlier one wrote; a reconcile that applies them one by one while parameters
are edited, the process is restarted and two providers work at their own pace. Correct
when bucket and policy agree at every moment, nobody is trusted whom no version of
the parameters named, ready means whole, and the cloud comes to hold what Terraform
would plan but for the settings the two are known to differ in.

**hack scripts.** One-shot, but verdicts depend on them. `crd-schemas.py` makes
schemas stricter than the CRDs, recursively and except where that would be wrong;
correct when a manifest the API server would admit passes, and one that passes would be admitted
wherever the converter overlooks nothing.
`validate-backstage.py` downloads six files from a branch that moves, through a cache
that outlives the run; correct when green means valid and a tag pins the schemas.

`PROJECT.json` lists the hazards one by one, each with its line and with the
properties that would catch it going wrong.

## 2. Modules and how they correspond to the code

```
CompletionNotification <-- refined by -- WorkflowNotifier <-- MCWorkflowNotifier
                                              ^     \
                                              |      uses the contract of
                        WorkflowNotifierProofs        NotifierContract <-- refined by -- WebhookDelivery <-- MCWebhookDelivery
                                 ^                                                             ^
                        NotifierRecordProofs                                         WebhookDeliveryProofs

ReleaseContract <-- refined by -- ActionsPipeline   <-- MCActionsPipeline, ActionsPipelineProofs
                <-- refined by -- PlatformPipelines <-- MCPlatformPipelines, PlatformPipelinesProofs

CompositionRender <-- ArtifactStore <-- MCArtifactStore, ArtifactStoreProofs

CrdSchemas, BackstageSchemas <-- HackScripts <-- MCHackScripts, HackScriptsProofs

MigrationAnalyzer <-- MigrationAnalyzerProofs
```

A module whose name ends in `Proofs` holds the theorems about the one it extends
(section 5).

Operators whose comment says "mutated form" are what the sensitivity checks in
`PROJECT.json` put in the place of the definition that follows them: a plausible
bug, which the named property must catch. They are not part of any specification.

### WebhookDelivery — one call of `Webhook.Notify`

| Model | Code |
|---|---|
| `maxRetries`, `Retries` | `MaxRetries` and the default at `notify.go:61-64` |
| `urlParses` | whether `http.NewRequestWithContext` can make a request for the URL (`notify.go:92-95`); `main.go:50` only asks that there is one |
| `attempt`, `Attempt(a)` | the loop variable and bound (`notify.go:71`) |
| `pc = "backoff"`, `BackoffElapsed`, `ContextDone` | the `select` between attempts (`notify.go:72-78`) |
| `Post`, `network`, `reply` | the request is made and `client.Do` sends it; without a URL that parses, or with a context already done, the attempt fails, counts, and nothing is sent. A request outlives the call that sent it |
| `Answered`, `Permanent`, `NetworkError` | the classification of the answer in `post` and the three returns of the loop |
| `Process`, `Lose`, `Cancel` | receiver, network, shutdown (external); `accepted` and `refused` are what the receiver did |

`Allowed`, the attempts a setting stands for, is written from the comment of the field
(`notify.go:41`) and not from `Retries`, so that the property does not count as the code does.

The body of the request, its signature and the length of the backoff are left
out: no property depends on them.

### NotifierContract, CompletionNotification, ReleaseContract — the promises

`NotifierContract` is what `Reconcile` may assume of `notify.Notifier`: nil only
after an acceptance, an error with or without one, always a return. It has
fairness, so `ImplementsContract` covers the return too. `WorkflowNotifier` uses
`Notify` in exactly this form (`NotifySucceeds`, `NotifyFails`, and `inFlight`
for what may still arrive afterwards).

`CompletionNotification` has no caches, queues or processes: completions occur,
occurred completions are delivered, a phase is recorded only when a completion of
that name with that phase was delivered. The refinement mapping takes `occurred`
from the log, and `recorded` from the current version of each name.

`ReleaseContract` is the order of the release milestones with two gates (branch
`main`, approval). The gates of a run are a parameter, because the platforms
differ: GitHub Actions and Jenkins have both, Argo the approval, Tekton none.

### WorkflowNotifier — reconciler, informer, queue, leader election, Argo

| Model | Code |
|---|---|
| `log[n]` | API server: every version of the workflow named `n`, oldest first; a deletion is the version `Absent`. An object is reduced to uid, phase and annotation |
| `cache[r][n]` | informer cache of replica `r`: a position in `log[n]`; reading the cache is reading that version |
| `buffer[r][n]` | notifications between the informer and the event handler |
| `queue`, `delayed` | the work queue (a set: keys are deduplicated) and names in backoff |
| `pc`, `job` | the one worker, the key it holds and the version `Get` returned |
| `holder`, `leading` | the lease, and the replicas that believe they hold it |
| `inFlight` | requests `Notify` gave up on |
| `Get`, `GetFails` | `workflow_controller.go:52-66` |
| `NotifySucceeds`, `NotifyFails` | lines 68-75 |
| `Patch`, `PatchFails`, `Annotate` | lines 77-93; a merge patch by name that writes no new version if nothing changes and ignores NotFound |
| `PhaseChanged`, `Dispatch` | lines 119-145 |
| `EventOf` | `eventFor`, lines 96-117 |
| `Elect`, `StepDown`, `Crash`, `LoseLease` | `main.go:65-71`, `deployment.yaml` (two replicas) |
| `Submit`, `ChangePhase`, `Delete` | users and the Argo controller, as far as `types.go` and the tests show them |
| `Observe`, `Relist`, `Resync`, `Requeue`, `Start` | client-go and controller-runtime, as `SetupWithManager` configures them (external) |

A cache that is a position in an append-only log makes every staleness the
informer can produce expressible and nothing else; it is also what makes the
proofs go through, because a version never changes once written.

### ActionsPipeline — several runs of `orders-api-pipeline.yml`

`request[n]` holds the inputs and ref of run `n`; `result[n][job]` how each job
stands. `ImageIf`, `StagingIf`, `ProductionIf` and `Succeeded` are the `if:`
lines (`orders-api-pipeline.yml:62, 70, 85` and the implied `success()`);
`Enter` and `Complete` are the concurrency group of the caller (one active, one
pending run, a new one replaces the pending one), `DeployFree` that of
`reusable-deploy.yml`. `PushedTags` are the tag as `reusable-image.yml:62-64` computes it and
that of the branch (line 87), `RequestedTag` the tag as the caller computes it; `registry`
says of every tag whose image it names, and a push may take it from another run. `DeployFails` leaves the
upgrade in place, as `helm upgrade --wait` without `--atomic` and a smoke test
after it do. `Rerun` is "Re-run failed jobs", `Cancel` a user cancelling,
`Status` and `Notify` the final job. The composite actions are part of the
actions of the jobs that use them.

### PlatformPipelines — Jenkins, Tekton and Argo

A run is a graph of tasks. `Tasks`, `Needs` and `When` are the graph and the
conditions of `Jenkinsfile`, `pipeline.yaml` and `build-test-deploy.yaml` side by
side, so that a difference between them is one conjunct. `Ready` says what a
failure stops (Jenkins finishes parallel stages, the others start nothing more),
`Timeout` what the 45 minutes do, `Verdict` what is said at the end (`post`,
`$(tasks.status)` through `slack-notify.yaml`, the phase the workflow-notifier
sends), `Retry` is `argo retry`. `SameJob` is a multibranch job with
`disableConcurrentBuilds`; `LockFree` and `milestone` are the two guards of the
production stage. `Tag` is `IMAGE_TAG` (`Jenkinsfile:45`, the commit or `IMAGE_TAG_OVERRIDE`),
`registry` whose image each tag names. `Limited` says which platforms have the 45
minutes. The steps of a run are split into `Engine`, what the platform does of its own accord,
and `Work`, what a tool or a person does or never does.

### MigrationAnalyzer — from a Jenkinsfile to the checklist

A Jenkinsfile is a sequence of tokens: statements, what opens a construct (`credentials(`,
`credentialsId:`, `stage(`) and the names that belong to it, which may be on a later line, line
ends, comment marks, a shebang, and tokens in which a mark does not stand alone: a glob with both
block marks, a string with `//` after a colon and one with `//` after a letter, and a `//` right
after a quote. `StripShebangs`, `StripBlocks` and `StripLines` are the three patterns of
`parser.py:13-15` in the order of `strip_comments`: what they remove leaves a `Blank` in its
place, so that the tokens keep their positions, and `CommentEnd` is the left-to-right search of
`re.sub`. `Captures` and `CredentialIds` are the lists `scan` takes from the joined text, where
`\s*` goes over line ends (`InText`; `credentials()` first, then `credentialsId`, each id once);
`ApplyRule` is one turn of the loop of `analyze_text`, where a rule sees the matches within a line
(`InLine`), and one of them (`Detail`); `LibrarySteps` the shared-library and plugin steps, `Markdown` the
report with its counts, lists and boxes, `Exit` the threshold of `cli.py`, `NoSuchFile`
its exit 1. A token stands for each category of rule, for a rule with `once`, for both
ways to name a credential, for two names, for a plugin step with a rule and one
without. `Mode` is the reference: a lexer that reads comments and strings as Groovy
does.

### CompositionRender and ArtifactStore — a store from its parameters to the cloud

`CompositionRender` is `hack/render-composition.py`: `get_path`, `set_path` (which
creates what is missing and extends lists), `go_format` with explicit and implicit
arguments, the map transform with its fallback (`Key`: a flag is looked up in lower case, while a
format writes it as Python does, `Str`), `apply_patches` in order, `compose`.
Operators have the names of the functions. A piece of text is a sequence of words, so
that a property can say from which values a name or a policy was built. The loops of the
code are functions of the number of turns: `Nodes` are what the variable `cur` of `get_path`
goes through, `Rebuilt` what `set_path` leaves, seen from the end of the path; the code changes
its nodes in place. Three things are errors in the code and not modelled: a path through
text, an unknown transform or patch type, and a verb without a value. The repository has none of
them (for the first, `PatchesWriteIntoDicts` in `MCArtifactStore`). The same module evaluates
the laws of the two path functions on a tree with a list; for paths of names they are proved
(section 5).

| `ArtifactStore` | Code |
|---|---|
| `Resources`, `PatchSets` | `composition.yaml:27-241`, resource by resource, the patches in their order |
| `WaitsFor` | `bucketSelector`, `roleSelector`, `policyArnSelector`, read off the bases |
| `Defaulted`, `XR` | the defaults of `xrd.yaml`, the XR as `example-xr.yaml` has it |
| `Submit` | a team creates the XR or replaces its parameters |
| `Compose`, `Apply`, `Finish`, `Crash` | one reconcile: XR and resources are read once, documents applied one by one, the status written last; a restart loses it (external) |
| `Observed` | the `ToCompositeFieldPath` patches and `function-auto-ready`, from what was observed at the start |
| `Provide(r)` | a provider brings one object to the cloud once its selectors find theirs (external) |
| `TerraformSettings` | what `modules/artifact-store/main.tf` would plan for the same parameters, setting by setting (names, versioning, encryption, public access, ownership, trust, session, policy, tags): the reference |
| `CloudSettings`, `Differing` | the same settings read off the cloud, and those that are not as planned |
| `Divergences` | the settings in which the two are known to differ, against what the comments say (section 6) |

### CrdSchemas, BackstageSchemas, HackScripts — two verdicts of the CI

`CrdSchemas` runs `crd-schemas.py` over a list of documents (`Convert`,
`ConverterExit`, `LoadFails`) and then kubeconform over one manifest, as the manifests
job does.

| `CrdSchemas` | Code |
|---|---|
| `Levels`, `Nodes` | the schema nodes of the CRDs, by height: what lies below a node is in an earlier level |
| `Structure`, `Validations` | the nodes that give a value its shape, and those below `allOf`, `anyOf`, `oneOf`, `not` |
| `to_json_schema` | the function of this name, on the nodes; `Converted` is one call of it, given what the calls it makes return |
| `Closes`, `Relaxed` | line 57, and the relaxation of `metadata` (lines 80-83) |
| `PathsOf`, `schemaFiles` | lines 70-86: the files, one per version with a schema, served or not; a later CRD overwrites an earlier one |
| `Extensions`, `Rules` | lines 44-45: what the converter drops. `Rules` are `x-kubernetes-validations`, as the set of values they refuse |
| `Accepts`, `Kubeconform` | what a JSON schema accepts, and the command that follows in the job (external) |
| `Known`, `Satisfied`, `Admits` | the reference: an API server with strict field validation |
| `Offers`, `Writes` | the CRD the server has of a kind and serves the version from; the CRD the file was last written from |
| `Tight` | schemas in which the converter overlooks nothing: no object that declares nothing, no rules |

The reference is written from the CRD and not from the converted schema: `Known` looks for
undeclared fields in the structure alone, and knows no field of an object that declares nothing;
`Satisfied` looks for refused values everywhere, by the rules too. They are the two passes of the
server. All five recursions are functions on the nodes, so that they can be proved about.

`BackstageSchemas` runs `validate-backstage.py` several times on one checkout: `Invoke`,
then `ReadCached` or `Download` per schema, with upstream's master moving in between
(`Push`), then `Judge` per file and `Exit`. `DownloadFails` is a timeout, or a kill while
the cache file is written. A schema's text is the revision it was downloaded at.

`HackScripts` puts the two jobs side by side. They share nothing, so a behaviour is a run of
one of them.

## 3. Runs

State counts are those of distinct states. "V" marks a run that shows a
disagreement (section 6): the checker finds its one property violated.

| Run | Instance | What it shows |
|---|---|---|
| `webhook_delivery` | retry settings −1, 0, 1, 2, 3, with a URL that parses and one that does not; the receiver may give any kind of answer to any request, at any time, in any order, or none (7,044 states) | `NilMeansAccepted`, `ExhaustedMeansAllSent`, `PermanentMeansRefused`, refinement of `NotifierContract` (with its liveness: the call returns) |
| `notifier_one_pod` | one replica, one name never used twice; run, fail, `argo retry`, succeed, delete; any two faults out of crash, lost lease, relist, failed get, failed patch; any number of failed deliveries; at most 6 versions | `QuietMeansDelivered`, `QuietMeansRecorded`, `RecordedIsNotResent` |
| `notifier_name_reuse` | the same with name reuse and one fault | `TypeOK`, `NothingInvented`, `RecordedAfterDelivery`, `SettledIsFinal`, refinement of `CompletionNotification` |
| `notifier_failover` | two replicas, a workflow that fails at once, any two crashes or lost leases, fairness | `EventuallyDelivered`, `EventuallyQuiet` |
| `claim_idempotent` (V) | one replica, no faults at all | one event posted twice |
| `claim_first_time` (V) | one replica, no faults, name reuse | a completion never posted |
| `actions_pipeline` | three runs, each a production release under a named tag, a staging run with skipped tests, or a run of a feature branch that pushes under the same name; one failure or cancellation; one re-run (526,497 states) | `TypeOK`, `EnvironmentsRunTestedImages`, `StagedIsWhatIsPromoted`, `SuccessMeansShipped`, `DeployedInOrder`, `EveryRunReports`, refinement of `ReleaseContract` |
| `actions_full_sha` (V) | one run whose override tag is the full SHA | `DeployedTagWasPushed`: the deployed tag was never pushed |
| `platform_pipelines` | two runs on any two platforms out of seven requests, two of them for the same named tag on Jenkins; two failures or retries, a deadline at any moment, tools and people that never answer (395,681 states) | `EnvironmentsRunTestedImages`, `SuccessMeansShipped`, `JenkinsDeploysInOrder`, `RunsEnd`, refinement of `ReleaseContract` |
| `analyzer` | every legal Jenkinsfile of at most four tokens, every threshold (801,286 states) | `SnippetShowsConstruct`, `ReportIsTheCode`, `SecretsAreCovered`, `ExitAgreesWithBoxes` |
| `artifact_store` | one store with five versions of its parameters (a repository alone, a provider alone, the pair, a principal, both trusts), one edit, one restart in the middle of a reconcile (230,495 states) | `GrantsItsBucketOnly`, `TrustWasAsked`, `ReadyMeansWhole`, `Settles` |
| `hack_scripts` | thirteen lists of CRDs with any of the manifests; two runs with or without cache, on a tag or on master, with one push (13,500 states) | `TypeOK` of both scripts, `PassesWhatTheServerAdmits`, `GreenMeansValid`, `PinnedToItsTag` |

The runs of `WebhookDelivery`, `PlatformPipelines`, `MigrationAnalyzer` and `ArtifactStore` check
no type invariant: their other properties already relate all the fields they are about to something
else. Where types are needed for a proof they are part of its invariant (section 5).

### Why the bounds are enough

*webhook_delivery.* The loop compares its counter with the setting only, so one
setting below zero, the special value zero and three positive ones cover every
comparison; four requests in flight exceed what any default produces. A URL either makes a request
or does not, the same at every attempt.

*notifier, names.* Keys of different names share nothing but the one worker and
the order of the queue, and no property relates two names: one name is enough for
safety, except that a worker busy with another name is idle as far as this one is
concerned, which is a schedule the run already has. The proofs do not depend on
it: they hold for any set of names and replicas, and for any lifecycle, also one in which
several terminal phases can be retried (in the run only a failed workflow is).

*notifier, versions and faults.* Six versions hold a workflow that is submitted,
runs, fails, is annotated, is retried and completes again, or that is
deleted and submitted again. Each hazard in `PROJECT.json` needs one fault at
the right place; two allow a fault in the recovery from the first. Failed
deliveries are not counted, because their number is what retries are about. The
failover run has the shortest life because two replicas multiply the state; what
it is about is who takes over, not what the workflow does.

*actions_pipeline.* Three runs are what it takes for one to be active, one
pending and one to replace the pending one. One trouble and one re-run produce
every combination of kept and repeated results of a run.

*platform_pipelines.* Two runs are enough for overtaking; two troubles for a
failure and a retry, or a failure in each run; deadlines are not counted. The seven requests
contain each platform with and without tests, both branches and both
environments, and a Jenkins build of a feature branch that pushes, untested by request, the name
another one is to deploy.

*analyzer.* Four tokens hold a comment with a line end inside it and a statement
after it, a definition and a call with a mark between them, two secrets on one or
on two lines, or a secret split over lines with a mark in between: the patterns of the code look at
a mark, its partner and the line. Five tokens give tens of millions of files and no new pair of
patterns; the theorems hold for files of every length.

*artifact_store.* A reconcile reads one version, so two submissions are enough for a
reconcile that applies the first while the second waits, and for a parameter that
is taken back; one restart leaves any prefix of the seven objects applied. The five
versions contain every combination of sources that the patches of the role can miss.

*hack_scripts.* The converter looks at one node and its children: each list of CRDs has
one shape of node (closed, open, map, map to anything, no fields declared, int-or-string, a
property called `properties`, junctors, a rule), one list has a version nobody serves, one has a CRD
twice with a changed version, one twice with a version dropped, one has none, and the manifests give every field of it a right and a wrong
value. Two revisions and two runs are enough for a cache written at one and read at the other.

Deadlock checking is off in all runs but `artifact_store`, whose reconciler never
stops, because in the others the system may stop: the call has returned, the bounded
life of the workflows is over, the runs have ended, the analyzer or the script has
exited. That nothing stops too early is what the liveness properties say (`ImplementsContract`,
`EventuallyDelivered`, `EveryRunReports`, `RunsEnd`).

## 4. Fairness

*WebhookDelivery*: weak fairness of the caller. The `http.Client` has a timeout
(`main.go:85`, ten seconds unless `--webhook-timeout` says otherwise; 0 would
turn it off and with it this argument) and the backoff is a timer, so a step of the
caller is never put off for ever. Nothing is assumed of receiver or
network.

*WorkflowNotifier*: only `FairSpec`, used by `notifier_failover`. Weak: somebody
takes a free lease (the Deployment restarts pods), a deposed leader stops,
watch, handler and backoff make progress, Get and Patch end. Strong: `Start` per
name (the queue is first in, first out, so no name waits behind others for
ever) and `NotifySucceeds` per name: the webhook accepts an event that is posted
again and again, without which no controller could promise delivery. Nothing is
assumed of Argo, of faults or of requests that were given up on.

*ActionsPipeline*: weak fairness of the progress of each run: every job has
`timeout-minutes` and a review ends after 30 days. No fairness for triggers,
cancellation or re-runs. Since the time-out of a job is a `JobFails` and these are
counted by `MaxTroubles`, the run that goes on in the model is one that ends well.

*PlatformPipelines*: weak fairness of what the engines do (`Engine`: start, skip and end; Jenkins
takes the next build off its queue, `Trigger`) and of their clocks (`Timeout`). Nothing is assumed of
the tools and the people (`Work`): a build may hang and nobody need decide, so it is the
45-minute limits (`Jenkinsfile:23`, `activeDeadlineSeconds`, `timeouts`) that `RunsEnd` rests on, and
without any one of them it is violated.

*ArtifactStore*: weak fairness of the reconciler, which controller-runtime starts again for
every XR at the poll interval and after an error, and of the providers as a whole. Since
only one edit and one restart are possible, the properties are about what happens after
the last of them. Teams need not edit.

*Analyzer, hack scripts*: none; their properties are about what a run says, not that it ends.

## 5. What is proved

All theorems are proved with TLAPS and hold for every value of the constants that
meets the named assumptions of the module; TLC evaluates these assumptions in every run.

### The workflow-notifier

`WorkflowNotifierProofs` and `NotifierRecordProofs`, for every set of names, set of
replicas, lifecycle, choice of faults and bound (`NotifierAssumption`,
`NoReplicaAssumption`):

| Theorem | Statement | Also assumed |
|---|---|---|
| `TypeCorrect` | `Spec => []TypeOK` | |
| `NothingIsInvented` | `Spec => []NothingInvented` | |
| `NeverRecordedTooEarly` | `Spec => []RecordedAfterDelivery` | |
| `NoLostWakeup` | `Spec => []QuietMeansDelivered` | no name reuse |
| `ImplementsNotification` | `Spec => ImplementsCompletionNotification` | |
| `SettledStaysSettled` | `Spec => SettledIsFinal` | |
| `RecordIsRespected` | `Spec => RecordedIsNotResent` | `Exclusive` |
| `RecordedOnce` | quiet and completed: the phase was recorded on the workflow at some time | no name reuse |
| `RecordedInTheEnd` | `Spec => []QuietMeansRecorded` | no name reuse, `Exclusive` |

`Exclusive` says that there is one replica, or that the lease is never lost by a
replica that goes on working. Both hypotheses are needed: with name reuse a record can be that
of a namesake (`claim_first_time`), and a deposed leader that still holds an old version
can overwrite a newer record (section 6).

The argument.

1. *The log only grows.* Every action leaves it alone or appends one version to
   one name (`LogStep`, `NextLogStep`), so whatever was read at a position of it
   stays true (`LogExtends`, `VersionStable`). Everything else rests on this.
2. *`WellFormed`* = `TypeOK`, caches and notifications point into the log
   (`CacheInv`, `BufferInv`), and the worker holds a name and, from `notify` on, a
   version that was completed (`JobInv`). `TypeOK` alone is not inductive:
   `Get` reads `log[n][cache[r][n]]`.
3. *`DeliveryInv`* adds that requests still on their way are completions too
   (`HistoryInv`) and that a worker about to patch has delivered its event
   (`PatchInv`). `NothingInvented` needs the first half because of
   `AcceptLate`, `RecordedAfterDelivery` the second because of `Patch`.
   `ImplementsNotification` goes through the actions with these two: an acceptance maps to
   `Deliver`, a patch to `Record`, a step of Argo to an occurrence or to a new or deleted
   object, the rest to no step at all.
4. *`SameInv`* adds that all versions of a name which are objects have the same
   uid (`UidInv`), which is what a patch without uid needs.
5. *`WakeupInv`*: for the completion a replica has in its cache, either it was
   delivered and its phase once recorded (or the workflow deleted), or something will still
   look at it: a queue entry, a backoff, a notification that passes the predicate, a
   worker that has not read yet, or one that is posting or recording just this completion.
   It is the reason the predicate may drop updates, and each way to break it is an action that
   consumes one of these without providing another. `QuietMeansDelivered` and `RecordedOnce`
   are its instances for a replica that has none of them.
6. *A record stays* (`NotifierRecordProofs`). A replica that does not lead remembers nothing
   (`StoppedInv`) and, under `Exclusive`, there is only one that leads (`HolderInv`). What its
   worker is about to record was, then, completed at a version no older than any the record
   on the object stems from (`SourceInv`, `JobSeenInv`); so the annotation goes through the
   phases in the order in which they were reached (`OrderInv`, `NoteKept`) and can only
   leave one for another that came later. That is where `Returned` comes from: the one way
   to lose a record without a second replica is to complete in a phase, in another one, and
   in the first one again.

### One call of Notify

`WebhookDeliveryProofs` proves, for every set of retry settings (`SettingsAssumption`:
integers) and every behaviour of receiver, network and shutdown:

| Theorem | Statement |
|---|---|
| `NilIsAcceptance` | `Spec => []NilMeansAccepted` |
| `GivesUpAfterAll` | `Spec => []ExhaustedMeansAllSent` |
| `PermanentIsRefusal` | `Spec => []PermanentMeansRefused` |
| `KeepsTheContract` | `Spec` implements the safety part of `NotifierContract` |

The inductive invariant `IInv` adds to the types that the answer on its way belongs to the
awaited request and says what the receiver did with it (`Awaited`: without it a late 2xx
of an earlier attempt could end the call), and that attempts are sent once, in order, and
without gaps unless the call is cancelled or has no URL to post to (`Counted`: it relates the loop
variable to the set of requests, which is what "after N attempt(s)" means; `AllowedAre` then relates
the bound of the loop to what the setting stands for). The head of the loop is one
lemma, `AttemptKeeps`, used by the first attempt and by every way to the next.
`KeepsTheContract` is what makes the composition sound: `WorkflowNotifier` uses
`Notify` in the form of the contract.

### The GitHub Actions pipeline

`ActionsPipelineProofs`, for any number of runs, requests, failures, cancellations and
re-runs (`ActionsAssumption`: naturals, and requests of the given form):

| Theorem | Statement |
|---|---|
| `TypeCorrect` | `Spec => []TypeOK` |
| `TestedImagesOnly` | `Spec => []EnvironmentsRunTestedImages` |
| `SuccessShipped` | `Spec => []SuccessMeansShipped` |
| `KeepsReleaseContract` | `Spec => ImplementsReleaseContract` |
| `PromotedIsStaged` | `Spec => []StagedIsWhatIsPromoted` |
| `DeploysInOrder` | `Spec => DeployedInOrder` |

The first four rest on `SafetyInv`, which looks at one run at a time. `RunInv`: a job that
was looked at has its needs behind it (`NeedsInv`), what its `if:` found is still so (`CondInv`),
each result stands for a milestone (`MilestoneInv`), and the milestones imply each other
(`DoneInv`). `CondInv` is why it has to be an invariant of results and not of the moment
a job starts: "Re-run failed jobs" puts some results back and keeps the others.
`CancelInv` is what `always()` in the condition of the image needs: in a run cancelled
while it tests, the image is looked at again, with the tests over. `RegistryInv` and
`DeployInv` tie the tags and the environments to the run they stem from: what a tag names was pushed
by a run that had the tag from its commit or its override (`ImagePushes`), after its own tests.

The last two compare runs. `GroupInv`: one active run of a branch, one pending one behind it
(`PendingInv`); `OrderInv`: none that is not run again reaches an environment after a
later one; `PromotionInv`: while a release is active, what it pushed and staged
is still what it was, but for a feature branch pushing under its name.

### Jenkins, Tekton and Argo

`PlatformPipelinesProofs`, for any number of runs on any of them, requests, failures,
timeouts and retries (`PlatformsAssumption`):

| Theorem | Statement |
|---|---|
| `TestedImagesOnly` | `Spec => []EnvironmentsRunTestedImages` |
| `SuccessShipped` | `Spec => []SuccessMeansShipped` |
| `KeepsReleaseContract` | `Spec => ImplementsReleaseContract` |
| `JenkinsInOrder` | `Spec => JenkinsDeploysInOrder` |

The invariant has the same parts, on graphs: needs (`GraphInv`), conditions (`CondInv`),
milestones (`MilestoneInv`, `DoneInv`), environments (`DeployInv`), tags (`RegistryInv`: once pushed
a tag names an image, that of its commit or, for the operators' name, of a build that was given it).
`Graph` and `Behind` are
the lemmas about the three graphs that all the steps use. `JenkinsInOrder` only needs that
the builds of one job do not overlap (`JobInv`, from `disableConcurrentBuilds`): the
proof cites neither the lock nor the milestone of the production stage.

### The hack scripts

`HackScriptsProofs`. The first two are about the converter, for schemas, values, lists of
documents and manifests of any number, width and depth that meet the assumptions below; the
next three about the Backstage validation, for any list of schemas without a name twice, any
files, documents and revisions, any number of runs (`BackstageAssumption`):

| Theorem | Statement |
|---|---|
| `CrdTypes` | `CrdSpec => []CrdTypeOK` |
| `AdmittedManifestsPass` | `CrdSpec => []PassesWhatTheServerAdmits` |
| `JudgesWithEverySchema` | `BackstageSpec => []BackstageTypeOK` |
| `GreenIsValid` | `BackstageSpec => []GreenMeansValid` |
| `TagPinsTheSchemas` | `BackstageSpec => []PinnedToItsTag` |
| `BothScriptsKeepTheirTypes` | `Spec => []TypeOK`, of the two jobs together |
| `BothVerdictsAreRight` | all of it for the two jobs together: `Spec => [](PassesWhatTheServerAdmits /\ GreenMeansValid /\ PinnedToItsTag)` |

What is assumed of the converter's input (`StructuralAssumption`, `DocumentsAssumption`) is what
makes the statement true, and nothing about the shapes beyond it: a CRD is structural, as the
API server demands; no validation has the type `object` or is an
int-or-string; an int-or-string has no `oneOf` of its own; and a CRD declares `metadata`. What
the converter overlooks (rules, objects that declare nothing, versions that are not served) is not
assumed away: the property says what still holds. The other two say that a schema ends after finitely many levels and that the values include their
parts (`NodesAssumption`, `ValuesAssumption`).

The argument about the converter:

1. The recursions exist (`ToJsonSchema`, `KnownIs`, `SatisfiedIs`, `TightIs`, `AcceptsIs`): a function on a
   lower part of the nodes extends by one level (`LowerSets`), by `Induction` on the levels.
2. `ConversionAgrees`, by the same induction. Below a junctor the schema of a node
   accepts exactly what `Satisfied` lets pass, because nothing is closed there and there are no rules
   (`ValidationAgrees`); in the structure it accepts what is `Known` and `Satisfied`, and a `Tight`
   node accepts nothing else (`AdmittedIsAccepted`, `AcceptedIsAdmitted`):
   closing a node is what the server's first pass does to it, a junctor sees the same values in
   both, and fields and items agree one level down. Dropping the test for the type in line 57
   breaks the first half, dropping that for `preserve` the second.
3. `RelaxedIsServerView` does the root, whose `metadata` is replaced on both sides.
4. `FilesInv`: the file of a version is that of the last CRD converted so far which has it. With
   `VerdictInv` (a verdict is that of the finished directory) this is the property.

In the validation, `RegistryInv` says that the schemas registered are the first of the list, so
that counting them is enough to know that all are there; `JudgeInv` that the sum is zero as
long as the files judged are valid; `CacheInv` that a cache only runs for the tag have used
holds the tag's revision or a cut file.

### The migration-analyzer

`MigrationAnalyzerProofs`, for Jenkinsfiles of every length (`AnalyzerAssumption`: a natural
number):

| Theorem | Statement |
|---|---|
| `SnippetsShowTheirConstruct` | `Spec => []SnippetShowsConstruct` |
| `ReportsTheCode` | `Spec => []ReportIsTheCode` |
| `SecretsHaveBoxes` | `Spec => []SecretsAreCovered` |
| `ExitCodesAgree` | `Spec => []ExitAgreesWithBoxes` |

`AnalyzerInvariant` says what the text has become at each step: the lists are those of the
stripped text (`Listed`), the findings those of the rules applied so far (`Found`), and
report and exit code are made from them (`Told`). The rest is about the operators.

1. `StripCommentsIs`: a removed token leaves a blank and no line end is touched, so every line
   of the stripped text is where it was (`LinesOfTheText`).
2. `ScannerFollowsLexer`: before each token, the comment the pattern has found last is over
   exactly when the lexer is outside of a block comment, and otherwise ends at the next end
   mark. This is where `Legal` (every comment is closed, `BlockEnds`) and `MarksAreMarks` are
   needed. With `LineCommentStarts` and `LineCommentLasts` for the pattern of line comments it
   gives `StripsLeaveTheCode`, and with `ShebangsAre` and `WithoutShebang` for the one that goes
   first `ScannerKeepsTheCode`: the three patterns leave what Groovy takes for code in every file
   whose marks are marks.
3. `MatchesAre`, `CapturedIs`, `MatchesOfALine`: what matches within a line matches in the text and
   captures the same name. The converse fails for a construct split over lines, and for nothing
   else, which is what `SecretsHaveBoxes` says; it needs nothing of the marks.
4. `PickedIs`, `SortedIs`: selecting and sorting lose nothing; a line and a rule have one
   finding, so the sort keys differ (`SortingKeepsFindings`).
5. `OpenBoxesFirst`, `CategoriesCount`: the boxes are the findings divided by category.

The two functions that go through a text by recursion (`ModeIs`, `CommentEndIs`) and the proofs
by induction on a position use `Induction`. It takes the set of the positions that satisfy
the claim where the library's theorem takes a predicate, and follows from the
well-foundedness of strict inclusion on finite sets (`Least`).

### The ArtifactStore

`ArtifactStoreProofs`, for every set of parameter records, any number of edits and restarts
(`BoundsAssumption`; `ParametersAssumption`: the types of `xrd.yaml:32-51`, which the API server
enforces, and nothing about which parameters are given together):

| Theorem | Statement |
|---|---|
| `PolicyGrantsTheBucket` | `Spec => []GrantsItsBucketOnly` |
| `TrustIsAskedFor` | `Spec => []TrustWasAsked` |
| `ReadyStoresAreWhole` | `Spec => []ReadyMeansWhole` |
| `HeldVersionsAreThePlanned` | a cloud with all documents of one version differs from what is planned for it in no setting but its `Divergences`, and with both trusts asked for trusts the principal (the safety half of `Settles`) |

The argument has two halves. The first is the rendering engine, in four layers.

1. The six loops (`NodesAre` to `ApplyingIs`): each function is what its recursion says, by
   `Induction` on the number of turns, as for the analyzer.
2. Paths: what `set_path` writes is what `get_path` reads at the same path (`GetSame`), and a
   path that parts from it reads what it read before (`GetOther`). Both are for trees and
   paths of names of every size; the composition writes no list.
3. Formats: a format is joined from its words and values, with explicit and
   implicit positions (`FormatJoined`, `FormatOne`, `FormatPair`, `FormatPolicy`).
4. Documents: `BucketDocument`, `VersioningDocument`, `ProtectionDocuments`, `PolicyDocument`
   and `RoleDocument` say what the composition makes of a version, for all
   parameters; `BaseReads` and `PlacedBase` that patches leave the rest of a base as it is.
   `RoleDocument` is where the order of the two trust patches counts (`Trust`).

The second is `StoreInv`, which is about the interleaving: whatever is desired, live or in the
cloud is the document of a version that was asked for (`HoldsDocuments`), a reconcile works
on one such version, and a status, the one written last as well as the one in the hands of a
reconcile, only says ready when all resources are in the cloud (`Honest`). The second part
is inductive because no step takes a resource out of the cloud again. `GrantsItsBucketOnly`
follows although bucket and policy may stem from different versions: the formats of both
only use what no edit changes.

### What is only model-checked

- Liveness: the return of `Notify`, `EventuallyDelivered`, `EventuallyQuiet`,
  `EveryRunReports`, `RunsEnd`, `Settles`. The provers know neither `ENABLED` nor fairness.
- `Settles` as a whole: that the cloud comes to hold the last version is liveness; what it then
  holds is proved (`HeldVersionsAreThePlanned`).

Every invariant of a passing run is stated by a theorem.
The properties of the runs marked V are false; a counterexample is all there is to show.

## 6. Where the code and its documents disagree

Shown by a run:

- **Idempotence** (`claim_idempotent`). `workflow_controller.go:47-48`: "It is safe
  to call repeatedly: the annotation makes notification idempotent per phase."
  The annotation is read from the informer cache, which may not have the patch of
  the previous reconcile yet; the event is then posted twice.
- **The first time each workflow reaches a phase** (`claim_first_time`). The patch
  carries no uid: a phase delivered for a deleted workflow can be
  recorded on a new one of the same name, whose own completion is then skipped
  (`controller/README.md:4-5`).
- **Full SHA as override tag** (`actions_full_sha`). `reusable-image.yml:64` shortens
  it before the push, the deploy jobs do not: helm gets a tag nobody pushed.

Met while modelling, visible in the modules, without a run of their own:

- `notify.go:62` takes `--webhook-retries=0` for "unset" and makes three attempts;
  `main.go:42` calls the flag "retries after the first webhook attempt". `Allowed` follows the
  comment of the field (`notify.go:41`), "default 2".
- A URL that does not parse passes `main.go:50`; every attempt then fails before anything is sent
  (`notify.go:92-95`), is retried with backoff, and is reported as "after N attempt(s)".
- `$(tasks.status)` of Tekton is `Completed` when a task was skipped, as `deploy-production`
  is in every staging run, and `slack-notify.yaml:31` shows that as a warning, not as the
  success of the Jenkins `post` (`Verdict`).
- A negative `--webhook-retries` never enters the loop and posts nothing; the error
  says "after 0 attempt(s)" for −1.
- 429 is retried; `controller/README.md:19` says 4xx is permanent for that attempt.
- A crash between POST and PATCH sends the event again; `controller/README.md:16`
  says "Restarts and resyncs do not resend". The model checks the part that does
  hold (`SettledIsFinal`: true once the record is written and seen).
- After an `argo retry` the annotation only remembers the last phase, so a workflow
  that fails, succeeds and fails again reports the failure twice. The record of the phase
  in between may also come last, and then stay. `QuietMeansRecorded` and
  `RecordedIsNotResent` name this exception (`Returned`). A deposed leader can
  overwrite a newer record with an older one; a later reconcile then sends again
  (`Exclusive` in section 5).
- A relist can replace a workflow by another of the same name within one update, and
  the predicate compares phases only. With equal phases the update is dropped.
- `reusable-deploy.yml:8` says concurrency "queues runs in order" and
  `migration-guide.md:26` that it "does not skip older runs"; lines 92-93 of the guide,
  and the model, have one pending run that is replaced.
- A run for production from a feature branch deploys nothing and reports success.
- Tekton and Argo deploy every branch, although `pipeline.yaml:13` mirrors the Jenkins
  pipeline "stage for stage"; both deploys of a Tekton run use one kubeconfig.
- Tekton's `finally` tasks do not run when the pipeline times out without a
  `timeouts.finally`; the comment above them says "run regardless of outcome".
- The 24 hours for the Jenkins approval lie inside a build limited to 45 minutes.
- The comment patterns of the analyzer (`parser.py:13-15`) do not know strings and are applied one
  after the other. Two globs such as `'**/*'` hide everything between them; a `//` in a string hides
  the rest of the line unless a quote or a colon precedes it; a comment that directly follows a quote
  or a colon stays in the text, so that what it says is reported; a line of a block comment that
  starts with `#!` is blanked first, and the end of the comment with it if it is on that
  line. `ReportIsTheCode` excludes these files by its condition `MarksAreMarks`, one conjunct each.
- A secret named over a line end is listed without a box: the lists come from the joined text, in which
  `\s*` matches a line end (`parser.py:18-19`), the findings from single lines. `SecretsAreCovered` names
  this case; the README of the tool says that a construct split across lines can be missed.
- `migration-guide.md:104-105` says that all the items it lists are reported as `manual`;
  locks, credential ids and cron triggers are `review`, `pollSCM` is `drop`.
- `composition.yaml:181`: with `trustedPrincipalArn` set, the trust policy written for the
  GitHub provider is replaced, although `xrd.yaml:42-45` says GitHub trust is added, as the
  Terraform module does. `Settles` and `TrustWasAsked` name this exception (`AsksBothTrusts`):
  the store settles on the principal's trust alone.
- `crossplane/README.md:5-7`, `composition.yaml:3` and `main.tf:3` call the composition the resource for
  resource counterpart of the Terraform module. The ownership controls of `main.tf:50-56`
  have none, and the role and the policy are called `<store>-artifact-store` only there
  (lines 103 and 126). `Settles` says that these are the only settings that differ (`Divergences`).
- A provider without a repository is refused by Terraform when it plans; the composition then
  silently trusts nobody.
- The map transform hands on a value it does not know instead of failing.
- `validate-backstage.py:4-5` speaks of schemas pinned to a ref: the default ref is a moving
  branch, and the cache ignores the ref a file was downloaded for. `PinnedToItsTag` states
  what does hold. A cache file cut by a kill ends every later run until it is deleted.
- `crd-schemas.py:4-5` writes "one strict JSON schema per served version"; the code writes one per
  version with a schema (lines 74-86) and never looks at `served`. A manifest of a version nobody
  serves, or one that only an earlier CRD of the list has, passes the job.
- `crd-schemas.py:13-14` closes objects that declare properties, and line 44 drops
  the rules of the server. An object that declares none is left open, whereas the API server keeps
  nothing in it. `PassesWhatTheServerAdmits` claims the server's verdict only where neither occurs
  (`Tight`); that what the server admits passes it claims everywhere.
- `crd-schemas.py:56` replaces a `oneOf` that an int-or-string node already has. It is
  assumed that none does (`StructuralAssumption`): the usual form is an `anyOf`.
- A named override tag pushed by a feature branch can reach production between staging and
  promotion, on GitHub Actions and, under `IMAGE_TAG_OVERRIDE`, on Jenkins. The image was tested by
  the run that pushed it, unless that was asked to skip its tests, but it never passed the gates of the
  environment. `EnvironmentsRunTestedImages` says that a run that was given the same name is the only one
  that can change what a tag of an environment names; `StagedIsWhatIsPromoted` that for a release on
  GitHub Actions that is not itself run again, a run outside main is.
- A plugin step without a rule (`httpRequest`) is listed in the analyzer's report but has no box,
  so `--fail-on review` does not see it.

## 7. What is assumed of the platforms

The code only runs inside platforms whose behaviour it configures. Their part is
modelled from the way this repository uses them, and is marked external in
`PROJECT.json`:

- *API server, informer, queue*: versions of one name are seen in order, a relist may
  leave some out, the queue removes duplicates, one worker per replica (the default),
  a name in work may be queued again but not started (one worker), errors come
  back after a backoff.
- *GitHub*: an `if:` without a status function implies `success()`; `always()` jobs may
  go on in a cancelled run; a user can cancel while a job is busy; a group has one
  active and one pending run; a run waiting for a reviewer keeps its group; re-running
  failed jobs keeps the results of the others. A called workflow whose jobs are all
  skipped may end as skipped or as success: both are modelled.
- *Jenkins*: builds of one job start in order, `failFast` is not set, an aborted build
  meets none of the `post` conditions of the Jenkinsfile.
- *Tekton*: nothing more is started after a failure; skipped tasks satisfy `runAfter`
  when the reason is their own `when`; `$(tasks.status)` is `Completed` if a
  task was skipped.
- *Argo*: a bare name in `depends` means succeeded or skipped; `failFast` is the default;
  the deadline fails the workflow; `argo retry` repeats what failed.
- *Crossplane, provider-aws*: a reconcile works on what it read at its start, applies the
  desired documents one by one, replacing what they set, writes the status last and comes
  back; readiness of the store is that of all composed resources; a provider waits for the
  objects its selectors name and follows later changes.
- *kubeconform and the API server*: the keywords used by the converted schemas mean what JSON
  schema says; a CRD that reaches the cluster is structural; the server takes `metadata` as
  its own business, whatever the CRD says of it; it checks fields against the structure and values against all of
  the schema. Without pruning, "admits" means strict field validation.
- *backstage/backstage*: a tag does not move, master does.

## 8. What is not modelled

- *Data*: event bodies, HMAC signature, labels, metrics, log lines, Slack wording,
  artifacts, caches, workspaces, credentials. No property depends on them.
- *Jenkins*: the unstable result (the tests of this Jenkinsfile publish no JUnit
  reports), stash, `ImageName`.
- *Analyzer*: the other rules of the table, which differ in the pattern only; the text and
  JSON formats.
- *ArtifactStore*: deleting a store, editing its region, Terraform's plan and apply as steps
  (its module is the reference only).
- *CRD schemas*: patterns, enumerations and bounds, which `crd-schemas.py:53` copies; what a string or
  an integer says. Of the extensions line 44 drops, those that refuse values are `Rules`;
  `x-kubernetes-embedded-resource`, which lets the server know three fields a schema does not
  declare, is left out: a node with it and with properties would be closed. A value `true` of
  `additionalProperties` is kept by both sides as leaving everything open.
- *hack scripts*: `render-skeleton.py` and the placeholders, which substitute text in files.
- *Backstage template, the other jobs of the repository CI*: declarative or one-shot, without
  state of their own; nothing in them waits for, retries or overlaps with anything else.

## 9. Plan

Done, in order of importance: the notifier and its contract, the GitHub Actions pipeline,
the other platforms with the common contract, the analyzer, the ArtifactStore with its
rendering engine, the two verdicts of the hack scripts; the theorems about the notifier with
its refinement, about one call of `Notify`, about all four pipelines with their refinement,
about the schema converter and the Backstage validation, the analyzer, and the
ArtifactStore. Next:

1. *Proofs*: lists in `GetSame` and `GetOther`.
2. *Model*: a composition of `PlatformPipelines` (Argo) with the notifier, so that what
   `deploy-production` did is related to what the webhook hears; deletion of a store.
