---------------------------- MODULE WorkflowNotifier ----------------------------
(***************************************************************************)
(* The workflow-notifier controller: Argo writes Workflows to the API       *)
(* server; each elected replica mirrors them in an informer cache, queues   *)
(* the ones PhaseChanged lets through, and reconciles them: read the cache, *)
(* post the completion to the webhook, record the phase in an annotation.   *)
(*                                                                          *)
(* The API server is an append-only log of versions per workflow name, and  *)
(* a cache is a position in that log, so every read the reconciler makes    *)
(* may be stale.  Notify is used through NotifierContract.                  *)
(***************************************************************************)
EXTENDS Integers, Sequences

CONSTANTS
    Names,         \* namespaced names of workflows
    Replicas,      \* controller pods (deployment.yaml: 2)
    Lifecycle,     \* the pairs <<phase, phase'>> Argo moves a workflow along
    NameReuse,     \* may a deleted workflow's name be submitted again?
    Faults,        \* the fault kinds the environment may inject
    MaxFaults,     \* bound: how many faults (failed deliveries are not counted)
    MaxVersions    \* bound: versions of a name after which Argo leaves it alone

FaultKinds == {"crash", "lease", "relist", "get", "notify", "patch"}

\* WorkflowPhase; "Unknown" is the empty phase of a workflow Argo has not looked at.
Phases == {"Unknown", "Pending", "Running", "Succeeded", "Failed", "Error"}

Completed(phase) == phase \in {"Succeeded", "Failed", "Error"}

ASSUME NotifierAssumption ==
    /\ Lifecycle \subseteq Phases \X Phases
    /\ \A step \in Lifecycle : step[1] # step[2]
    /\ NameReuse \in BOOLEAN
    /\ Faults \subseteq FaultKinds
    /\ MaxFaults \in Nat /\ MaxVersions \in Nat

NoNote == "none"                 \* the annotation is absent
NoReplica == "nobody"            \* the lease is free

ASSUME NoReplicaAssumption == NoReplica \notin Replicas

\* An object as far as the controller reads it; uid 0 stands for "no such object".
Objects == [uid : Nat, phase : Phases, note : Phases \cup {NoNote}]
Absent == [uid |-> 0, phase |-> "Unknown", note |-> NoNote]
Present(obj) == obj.uid # 0

Events == [name : Names, uid : Nat, phase : Phases]

VARIABLES
    log,        \* API server: the versions each name went through
    holder,     \* API server: who holds the leader-election lease
    faults,     \* how many faults happened so far
    delivered,  \* webhook: the events accepted at least once
    repeated,   \* webhook: the events accepted more than once
    inFlight,   \* requests Notify gave up on that may still reach the webhook
    leading,    \* the replicas that believe they lead and run the controller
    cache,      \* informer cache: a position in the log of every name
    buffer,     \* watch notifications the cache has not handed to the queue yet
    queue,      \* workqueue: names to reconcile
    delayed,    \* workqueue: names to be queued again after their backoff
    pc,         \* the worker: "idle", "get", "notify" or "patch"
    job         \* the worker: the name it reconciles and the version it read

api == <<log, holder>>
webhook == <<delivered, repeated, inFlight>>
informer == <<cache, buffer>>
worker == <<pc, job>>
vars == <<log, holder, faults, delivered, repeated, inFlight, leading, cache, buffer,
          queue, delayed, pc, job>>

--------------------------------------------------------------------------------
(* Versions, events and watch notifications                                    *)

Version(n, i) == IF i = 0 THEN Absent ELSE log[n][i]
Current(n) == Version(n, Len(log[n]))

\* eventFor: name, UID and phase come from one and the same version.
EventOf(n, obj) == [name |-> n, uid |-> obj.uid, phase |-> obj.phase]

Recorded(obj) == obj.note = obj.phase

\* A watch notification is the pair of versions the informer moved between.
IsCreate(old, new) == ~Present(old) /\ Present(new)
IsUpdate(old, new) == Present(old) /\ Present(new)

\* Mutated form of PhaseChanged: only new objects are let through.
CreatesOnly(old, new) == IsCreate(old, new)

PhaseChanged(old, new) ==
    IsCreate(old, new) \/ (IsUpdate(old, new) /\ old.phase # new.phase)

Passes(n, moved) == PhaseChanged(Version(n, moved.old), Version(n, moved.new))

\* What the informer hands out when it moves from version i to version j of n.
Notification(n, i, j) ==
    IF Present(Version(n, i)) \/ Present(Version(n, j))
    THEN <<[old |-> i, new |-> j]>> ELSE <<>>

NoJob == [name |-> "none", version |-> 0]

\* Mutated form of EventOfJob: the event is built from the object as it is by now.
EventOfLatest(r) == EventOf(job[r].name, Current(job[r].name))

EventOfJob(r) == EventOf(job[r].name, Version(job[r].name, job[r].version))

--------------------------------------------------------------------------------
Init ==
    /\ log = [n \in Names |-> <<>>]
    /\ holder = NoReplica
    /\ faults = 0
    /\ delivered = {} /\ repeated = {} /\ inFlight = {}
    /\ leading = {}
    /\ cache = [r \in Replicas |-> [n \in Names |-> 0]]
    /\ buffer = [r \in Replicas |-> [n \in Names |-> <<>>]]
    /\ queue = [r \in Replicas |-> {}]
    /\ delayed = [r \in Replicas |-> {}]
    /\ pc = [r \in Replicas |-> "idle"]
    /\ job = [r \in Replicas |-> NoJob]

--------------------------------------------------------------------------------
(* Users and the Argo workflow controller                                      *)

Write(n, obj) == log' = [log EXCEPT ![n] = Append(@, obj)]

ArgoMoves(n) ==
    /\ Len(log[n]) < MaxVersions
    /\ UNCHANGED <<holder, faults, webhook, leading, informer, queue, delayed, worker>>

\* The uid is the position of the object's first version: never used twice for a name.
Submit(n) ==
    /\ ~Present(Current(n))
    /\ NameReuse \/ log[n] = <<>>
    /\ Write(n, [uid |-> Len(log[n]) + 1, phase |-> "Unknown", note |-> NoNote])
    /\ ArgoMoves(n)

ChangePhase(n, phase) ==
    /\ Present(Current(n))
    /\ <<Current(n).phase, phase>> \in Lifecycle
    /\ Write(n, [Current(n) EXCEPT !.phase = phase])
    /\ ArgoMoves(n)

Delete(n) ==
    /\ Present(Current(n))
    /\ Write(n, Absent)
    /\ ArgoMoves(n)

--------------------------------------------------------------------------------
(* Start, leader election and stop of a replica                                *)

Fault(kind) == kind \in Faults /\ faults < MaxFaults /\ faults' = faults + 1

\* A replica that gets the lease starts its controller: the first list fills the
\* cache and every object that exists is a create notification.
Elect(r) ==
    /\ r \notin leading
    /\ holder = NoReplica
    /\ holder' = r
    /\ leading' = leading \cup {r}
    /\ cache' = [cache EXCEPT ![r] = [n \in Names |-> Len(log[n])]]
    /\ buffer' = [buffer EXCEPT ![r] = [n \in Names |-> Notification(n, 0, Len(log[n]))]]
    /\ UNCHANGED <<log, faults, webhook, queue, delayed, worker>>

\* The holder did not renew in time; it keeps running until it notices.
LoseLease ==
    /\ Fault("lease")
    /\ holder # NoReplica
    /\ holder' = NoReplica
    /\ UNCHANGED <<log, webhook, leading, informer, queue, delayed, worker>>

\* The process ends: everything in memory is gone, a request may be on its way.
Stop(r) ==
    /\ leading' = leading \ {r}
    /\ cache' = [cache EXCEPT ![r] = [n \in Names |-> 0]]
    /\ buffer' = [buffer EXCEPT ![r] = [n \in Names |-> <<>>]]
    /\ queue' = [queue EXCEPT ![r] = {}]
    /\ delayed' = [delayed EXCEPT ![r] = {}]
    /\ pc' = [pc EXCEPT ![r] = "idle"]
    /\ job' = [job EXCEPT ![r] = NoJob]
    /\ \/ UNCHANGED inFlight
       \/ pc[r] = "notify" /\ inFlight' = inFlight \cup {EventOfJob(r)}
    /\ UNCHANGED <<log, delivered, repeated>>

Crash(r) ==
    /\ r \in leading
    /\ Fault("crash")
    /\ holder' = IF holder = r THEN NoReplica ELSE holder
    /\ Stop(r)

StepDown(r) ==
    /\ r \in leading
    /\ holder # r
    /\ Stop(r)
    /\ UNCHANGED <<holder, faults>>

--------------------------------------------------------------------------------
(* Informer: cache and notifications of a running replica                      *)

Moved(r, n, i, j) == Append(buffer[r][n], [old |-> i, new |-> j])

\* The watch delivers the next version of one name.
Observe(r, n) ==
    /\ r \in leading
    /\ cache[r][n] < Len(log[n])
    /\ cache' = [cache EXCEPT ![r][n] = @ + 1]
    /\ buffer' = [buffer EXCEPT ![r][n] = Moved(r, n, cache[r][n], cache[r][n] + 1)]
    /\ UNCHANGED <<api, faults, webhook, leading, queue, delayed, worker>>

\* The watch broke and the informer lists again: versions in between are not seen.
Relist(r) ==
    /\ r \in leading
    /\ Fault("relist")
    /\ cache' = [cache EXCEPT ![r] = [n \in Names |-> Len(log[n])]]
    /\ buffer' = [buffer EXCEPT ![r] = [n \in Names |->
           IF cache[r][n] < Len(log[n])
           THEN buffer[r][n] \o Notification(n, cache[r][n], Len(log[n]))
           ELSE buffer[r][n]]]
    /\ UNCHANGED <<api, webhook, leading, queue, delayed, worker>>

\* The periodic resync hands out the cached object as an update to itself.
Resync(r, n) ==
    /\ r \in leading
    /\ buffer[r][n] = <<>>
    /\ Present(Version(n, cache[r][n]))
    /\ buffer' = [buffer EXCEPT ![r][n] = Moved(r, n, cache[r][n], cache[r][n])]
    /\ UNCHANGED <<api, faults, webhook, leading, cache, queue, delayed, worker>>

\* The oldest notification reaches the handler, which queues the name if it passes.
Dispatch(r, n) ==
    /\ buffer[r][n] # <<>>
    /\ buffer' = [buffer EXCEPT ![r][n] = Tail(@)]
    /\ queue' = [queue EXCEPT ![r] =
           IF Passes(n, Head(buffer[r][n])) THEN @ \cup {n} ELSE @]
    /\ UNCHANGED <<api, faults, webhook, leading, cache, delayed, worker>>

--------------------------------------------------------------------------------
(* The worker and Reconcile                                                    *)

\* The backoff of a failed name is over.
Requeue(r, n) ==
    /\ n \in delayed[r]
    /\ delayed' = [delayed EXCEPT ![r] = @ \ {n}]
    /\ queue' = [queue EXCEPT ![r] = @ \cup {n}]
    /\ UNCHANGED <<api, faults, webhook, leading, informer, worker>>

Start(r, n) ==
    /\ pc[r] = "idle"
    /\ n \in queue[r]
    /\ queue' = [queue EXCEPT ![r] = @ \ {n}]
    /\ pc' = [pc EXCEPT ![r] = "get"]
    /\ job' = [job EXCEPT ![r] = [name |-> n, version |-> 0]]
    /\ UNCHANGED <<api, faults, webhook, leading, informer, delayed>>

\* Mutated form of Return: a successful reconcile asks to be requeued.
ReturnRequeued(r) ==
    /\ pc' = [pc EXCEPT ![r] = "idle"]
    /\ job' = [job EXCEPT ![r] = NoJob]
    /\ delayed' = [delayed EXCEPT ![r] = @ \cup {job[r].name}]

\* Reconcile returns nil: the name is forgotten until the next notification.
Return(r) ==
    /\ pc' = [pc EXCEPT ![r] = "idle"]
    /\ job' = [job EXCEPT ![r] = NoJob]
    /\ UNCHANGED delayed

\* Mutated form of ReturnError: the error is logged and swallowed.
ReturnErrorLost(r) == Return(r)

\* Mutated form of ReturnError: the worker forgets its name before it requeues it.
ReturnErrorCleared(r) ==
    /\ pc' = [pc EXCEPT ![r] = "idle"]
    /\ job' = [job EXCEPT ![r] = NoJob]
    /\ delayed' = [delayed EXCEPT ![r] = @ \cup {job'[r].name}]

\* Reconcile returns an error: the name comes back after a backoff.
ReturnError(r) ==
    /\ pc' = [pc EXCEPT ![r] = "idle"]
    /\ job' = [job EXCEPT ![r] = NoJob]
    /\ delayed' = [delayed EXCEPT ![r] = @ \cup {job[r].name}]

\* Mutated forms of NeedsNotification: the annotation is not read; or any annotation at
\* all stops the notification.
NeedsAlways(obj) == Completed(obj.phase)
NeedsFirst(obj) == Completed(obj.phase) /\ obj.note = NoNote

\* What Reconcile decides from the object it read.
NeedsNotification(obj) == Completed(obj.phase) /\ ~Recorded(obj)

Get(r) ==
    /\ pc[r] = "get"
    /\ LET n == job[r].name
           i == cache[r][n]
       IN \/ /\ NeedsNotification(Version(n, i))
             /\ pc' = [pc EXCEPT ![r] = "notify"]
             /\ job' = [job EXCEPT ![r].version = i]
             /\ UNCHANGED delayed
          \/ ~NeedsNotification(Version(n, i)) /\ Return(r)
    /\ UNCHANGED <<api, faults, webhook, leading, informer, queue>>

GetFails(r) ==
    /\ pc[r] = "get"
    /\ Fault("get")
    /\ ReturnError(r)
    /\ UNCHANGED <<api, webhook, leading, informer, queue>>

Accept(e) ==
    /\ delivered' = delivered \cup {e}
    /\ repeated' = IF e \in delivered THEN repeated \cup {e} ELSE repeated

\* Requests of earlier attempts of the call may still be on their way when it returns.
GivesUpOn(e) == inFlight' = inFlight \/ ("notify" \in Faults /\ inFlight' = inFlight \cup {e})

NotifySucceeds(r) ==
    /\ pc[r] = "notify"
    /\ Accept(EventOfJob(r))
    /\ GivesUpOn(EventOfJob(r))
    /\ pc' = [pc EXCEPT ![r] = "patch"]
    /\ UNCHANGED <<api, faults, leading, informer, queue, delayed, job>>

\* Mutated form of NotifyFails: Reconcile goes on to the patch in spite of the error.
NotifyFailsUnnoticed(r) ==
    /\ pc[r] = "notify"
    /\ "notify" \in Faults
    /\ GivesUpOn(EventOfJob(r))
    /\ pc' = [pc EXCEPT ![r] = "patch"]
    /\ UNCHANGED <<api, faults, delivered, repeated, leading, informer, queue, delayed, job>>

NotifyFails(r) ==
    /\ pc[r] = "notify"
    /\ "notify" \in Faults
    /\ GivesUpOn(EventOfJob(r))
    /\ ReturnError(r)
    /\ UNCHANGED <<api, faults, delivered, repeated, leading, informer, queue>>

\* The merge patch names the workflow and carries neither uid nor resourceVersion; the
\* API server writes no new version when the object does not change or is gone.
Annotate(n, phase) ==
    IF Present(Current(n)) /\ Current(n).note # phase
    THEN Write(n, [Current(n) EXCEPT !.note = phase])
    ELSE UNCHANGED log

PatchOfJob(r) == Annotate(job[r].name, EventOfJob(r).phase)

Patch(r) ==
    /\ pc[r] = "patch"
    /\ PatchOfJob(r)
    /\ Return(r)
    /\ UNCHANGED <<holder, faults, webhook, leading, informer, queue>>

\* An error other than NotFound: the patch was refused, or its answer was lost.
PatchFails(r) ==
    /\ pc[r] = "patch"
    /\ Fault("patch")
    /\ UNCHANGED log \/ PatchOfJob(r)
    /\ ReturnError(r)
    /\ UNCHANGED <<holder, webhook, leading, informer, queue>>

--------------------------------------------------------------------------------
(* Requests Notify gave up on                                                  *)

AcceptLate(e) ==
    /\ e \in inFlight
    /\ Accept(e)
    /\ UNCHANGED <<api, faults, inFlight, leading, informer, queue, delayed, worker>>

LoseRequest(e) ==
    /\ e \in inFlight
    /\ inFlight' = inFlight \ {e}
    /\ UNCHANGED <<api, faults, delivered, repeated, leading, informer, queue, delayed, worker>>

--------------------------------------------------------------------------------
Argo(n) == Submit(n) \/ Delete(n) \/ \E phase \in Phases : ChangePhase(n, phase)

Process(r) == Elect(r) \/ Crash(r) \/ StepDown(r)

Informer(r) == Relist(r) \/ \E n \in Names : Observe(r, n) \/ Resync(r, n) \/ Dispatch(r, n)

Reconcile(r) ==
    \/ \E n \in Names : Requeue(r, n) \/ Start(r, n)
    \/ Get(r) \/ GetFails(r) \/ NotifySucceeds(r) \/ NotifyFails(r)
    \/ Patch(r) \/ PatchFails(r)

Network == \E e \in inFlight : AcceptLate(e) \/ LoseRequest(e)

Next ==
    \/ \E n \in Names : Argo(n)
    \/ LoseLease
    \/ \E r \in Replicas : Process(r) \/ Informer(r) \/ Reconcile(r)
    \/ Network

Spec == Init /\ [][Next]_vars

\* Kubernetes restarts the pods and the lease is eventually taken; watches, handlers and
\* workers of a running replica make progress; the queue is fair to every name; and the
\* webhook accepts an event that is posted again and again.  Nothing is assumed of Argo,
\* of the faults, or of the requests that were given up on.
Fairness ==
    /\ WF_vars(\E r \in Replicas : Elect(r))
    /\ \A r \in Replicas :
        /\ WF_vars(StepDown(r))
        /\ WF_vars(Get(r))
        /\ WF_vars(Patch(r))
        /\ \A n \in Names :
            /\ WF_vars(Observe(r, n))
            /\ WF_vars(Dispatch(r, n))
            /\ WF_vars(Requeue(r, n))
            /\ SF_vars(Start(r, n))
            /\ SF_vars(NotifySucceeds(r) /\ job[r].name = n)

FairSpec == Spec /\ Fairness

--------------------------------------------------------------------------------
(* Properties                                                                  *)

TypeOK ==
    /\ log \in [Names -> Seq(Objects)]
    /\ holder \in Replicas \cup {NoReplica}
    /\ faults \in Nat
    /\ delivered \subseteq Events /\ repeated \subseteq delivered /\ inFlight \subseteq Events
    /\ leading \subseteq Replicas
    /\ cache \in [Replicas -> [Names -> Nat]]
    /\ buffer \in [Replicas -> [Names -> Seq([old : Nat, new : Nat])]]
    /\ queue \in [Replicas -> SUBSET Names]
    /\ delayed \in [Replicas -> SUBSET Names]
    /\ pc \in [Replicas -> {"idle", "get", "notify", "patch"}]
    /\ job \in [Replicas -> [name : Names, version : Nat] \cup {NoJob}]

Completions(n) ==
    {EventOf(n, log[n][i]) : i \in {j \in DOMAIN log[n] : Completed(log[n][j].phase)}}

\* The webhook only hears of completions that happened: the uid and the phase of an event
\* belong to one state the workflow was in, however stale the cache, whichever process
\* sent it and however late it arrived (eventFor, workflow_controller.go:96-117).
NothingInvented == \A e \in delivered : e \in Completions(e.name)

\* No version of any workflow carries the annotation before the webhook has accepted that
\* phase for that name (controller/README.md:18 "only written after a successful delivery").
RecordedAfterDelivery ==
    \A n \in Names : \A i \in DOMAIN log[n] :
        log[n][i].note # NoNote => \E e \in delivered : e.name = n /\ e.phase = log[n][i].note

\* Nothing is left to do for name n in replica r: no notification, key, backoff or job.
Quiet(r, n) ==
    /\ r \in leading
    /\ cache[r][n] = Len(log[n])
    /\ buffer[r][n] = <<>>
    /\ n \notin queue[r] \cup delayed[r]
    /\ job[r].name # n

\* No lost wakeup: when a running replica has nothing left to do for a completed
\* workflow, its completion was delivered (the predicate, the queue, the requeue after an
\* error and the initial list leave no gap).
QuietMeansDelivered ==
    \A r \in Replicas, n \in Names :
        Quiet(r, n) /\ Completed(Current(n).phase) => EventOf(n, Current(n)) \in delivered

\* Within its first k versions the workflow completed in this phase and later, after a
\* retry, in another one: in the phase again, it completes for the second time.
Returned(n, phase, k) ==
    \E i, j \in 1 .. k :
        /\ i < j
        /\ log[n][i].phase = phase
        /\ Completed(log[n][j].phase) /\ log[n][j].phase # phase

\* ... and the annotation holds the phase the workflow ended in, unless it came back to a
\* phase that had been recorded before: the annotation remembers one phase only, so the
\* record of the completion in between may come last (workflow_controller.go:64, 77-93).
QuietMeansRecorded ==
    \A r \in Replicas, n \in Names :
        Quiet(r, n) /\ Completed(Current(n).phase) =>
            Recorded(Current(n)) \/ Returned(n, Current(n).phase, Len(log[n]))

\* A completion is settled once it is recorded and no process or request still acts on an
\* older view of the workflow.
Settled(n) ==
    /\ Completed(Current(n).phase)
    /\ Recorded(Current(n))
    /\ \A e \in inFlight : e.name # n
    /\ \A r \in leading :
        /\ cache[r][n] = Len(log[n])
        /\ ~(pc[r] \in {"notify", "patch"} /\ job[r].name = n)

\* "Restarts and resyncs do not resend" (controller/README.md:16): crashes, elections,
\* relists, resyncs and leftover queue entries never revive a settled completion; only
\* Argo, by writing a new version, does.
SettledIsFinal ==
    [][\A n \in Names : Settled(n) /\ log'[n] = log[n] => Settled(n)']_vars

\* A replica whose cache has already been through a version where a phase is recorded for
\* a workflow does not decide to post that phase for it again, whichever replica recorded
\* it: what the annotation is for (controller/README.md:15 "one event per terminal phase").
\* A workflow that completed otherwise in between and came back has completed again.
SeenRecorded(r, e) ==
    \E i \in 1 .. cache[r][e.name] :
        log[e.name][i].uid = e.uid /\ log[e.name][i].note = e.phase
DecidesToPost(r) == pc[r] = "get" /\ pc'[r] = "notify"
RecordedIsNotResent ==
    [][\A r \in Replicas : DecidesToPost(r) =>
           \/ ~SeenRecorded(r, EventOfJob(r)')
           \/ LET e == EventOfJob(r)' IN Returned(e.name, e.phase, cache[r][e.name])]_vars

\* Every workflow that stays in a terminal phase is reported, under Fairness.
EventuallyDelivered ==
    \A n \in Names :
        Completed(Current(n).phase)
            ~> ~Completed(Current(n).phase) \/ EventOf(n, Current(n)) \in delivered

\* The controller comes to rest: the versions its own patches write do not wake it again
\* for ever, and no name is retried for ever once the webhook answers.
EventuallyQuiet ==
    <>[](\A r \in leading : queue[r] = {} /\ delayed[r] = {} /\ pc[r] = "idle")

\* Claimed by workflow_controller.go:47-48 ("the annotation makes notification idempotent
\* per phase"): without any fault, no event is posted twice.
OncePerPhase == repeated = {}

Abstract == INSTANCE CompletionNotification WITH
    occurred <- UNION {Completions(n) : n \in Names},
    delivered <- delivered,
    recorded <- [n \in Names |-> Current(n).note]
ImplementsCompletionNotification == Abstract!Spec
=================================================================================
