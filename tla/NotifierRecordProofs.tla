-------------------------- MODULE NotifierRecordProofs --------------------------
(***************************************************************************)
(* Theorems about the annotation of the workflow-notifier: what is recorded *)
(* stays settled, is not sent again, and is there in the end.               *)
(***************************************************************************)
EXTENDS WorkflowNotifierProofs

--------------------------------------------------------------------------------
(* A replica that does not lead does nothing                                   *)

StoppedAt(r) ==
    r \notin leading =>
        /\ queue[r] = {} /\ delayed[r] = {} /\ pc[r] = "idle"
        /\ \A n \in Names : buffer[r][n] = <<>>

StoppedInv == \A r \in Replicas : StoppedAt(r)

\* What the memory of a replica consists of.
Untouched(r) ==
    /\ queue'[r] = queue[r] /\ delayed'[r] = delayed[r]
    /\ pc'[r] = pc[r] /\ job'[r] = job[r]
    /\ cache'[r] = cache[r] /\ buffer'[r] = buffer[r]
    /\ r \in leading <=> r \in leading'

\* Argo, the lease and the network change no replica.
LEMMA EnvironmentUntouched ==
  ASSUME (\E n \in Names : Argo(n)) \/ LoseLease \/ Network \/ UNCHANGED vars
  PROVE  UNCHANGED <<informer, queue, delayed, worker, leading>>
  BY DEF Argo, Submit, Delete, ChangePhase, ArgoMoves, LoseLease, Network, AcceptLate,
         LoseRequest, vars, informer, worker

\* A step of one replica leaves the memory of the others alone.
LEMMA OthersUntouched ==
  ASSUME WellFormed, NEW r \in Replicas, NEW q \in Replicas, q # r,
         Process(r) \/ Informer(r) \/ Reconcile(r)
  PROVE  Untouched(q)
<1> USE DEF WellFormed, TypeOK, Untouched
<1>1. CASE Process(r)
  BY <1>1 DEF Process, Elect, Crash, StepDown, Stop, worker
<1>2. CASE Informer(r)
  BY <1>2 DEF Informer, Relist, Observe, Resync, Dispatch, worker
<1>3. CASE Reconcile(r)
  <2>1. ASSUME NEW n \in Names, Requeue(r, n) \/ Start(r, n) PROVE Untouched(q)
    BY <2>1 DEF Requeue, Start, informer, worker
  <2>2. CASE Get(r)
    BY <2>2 DEF Get, Return, informer
  <2>3. CASE GetFails(r) \/ NotifyFails(r)
    BY <2>3 DEF GetFails, NotifyFails, ReturnError, informer
  <2>4. CASE Patch(r) \/ PatchFails(r)
    BY <2>4 DEF Patch, PatchFails, Return, ReturnError, informer
  <2>5. CASE NotifySucceeds(r)
    BY <2>5 DEF NotifySucceeds, informer
  <2> QED BY <1>3, <2>1, <2>2, <2>3, <2>4, <2>5 DEF Reconcile
<1> QED BY <1>1, <1>2, <1>3

\* The informer and the worker of a replica run only while it leads, and do not change that.
LEMMA RunningLeads ==
  ASSUME WellFormed, StoppedInv, NEW r \in Replicas, Informer(r) \/ Reconcile(r)
  PROVE  r \in leading /\ leading' = leading
<1> USE DEF StoppedInv, StoppedAt
<1>1. CASE Informer(r)
  BY <1>1 DEF Informer, Relist, Observe, Resync, Dispatch
<1>2. CASE Reconcile(r)
  BY <1>2 DEF Reconcile, Requeue, Start, Get, GetFails, NotifySucceeds, NotifyFails, Patch,
              PatchFails
<1> QED BY <1>1, <1>2

LEMMA NextStopped ==
  ASSUME WellFormed, StoppedInv, [Next]_vars
  PROVE  StoppedInv'
<1> SUFFICES ASSUME NEW q \in Replicas PROVE StoppedAt(q)'
  BY DEF StoppedInv
<1>1. StoppedAt(q)
  BY DEF StoppedInv
<1>2. Untouched(q) => StoppedAt(q)'
  BY <1>1 DEF StoppedAt, Untouched
<1>3. CASE (\E n \in Names : Argo(n)) \/ LoseLease \/ Network \/ UNCHANGED vars
  BY <1>2, <1>3, EnvironmentUntouched DEF Untouched, informer, worker
<1>4. ASSUME NEW r \in Replicas, Process(r) \/ Informer(r) \/ Reconcile(r), q # r
      PROVE  StoppedAt(q)'
  BY <1>2, <1>4, OthersUntouched
<1>5. CASE Informer(q) \/ Reconcile(q)
  BY <1>5, RunningLeads DEF StoppedAt
<1>6. CASE Process(q)
  BY <1>6 DEF Process, Elect, Crash, StepDown, Stop, StoppedAt, WellFormed, TypeOK
<1> QED BY <1>3, <1>4, <1>5, <1>6 DEF Next

LEMMA AlwaysStopped == Spec => [](WellFormed /\ StoppedInv)
<1>1. Init => StoppedInv
  BY DEF Init, StoppedInv, StoppedAt
<1> QED BY <1>1, InitWellFormed, NextWellFormed, NextStopped, PTL DEF Spec

--------------------------------------------------------------------------------
(* A settled completion stays settled                                          *)

\* A request joins those that may still arrive only while a worker posts it.
LEMMA NextInFlight ==
  ASSUME WellFormed, [Next]_vars, NEW e \in inFlight', e \notin inFlight
  PROVE  \E r \in Replicas : pc[r] = "notify" /\ e = EventOfJob(r)
<1>1. CASE (\E n \in Names : Argo(n)) \/ LoseLease \/ UNCHANGED vars
  BY <1>1 DEF Argo, Submit, Delete, ChangePhase, ArgoMoves, LoseLease, webhook, vars
<1>2. CASE Network
  BY <1>2 DEF Network, AcceptLate, LoseRequest
<1>3. ASSUME NEW r \in Replicas, Process(r)
      PROVE  pc[r] = "notify" /\ e = EventOfJob(r)
  BY <1>3 DEF Process, Elect, Crash, StepDown, Stop, webhook
<1>4. ASSUME NEW r \in Replicas, Informer(r) PROVE FALSE
  BY <1>4 DEF Informer, Relist, Observe, Resync, Dispatch, webhook
<1>5. ASSUME NEW r \in Replicas, Reconcile(r)
      PROVE  pc[r] = "notify" /\ e = EventOfJob(r)
  <2>1. CASE NotifySucceeds(r) \/ NotifyFails(r)
    BY <2>1 DEF NotifySucceeds, NotifyFails, GivesUpOn
  <2>2. CASE ~(NotifySucceeds(r) \/ NotifyFails(r))
    BY <1>5, <2>2 DEF Reconcile, Requeue, Start, Get, GetFails, Patch, PatchFails, webhook
  <2> QED BY <2>1, <2>2
<1> QED BY <1>1, <1>2, <1>3, <1>4, <1>5 DEF Next

\* A worker goes on to post a completion only after it has read it, unrecorded, in the cache.
LEMMA NextPosting ==
  ASSUME WellFormed, [Next]_vars, NEW r \in Replicas, pc'[r] \in {"notify", "patch"}
  PROVE  \/ pc[r] \in {"notify", "patch"} /\ job'[r] = job[r]
         \/ /\ Get(r) /\ pc[r] = "get" /\ pc'[r] = "notify"
            /\ job'[r].name = job[r].name /\ job'[r].version = cache[r][job[r].name]
            /\ NeedsNotification(Version(job[r].name, cache[r][job[r].name]))
<1> USE DEF WellFormed, TypeOK
<1>1. CASE (\E n \in Names : Argo(n)) \/ LoseLease \/ Network \/ UNCHANGED vars
  BY <1>1, EnvironmentUntouched DEF worker
<1>2. ASSUME NEW q \in Replicas, Process(q) \/ Informer(q) \/ Reconcile(q), q # r
      PROVE  pc'[r] = pc[r] /\ job'[r] = job[r]
  BY <1>2, OthersUntouched DEF Untouched
<1>3. CASE Process(r) \/ Informer(r)
  BY <1>3 DEF Process, Elect, Crash, StepDown, Stop, Informer, Relist, Observe, Resync,
              Dispatch, worker
<1>4. CASE Reconcile(r)
  <2>1. ASSUME NEW n \in Names, Requeue(r, n) \/ Start(r, n)
        PROVE  UNCHANGED worker \/ pc'[r] = "get"
    BY <2>1 DEF Requeue, Start
  <2>2. GetFails(r) \/ NotifyFails(r) \/ Patch(r) \/ PatchFails(r) => pc'[r] = "idle"
    BY DEF GetFails, NotifyFails, Patch, PatchFails, Return, ReturnError
  <2>3. NotifySucceeds(r) => pc[r] = "notify" /\ job'[r] = job[r]
    BY DEF NotifySucceeds
  <2>4. ASSUME Get(r)
        PROVE  /\ pc[r] = "get" /\ pc'[r] = "notify"
               /\ job'[r].name = job[r].name /\ job'[r].version = cache[r][job[r].name]
               /\ NeedsNotification(Version(job[r].name, cache[r][job[r].name]))
    <3>1. job[r] \in [name : Names, version : Nat]
      BY <2>4 DEF Get, JobInv, JobOK
    <3>2. job' = [job EXCEPT ![r].version = cache[r][job[r].name]]
          /\ pc[r] = "get" /\ pc'[r] = "notify"
          /\ NeedsNotification(Version(job[r].name, cache[r][job[r].name]))
      BY <2>4 DEF Get, Return
    <3> QED BY <3>1, <3>2
  <2> QED BY <1>4, <2>1, <2>2, <2>3, <2>4 DEF Reconcile, worker
<1> QED BY <1>1, <1>2, <1>3, <1>4 DEF Next

\* The cache of a leader moves forward, to a version that exists.
LEMMA NextCached ==
  ASSUME WellFormed, StoppedInv, [Next]_vars, NEW r \in leading', NEW n \in Names
  PROVE  /\ cache'[r][n] \in Nat /\ cache'[r][n] <= Len(log[n])
         /\ r \in leading => cache[r][n] <= cache'[r][n]
         /\ r \notin leading => cache'[r][n] = Len(log[n]) /\ pc'[r] = "idle"
<1> USE DEF WellFormed, TypeOK, CacheInv
<1>t. r \in Replicas /\ cache[r][n] \in Nat /\ cache[r][n] <= Len(log[n]) /\ Len(log[n]) \in Nat
  <2>1. WellFormed'
    BY NextWellFormed
  <2>2. log[n] \in Seq(Objects)
    OBVIOUS
  <2>3. Len(log[n]) \in Nat
    BY <2>2, LenProperties
  <2> QED BY <2>1, <2>3
<1>1. CASE (\E m \in Names : Argo(m)) \/ LoseLease \/ Network \/ UNCHANGED vars
  BY <1>1, <1>t, EnvironmentUntouched DEF informer
<1>2. ASSUME NEW q \in Replicas, Process(q) \/ Informer(q) \/ Reconcile(q), q # r
      PROVE  cache'[r] = cache[r] /\ r \in leading
  BY <1>2, <1>t, OthersUntouched DEF Untouched
<1>3. CASE Process(r)
  BY <1>3, <1>t DEF Process, Elect, Crash, StepDown, Stop, StoppedInv, StoppedAt, worker
<1>4. CASE Informer(r)
  <2>1. r \in leading
    BY <1>4, <1>t, RunningLeads
  <2>2. CASE Relist(r)
    BY <1>t, <2>1, <2>2 DEF Relist
  <2>3. ASSUME NEW m \in Names, Resync(r, m) \/ Dispatch(r, m) PROVE cache' = cache
    BY <2>3 DEF Resync, Dispatch
  <2>4. ASSUME NEW m \in Names, Observe(r, m)
        PROVE  /\ cache'[r][n] \in Nat /\ cache'[r][n] <= Len(log[n])
               /\ cache[r][n] <= cache'[r][n]
    <3>1. CASE m = n
      BY <2>4, <1>t, <3>1 DEF Observe
    <3>2. CASE m # n
      BY <2>4, <1>t, <3>2 DEF Observe
    <3> QED BY <3>1, <3>2
  <2>5. cache[r][n] <= cache[r][n]
    BY <1>t
  <2>6. CASE \E m \in Names : Observe(r, m)
    BY <2>1, <2>4, <2>6
  <2>7. CASE \E m \in Names : Resync(r, m) \/ Dispatch(r, m)
    BY <1>t, <2>1, <2>3, <2>5, <2>7
  <2> QED BY <1>4, <2>2, <2>6, <2>7 DEF Informer
<1>5. CASE Reconcile(r)
  <2>1. r \in leading
    BY <1>5, <1>t, RunningLeads
  <2>2. cache' = cache
    BY <1>5 DEF Reconcile, Requeue, Start, Get, GetFails, NotifySucceeds, NotifyFails, Patch,
                PatchFails, informer
  <2> QED BY <1>t, <2>1, <2>2
<1> QED BY <1>1, <1>2, <1>3, <1>4, <1>5, <1>t DEF Next

LEMMA NextSettled ==
  ASSUME WellFormed, StoppedInv, [Next]_vars, NEW n \in Names, Settled(n), log'[n] = log[n]
  PROVE  Settled(n)'
<1>1. Current(n)' = Current(n) /\ Completed(Current(n).phase) /\ Recorded(Current(n))
  BY DEF Current, Version, Settled
<1>2. ~NeedsNotification(Current(n))
  BY <1>1 DEF NeedsNotification
<1>3. ASSUME NEW e \in inFlight', e.name = n PROVE FALSE
  <2>1. e \notin inFlight
    BY <1>3 DEF Settled
  <2>2. PICK r \in Replicas : pc[r] = "notify" /\ e = EventOfJob(r)
    BY <2>1, NextInFlight
  <2>3. r \in leading /\ job[r].name = n
    BY <1>3, <2>2, EventOfJobType DEF StoppedInv, StoppedAt
  <2> QED BY <2>2, <2>3 DEF Settled
<1>4. ASSUME NEW r \in leading'
      PROVE  cache'[r][n] = Len(log[n])
  <2>1. r \in leading => cache[r][n] = Len(log[n])
    BY DEF Settled
  <2>2. /\ cache'[r][n] \in Nat /\ cache'[r][n] <= Len(log[n]) /\ Len(log[n]) \in Nat
        /\ r \in leading => cache[r][n] <= cache'[r][n]
        /\ r \notin leading => cache'[r][n] = Len(log[n])
    <3>1. log[n] \in Seq(Objects)
      BY DEF WellFormed, TypeOK
    <3> QED BY <3>1, NextCached, LenProperties
  <2> QED BY <2>1, <2>2
<1>5. ASSUME NEW r \in leading', pc'[r] \in {"notify", "patch"}, job'[r].name = n PROVE FALSE
  <2>1. r \in Replicas
    BY NextWellFormed DEF WellFormed, TypeOK
  <2>2. CASE pc[r] \in {"notify", "patch"} /\ job'[r] = job[r]
    BY <1>5, <2>1, <2>2 DEF Settled, StoppedInv, StoppedAt
  <2>3. CASE /\ pc[r] = "get" /\ job'[r].name = job[r].name
             /\ NeedsNotification(Version(job[r].name, cache[r][job[r].name]))
    <3>1. r \in leading /\ job[r].name = n
      BY <1>5, <2>1, <2>3 DEF StoppedInv, StoppedAt
    <3>2. Version(n, cache[r][n]) = Current(n)
      BY <3>1 DEF Settled, Current
    <3> QED BY <1>2, <2>3, <3>1, <3>2
  <2> QED BY <1>5, <2>1, <2>2, <2>3, NextPosting
<1> QED BY <1>1, <1>3, <1>4, <1>5 DEF Settled, Recorded, Completed

\* "Restarts and resyncs do not resend" (controller/README.md:16), for any number of
\* workflows, replicas and faults, also when names are reused: once a completion is
\* recorded and every process has seen that, only a new version of the workflow makes the
\* controller act on it again.
THEOREM SettledStaysSettled == Spec => SettledIsFinal
<1>1. WellFormed /\ StoppedInv /\ [Next]_vars =>
        [\A n \in Names : Settled(n) /\ log'[n] = log[n] => Settled(n)']_vars
  BY NextSettled
<1> QED BY <1>1, AlwaysStopped, PTL DEF Spec, SettledIsFinal

--------------------------------------------------------------------------------
(* One leader at a time: the order in which phases are recorded                *)

\* Two replicas never run the controller at once: there is one, or the lease is never lost
\* by a living leader.  (A deposed leader may overwrite the record of its successor.)
Exclusive == "lease" \notin Faults \/ \A q, r \in Replicas : q = r

HolderInv == "lease" \notin Faults => \A r \in leading : holder = r

LEMMA NextHolder ==
  ASSUME WellFormed, StoppedInv, HolderInv, [Next]_vars
  PROVE  HolderInv'
<1> SUFFICES ASSUME "lease" \notin Faults, NEW q \in leading' PROVE holder' = q
  BY DEF HolderInv
<1>1. \A r \in leading : holder = r
  BY DEF HolderInv
<1>2. CASE LoseLease
  BY <1>2 DEF LoseLease, Fault
<1>3. CASE (\E n \in Names : Argo(n)) \/ Network \/ UNCHANGED vars
  BY <1>1, <1>3 DEF Argo, Submit, Delete, ChangePhase, ArgoMoves, Network, AcceptLate,
                    LoseRequest, vars, api
<1>4. ASSUME NEW r \in Replicas, Informer(r) \/ Reconcile(r) PROVE holder' = q
  <2>1. leading' = leading
    BY <1>4, RunningLeads
  <2>2. CASE Informer(r)
    BY <1>1, <2>1, <2>2 DEF Informer, Relist, Observe, Resync, Dispatch, api
  <2>3. CASE Reconcile(r)
    BY <1>1, <2>1, <2>3 DEF Reconcile, Requeue, Start, Get, GetFails, NotifySucceeds,
                            NotifyFails, Patch, PatchFails, api
  <2> QED BY <1>4, <2>2, <2>3
<1>5. ASSUME NEW r \in Replicas, Process(r) PROVE holder' = q
  <2>1. CASE Elect(r)
    BY <1>1, <2>1, NoReplicaAssumption DEF Elect, WellFormed, TypeOK
  <2>2. CASE Crash(r) \/ StepDown(r)
    BY <1>1, <2>2 DEF Crash, StepDown, Stop
  <2> QED BY <1>5, <2>1, <2>2 DEF Process
<1> QED BY <1>2, <1>3, <1>4, <1>5 DEF Next

LEMMA OneLeader ==
  ASSUME Exclusive, WellFormed, HolderInv, NEW q \in leading, NEW r \in leading
  PROVE  q = r
  BY DEF Exclusive, HolderInv, WellFormed, TypeOK

\* The workflow was in this phase within its first k versions.
WasIn(n, phase, k) == \E i \in 1 .. k : log[n][i].phase = phase

\* What is recorded was a phase of the workflow, which every leader has in its cache and
\* every worker about to record another phase had in its cache when it read it.
SourceAt(n, note) ==
    /\ WasIn(n, note, Len(log[n]))
    /\ \A r \in leading : WasIn(n, note, cache[r][n])
    /\ \A r \in Replicas :
          pc[r] \in {"notify", "patch"} /\ job[r].name = n => WasIn(n, note, job[r].version)

SourceInv ==
    \A n \in Names : \A k \in DOMAIN log[n] :
        log[n][k].note # NoNote => SourceAt(n, log[n][k].note)

\* The record changes from one phase to another in the order the workflow was in them.
OrderInv ==
    \A n \in Names : \A k, l \in DOMAIN log[n] :
        k < l /\ log[n][k].note # NoNote /\ log[n][l].note \notin {NoNote, log[n][k].note}
            => Returned(n, log[n][k].note, l)

\* What was once true of the first versions of a workflow stays true.
LEMMA WasInStable ==
  ASSUME LogExtends, NEW n \in Names, NEW phase, NEW k \in 0 .. Len(log[n]),
         NEW l \in k .. Len(log'[n]), WasIn(n, phase, k)
  PROVE  WasIn(n, phase, l)'
<1>1. PICK i \in 1 .. k : log[n][i].phase = phase
  BY DEF WasIn
<1>2. Len(log[n]) \in Nat /\ Len(log'[n]) \in Nat /\ i \in 1 .. Len(log[n]) /\ i \in 1 .. l
  BY DEF LogExtends
<1>3. log'[n][i] = log[n][i]
  BY <1>2 DEF LogExtends
<1> QED BY <1>1, <1>2, <1>3 DEF WasIn

LEMMA ReturnedStable ==
  ASSUME LogExtends, NEW n \in Names, NEW phase, NEW k \in 0 .. Len(log[n]),
         NEW l \in k .. Len(log'[n]), Returned(n, phase, k)
  PROVE  Returned(n, phase, l)'
<1>1. PICK i \in 1 .. k, j \in 1 .. k :
        /\ i < j /\ log[n][i].phase = phase
        /\ Completed(log[n][j].phase) /\ log[n][j].phase # phase
  BY DEF Returned
<1>2. /\ Len(log[n]) \in Nat /\ Len(log'[n]) \in Nat
      /\ i \in 1 .. Len(log[n]) /\ j \in 1 .. Len(log[n]) /\ i \in 1 .. l /\ j \in 1 .. l
  BY DEF LogExtends
<1>3. log'[n][i] = log[n][i] /\ log'[n][j] = log[n][j]
  BY <1>2 DEF LogExtends
<1> QED BY <1>1, <1>2, <1>3 DEF Returned, Completed

\* A worker read its version in the cache, which has not gone back since.
JobSeenInv ==
    \A r \in Replicas :
        pc[r] \in {"notify", "patch"} => job[r].version <= cache[r][job[r].name]

RecordInv == StoppedInv /\ HolderInv /\ JobSeenInv /\ SourceInv /\ OrderInv

LEMMA NextJobSeen ==
  ASSUME WellFormed, StoppedInv, JobSeenInv, [Next]_vars
  PROVE  JobSeenInv'
<1> SUFFICES ASSUME NEW r \in Replicas, pc'[r] \in {"notify", "patch"}
             PROVE  job'[r].version <= cache'[r][job'[r].name]
  BY DEF JobSeenInv
<1>1. r \in leading' /\ r \in leading
  <2>1. r \in leading'
    BY NextStopped DEF StoppedInv, StoppedAt
  <2>2. pc[r] # "idle"
    BY NextPosting
  <2> QED BY <2>1, <2>2 DEF StoppedInv, StoppedAt
<1>2. job[r].name \in Names /\ job[r].version \in Nat
  <2>1. pc[r] # "idle"
    BY NextPosting
  <2> QED BY <2>1 DEF WellFormed, JobInv, JobOK
<1>3. /\ cache[r][job[r].name] \in Nat /\ cache'[r][job[r].name] \in Nat
      /\ cache[r][job[r].name] <= cache'[r][job[r].name]
  BY <1>1, <1>2, NextCached DEF WellFormed, TypeOK
<1>4. CASE pc[r] \in {"notify", "patch"} /\ job'[r] = job[r]
  BY <1>2, <1>3, <1>4 DEF JobSeenInv
<1>5. CASE job'[r].name = job[r].name /\ job'[r].version = cache[r][job[r].name]
  BY <1>3, <1>5
<1> QED BY <1>4, <1>5, NextPosting

\* Whatever was recorded once keeps its source, for every leader and worker.
LEMMA SourceStable ==
  ASSUME WellFormed, StoppedInv, [Next]_vars, NEW n \in Names, NEW note, SourceAt(n, note)
  PROVE  SourceAt(n, note)'
<1>1. LogExtends /\ Len(log[n]) \in Nat /\ Len(log'[n]) \in Nat /\ Len(log[n]) <= Len(log'[n])
  <2>1. LogType
    BY DEF WellFormed, TypeOK, LogType
  <2>2. LogExtends
    BY <2>1, NextLogStep, LogStepExtends
  <2> QED BY <2>2 DEF LogExtends
<1>2. WasIn(n, note, Len(log[n]))'
  BY <1>1, WasInStable DEF SourceAt
<1>3. ASSUME NEW r \in leading' PROVE WasIn(n, note, cache[r][n])'
  <2>1. r \in leading => cache[r][n] \in Nat /\ cache[r][n] <= Len(log[n])
    BY DEF WellFormed, TypeOK, CacheInv
  <2>2. CASE r \in leading
    <3>1. cache[r][n] \in 0 .. Len(log[n]) /\ cache'[r][n] \in cache[r][n] .. Len(log'[n])
      BY <1>1, <2>1, <2>2, NextCached
    <3> QED BY <1>1, <2>2, <3>1, WasInStable DEF SourceAt
  <2>3. CASE r \notin leading
    <3>1. cache'[r][n] = Len(log[n])
      BY <2>3, NextCached
    <3>2. Len(log[n]) \in 0 .. Len(log[n]) /\ cache'[r][n] \in Len(log[n]) .. Len(log'[n])
      BY <1>1, <3>1
    <3> QED BY <1>1, <3>2, WasInStable DEF SourceAt
  <2> QED BY <2>2, <2>3
<1>4. ASSUME NEW r \in Replicas, pc'[r] \in {"notify", "patch"}, job'[r].name = n
      PROVE  WasIn(n, note, job[r].version)'
  <2>1. CASE pc[r] \in {"notify", "patch"} /\ job'[r] = job[r]
    <3>1. job[r].version \in 0 .. Len(log[n]) /\ job'[r].version \in job[r].version .. Len(log'[n])
      BY <1>1, <1>4, <2>1 DEF WellFormed, JobInv, JobOK
    <3> QED BY <1>1, <1>4, <2>1, <3>1, WasInStable DEF SourceAt
  <2>2. CASE /\ pc[r] = "get" /\ job'[r].name = job[r].name
             /\ job'[r].version = cache[r][job[r].name]
    <3>1. r \in leading /\ job'[r].version = cache[r][n]
      BY <1>4, <2>2 DEF StoppedInv, StoppedAt
    <3>2. cache[r][n] \in 0 .. Len(log[n]) /\ job'[r].version \in cache[r][n] .. Len(log'[n])
      BY <1>1, <3>1 DEF WellFormed, TypeOK, CacheInv
    <3> QED BY <1>1, <3>1, <3>2, WasInStable DEF SourceAt
  <2> QED BY <1>4, <2>1, <2>2, NextPosting
<1> QED BY <1>2, <1>3, <1>4 DEF SourceAt

\* The version a step writes carries no record, the record of the version before it, or the
\* phase of the version a worker about to patch has read.
LEMMA NextVersion ==
  ASSUME WellFormed, [Next]_vars, NEW n \in Names, NEW l \in DOMAIN log'[n],
         l \notin DOMAIN log[n]
  PROVE  /\ l = Len(log[n]) + 1 /\ Len(log[n]) \in Nat
         /\ \/ log'[n][l].note = NoNote
            \/ Len(log[n]) \in DOMAIN log[n] /\ log'[n][l].note = log[n][Len(log[n])].note
            \/ \E r \in Replicas :
                  /\ pc[r] = "patch" /\ job[r].name = n
                  /\ job[r].version \in DOMAIN log[n]
                  /\ Completed(log[n][job[r].version].phase)
                  /\ log'[n][l].note = log[n][job[r].version].phase
<1>1. LogType /\ LogType'
  <2>1. LogType
    BY DEF WellFormed, TypeOK, LogType
  <2> QED BY <2>1, NextLogStep, LogStepExtends
<1>2. log[n] \in Seq(Objects) /\ log'[n] \in Seq(Objects)
  BY <1>1 DEF LogType
<1>3. PICK obj \in Objects : Write(n, obj) /\ Origin(n, obj)
  BY <1>1, <1>2, NextOriginStep DEF OriginStep, Write, LogType
<1>4. log'[n] = Append(log[n], obj)
  BY <1>1, <1>3 DEF Write, LogType
<1>5. l = Len(log[n]) + 1 /\ Len(log[n]) \in Nat /\ log'[n][l] = obj
  BY <1>2, <1>4
<1>6. ASSUME Present(Current(n)), obj.note = Current(n).note
      PROVE  Len(log[n]) \in DOMAIN log[n] /\ obj.note = log[n][Len(log[n])].note
  <2>1. Len(log[n]) # 0
    BY <1>6 DEF Present, Current, Version, Absent
  <2> QED BY <1>2, <1>6, <2>1 DEF Current, Version
<1>7. ASSUME NEW r \in Replicas, pc[r] = "patch", job[r].name = n, obj.note = EventOfJob(r).phase
      PROVE  /\ job[r].version \in DOMAIN log[n]
             /\ Completed(log[n][job[r].version].phase)
             /\ obj.note = log[n][job[r].version].phase
  <2>1. /\ job[r].version \in 1 .. Len(log[n])
        /\ Completed(Version(n, job[r].version).phase)
    BY <1>7 DEF WellFormed, JobInv, JobOK
  <2>2. Version(n, job[r].version) = log[n][job[r].version]
    BY <2>1 DEF Version
  <2>3. job[r].version \in DOMAIN log[n]
    BY <1>2, <2>1
  <2> QED BY <1>7, <2>1, <2>2, <2>3 DEF EventOfJob, EventOf
<1> QED BY <1>3, <1>5, <1>6, <1>7, AbsentIsObject DEF Origin

\* The worker that records a phase is the only one, and its replica the only leader.
LEMMA NewSource ==
  ASSUME Exclusive, WellFormed, StoppedInv, HolderInv, JobSeenInv, [Next]_vars,
         NEW n \in Names, NEW r \in Replicas, pc[r] = "patch", job[r].name = n,
         job[r].version \in DOMAIN log[n], NEW phase, phase = log[n][job[r].version].phase
  PROVE  SourceAt(n, phase)'
<1>v. PICK v : v = job[r].version
  OBVIOUS
<1>1. /\ LogExtends /\ Len(log[n]) \in Nat /\ Len(log'[n]) \in Nat
      /\ v \in 1 .. Len(log[n]) /\ v \in 1 .. Len(log'[n]) /\ log'[n][v].phase = phase
  <2>1. LogType
    BY DEF WellFormed, TypeOK, LogType
  <2>2. LogExtends
    BY <2>1, NextLogStep, LogStepExtends
  <2>3. DOMAIN log[n] = 1 .. Len(log[n])
    BY <2>1 DEF LogType
  <2> QED BY <1>v, <2>2, <2>3 DEF LogExtends
<1>2. r \in leading
  BY DEF StoppedInv, StoppedAt
<1>3. \A q \in leading : q = r
  BY <1>2, OneLeader
<1>4. WasIn(n, phase, Len(log[n]))'
  BY <1>1 DEF WasIn
<1>5. ASSUME NEW q \in leading' PROVE \E i \in 1 .. cache'[q][n] : log'[n][i].phase = phase
  <2>1. CASE q \in leading
    <3>1. q = r /\ v <= cache[q][n] /\ cache[q][n] \in Nat
      BY <1>3, <1>v, <2>1 DEF JobSeenInv, WellFormed, TypeOK
    <3>2. cache'[q][n] \in Nat /\ cache[q][n] <= cache'[q][n]
      BY <2>1, NextCached
    <3>3. v \in 1 .. cache'[q][n]
      BY <1>1, <3>1, <3>2
    <3> QED BY <1>1, <3>3
  <2>2. CASE q \notin leading
    <3>1. cache'[q][n] = Len(log[n])
      BY <2>2, NextCached
    <3> QED BY <1>1, <3>1
  <2> QED BY <2>1, <2>2
<1>6. ASSUME NEW q \in Replicas, pc'[q] \in {"notify", "patch"}, job'[q].name = n
      PROVE  \E i \in 1 .. job'[q].version : log'[n][i].phase = phase
  <2>1. pc[q] # "idle"
    BY <1>6, NextPosting
  <2>2. q = r
    BY <1>3, <2>1 DEF StoppedInv, StoppedAt
  <2>3. job'[q] = job[q]
    BY <1>6, <2>2, NextPosting
  <2> QED BY <1>1, <1>v, <2>2, <2>3
<1> QED BY <1>4, <1>5, <1>6 DEF SourceAt, WasIn

LEMMA NextSource ==
  ASSUME Exclusive, WellFormed, RecordInv, [Next]_vars
  PROVE  SourceInv'
<1> USE DEF RecordInv
<1> SUFFICES ASSUME NEW n \in Names, NEW l \in DOMAIN log'[n],
                    NEW note, note = log'[n][l].note, note # NoNote
             PROVE  SourceAt(n, note)'
  BY DEF SourceInv, SourceAt, WasIn
<1>1. ASSUME NEW k \in DOMAIN log[n], note = log[n][k].note PROVE SourceAt(n, note)'
  BY <1>1, SourceStable DEF SourceInv
<1>2. CASE l \in DOMAIN log[n]
  <2>1. LogType
    BY DEF WellFormed, TypeOK, LogType
  <2>2. log'[n][l] = log[n][l]
    BY <1>2, <2>1, NextLogStep, LogStepExtends DEF LogExtends, LogType
  <2> QED BY <1>1, <1>2, <2>2
<1>3. ASSUME NEW r \in Replicas, pc[r] = "patch", job[r].name = n,
             job[r].version \in DOMAIN log[n], note = log[n][job[r].version].phase
      PROVE  SourceAt(n, note)'
  BY <1>3, NewSource
<1> QED BY <1>1, <1>2, <1>3, NextVersion

LEMMA NextOrder ==
  ASSUME Exclusive, WellFormed, RecordInv, [Next]_vars
  PROVE  OrderInv'
<1> USE DEF RecordInv
<1>1. LogExtends /\ LogType /\ LogType'
  <2>1. LogType
    BY DEF WellFormed, TypeOK, LogType
  <2> QED BY <2>1, NextLogStep, LogStepExtends
<1> SUFFICES ASSUME NEW n \in Names, NEW k \in DOMAIN log'[n], NEW l \in DOMAIN log'[n], k < l,
                    NEW note, note = log'[n][k].note, note # NoNote,
                    log'[n][l].note \notin {NoNote, note}
             PROVE  Returned(n, note, l)'
  BY DEF OrderInv, Returned
<1>2. /\ DOMAIN log[n] = 1 .. Len(log[n]) /\ DOMAIN log'[n] = 1 .. Len(log'[n])
      /\ Len(log[n]) \in Nat /\ Len(log'[n]) \in Nat /\ Len(log[n]) <= Len(log'[n])
  BY <1>1 DEF LogType, LogExtends
<1>3. \A i \in DOMAIN log[n] : i \in DOMAIN log'[n] /\ log'[n][i] = log[n][i]
  BY <1>1, <1>2 DEF LogExtends
<1>4. k \in DOMAIN log[n]
  <2>1. l \in DOMAIN log[n] \/ l = Len(log[n]) + 1
    BY NextVersion
  <2> QED BY <1>2, <2>1
<1>5. log[n][k].note = note
  BY <1>3, <1>4
<1>6. ASSUME NEW m \in DOMAIN log[n], m <= l, l <= m + 1, log'[n][l].note = log[n][m].note
      PROVE  Returned(n, note, l)'
  <2>1. k < m
    BY <1>2, <1>4, <1>5, <1>6
  <2>2. Returned(n, note, m)
    BY <1>4, <1>5, <1>6, <2>1 DEF OrderInv
  <2>3. m \in 0 .. Len(log[n]) /\ l \in m .. Len(log'[n])
    BY <1>2, <1>6
  <2> QED BY <1>1, <2>2, <2>3, ReturnedStable
<1>7. CASE l \in DOMAIN log[n]
  BY <1>2, <1>3, <1>6, <1>7
<1>8. CASE l \notin DOMAIN log[n]
  <2>1. l = Len(log[n]) + 1
    BY <1>8, NextVersion
  <2>2. CASE Len(log[n]) \in DOMAIN log[n] /\ log'[n][l].note = log[n][Len(log[n])].note
    BY <1>2, <1>6, <2>1, <2>2
  <2>3. ASSUME NEW r \in Replicas, pc[r] = "patch", job[r].name = n,
               job[r].version \in DOMAIN log[n],
               Completed(log[n][job[r].version].phase),
               log'[n][l].note = log[n][job[r].version].phase
        PROVE  Returned(n, note, l)'
    <3>1. PICK v \in DOMAIN log[n] : v = job[r].version
      BY <2>3
    <3>2. WasIn(n, note, v)
      BY <1>4, <1>5, <2>3, <3>1 DEF SourceInv, SourceAt
    <3>3. PICK i \in 1 .. v : log[n][i].phase = note
      BY <3>2 DEF WasIn
    <3>4. /\ i \in DOMAIN log[n] /\ i \in 1 .. l /\ v \in 1 .. l
          /\ log[n][v].phase # note /\ Completed(log[n][v].phase)
      <4>1. i \in DOMAIN log[n] /\ i \in 1 .. l /\ v \in 1 .. l
        BY <1>2, <2>1
      <4>2. log[n][v].phase # note /\ Completed(log[n][v].phase)
        BY <1>2, <2>1, <2>3, <3>1
      <4> QED BY <4>1, <4>2
    <3>5. i < v
      BY <1>2, <3>3, <3>4
    <3> QED BY <1>3, <3>3, <3>4, <3>5 DEF Returned, Completed
  <2> QED BY <1>8, <2>2, <2>3, NextVersion
<1> QED BY <1>7, <1>8

--------------------------------------------------------------------------------
(* What is recorded is not sent again                                          *)

\* The uid is older than the versions that carry it, and the annotation of a workflow is
\* never removed while the workflow exists.
UidBound ==
    \A n \in Names : \A k \in DOMAIN log[n] :
        /\ log[n][k].uid <= k
        /\ log[n][k].uid = 0 => log[n][k].note = NoNote

NoteKept ==
    \A n \in Names : \A k, l \in DOMAIN log[n] :
        k < l /\ log[n][k].uid = log[n][l].uid /\ log[n][k].note # NoNote
            => log[n][l].note # NoNote

LEMMA NextNoteKept ==
  ASSUME WellFormed, UidBound, NoteKept, [Next]_vars
  PROVE  UidBound' /\ NoteKept'
<1>1. LogExtends /\ LogType /\ LogType'
  <2>1. LogType
    BY DEF WellFormed, TypeOK, LogType
  <2> QED BY <2>1, NextLogStep, LogStepExtends
<1>2. ASSUME NEW n \in Names
      PROVE  /\ DOMAIN log[n] = 1 .. Len(log[n]) /\ Len(log[n]) \in Nat
             /\ \A i \in DOMAIN log[n] : i \in DOMAIN log'[n] /\ log'[n][i] = log[n][i]
             /\ \A i \in DOMAIN log[n] : log[n][i].uid \in Nat
  <2>1. log[n] \in Seq(Objects) /\ log'[n] \in Seq(Objects)
    BY <1>1 DEF LogType
  <2>2. \A i \in DOMAIN log[n] : log[n][i] \in Objects
    BY <2>1
  <2>3. \A i \in DOMAIN log[n] : log[n][i].uid \in Nat
    BY <2>2 DEF Objects
  <2>4. /\ DOMAIN log[n] = 1 .. Len(log[n]) /\ Len(log[n]) \in Nat
        /\ DOMAIN log'[n] = 1 .. Len(log'[n])
    BY <2>1
  <2> QED BY <1>1, <2>3, <2>4 DEF LogExtends
\* A version that is not in the log yet.
<1>3. ASSUME NEW n \in Names, NEW l \in DOMAIN log'[n], l \notin DOMAIN log[n]
      PROVE  /\ l = Len(log[n]) + 1
             /\ \/ log'[n][l].uid = 0 /\ log'[n][l].note = NoNote
                \/ log'[n][l].uid = l
                \/ /\ Len(log[n]) \in DOMAIN log[n]
                   /\ log'[n][l].uid = log[n][Len(log[n])].uid
                   /\ log[n][Len(log[n])].uid # 0
                   /\ log'[n][l].note \in {log[n][Len(log[n])].note} \cup Phases
  <2>1. PICK obj \in Objects : Write(n, obj) /\ Origin(n, obj)
    BY <1>1, <1>3, NextOriginStep DEF OriginStep, Write, LogType
  <2>2. log'[n] = Append(log[n], obj) /\ log[n] \in Seq(Objects)
    BY <1>1, <2>1 DEF Write, LogType
  <2>3. l = Len(log[n]) + 1 /\ log'[n][l] = obj
    BY <1>3, <2>2
  <2>4. ASSUME Present(Current(n))
        PROVE  Len(log[n]) \in DOMAIN log[n] /\ Current(n) = log[n][Len(log[n])]
    <3>1. Len(log[n]) # 0
      BY <2>4 DEF Present, Current, Version, Absent
    <3> QED BY <2>2, <3>1 DEF Current, Version
  <2>5. ASSUME NEW r \in Replicas, pc[r] = "patch", obj.note = EventOfJob(r).phase
        PROVE  obj.note \in Phases
    BY <2>5, EventOfJobType DEF Events
  <2> QED BY <2>1, <2>3, <2>4, <2>5 DEF Origin, Absent, Present
<1>4. UidBound'
  <2> SUFFICES ASSUME NEW n \in Names, NEW l \in DOMAIN log'[n]
               PROVE  log'[n][l].uid <= l /\ (log'[n][l].uid = 0 => log'[n][l].note = NoNote)
    BY DEF UidBound
  <2>1. CASE l \in DOMAIN log[n]
    BY <1>2, <2>1 DEF UidBound
  <2>2. CASE l \notin DOMAIN log[n]
    <3>1. Len(log[n]) \in Nat
      BY <1>2
    <3>2. Len(log[n]) \in DOMAIN log[n] =>
            log[n][Len(log[n])].uid <= Len(log[n]) /\ log[n][Len(log[n])].uid \in Nat
      BY <1>2 DEF UidBound
    <3> QED BY <1>3, <2>2, <3>1, <3>2
  <2> QED BY <2>1, <2>2
<1>5. NoteKept'
  <2> SUFFICES ASSUME NEW n \in Names, NEW k \in DOMAIN log'[n], NEW l \in DOMAIN log'[n], k < l,
                      log'[n][k].uid = log'[n][l].uid, log'[n][k].note # NoNote
               PROVE  log'[n][l].note # NoNote
    BY DEF NoteKept
  <2>1. k \in DOMAIN log[n]
    <3>1. DOMAIN log'[n] = 1 .. Len(log'[n])
      BY <1>1 DEF LogType
    <3>2. l \in DOMAIN log[n] \/ l = Len(log[n]) + 1
      BY <1>3, <3>1
    <3> QED BY <1>2, <3>1, <3>2
  <2>2. log'[n][k] = log[n][k]
    BY <1>2, <2>1
  <2>3. CASE l \in DOMAIN log[n]
    BY <1>2, <2>1, <2>2, <2>3 DEF NoteKept
  <2>4. CASE l \notin DOMAIN log[n]
    <3>1. log[n][k].uid # 0
      BY <2>1, <2>2 DEF UidBound
    <3>2. log[n][k].uid # l
      BY <1>2, <1>3, <2>1, <2>4 DEF UidBound
    <3>3. /\ Len(log[n]) \in DOMAIN log[n] /\ log[n][k].uid = log[n][Len(log[n])].uid
          /\ log'[n][l].note \in {log[n][Len(log[n])].note} \cup Phases
      BY <1>3, <2>2, <2>4, <3>1, <3>2
    <3>4. log[n][Len(log[n])].note # NoNote
      <4>1. CASE k = Len(log[n])
        BY <2>2, <4>1
      <4>2. CASE k # Len(log[n])
        <5>1. k < Len(log[n])
          BY <1>2, <2>1, <4>2
        <5> QED BY <2>1, <2>2, <3>3, <5>1 DEF NoteKept
      <4> QED BY <4>1, <4>2
    <3>5. NoNote \notin Phases
      BY DEF NoNote, Phases
    <3> QED BY <3>3, <3>4, <3>5
  <2> QED BY <2>3, <2>4
<1> QED BY <1>4, <1>5

KeepsRecords == WellFormed /\ RecordInv /\ UidBound /\ NoteKept

LEMMA AlwaysKeepsRecords ==
  ASSUME Exclusive
  PROVE  Spec => []KeepsRecords
<1>1. Init => KeepsRecords
  <2> SUFFICES ASSUME Init PROVE KeepsRecords
    OBVIOUS
  <2>1. StoppedInv /\ HolderInv /\ JobSeenInv
    BY DEF Init, StoppedInv, StoppedAt, HolderInv, JobSeenInv
  <2>2. ASSUME NEW n \in Names PROVE DOMAIN log[n] = {}
    <3>1. log[n] = <<>> /\ Len(log[n]) = 0
      BY DEF Init
    <3> QED BY <3>1
  <2>3. SourceInv /\ OrderInv /\ UidBound /\ NoteKept
    BY <2>2 DEF SourceInv, OrderInv, UidBound, NoteKept
  <2> QED BY <2>1, <2>3, InitWellFormed DEF KeepsRecords, RecordInv
<1>2. KeepsRecords /\ [Next]_vars => KeepsRecords'
  BY NextWellFormed, NextStopped, NextHolder, NextJobSeen, NextSource, NextOrder, NextNoteKept
     DEF KeepsRecords, RecordInv
<1> QED BY <1>1, <1>2, PTL DEF Spec

LEMMA NextNotResent ==
  ASSUME KeepsRecords, [Next]_vars, NEW r \in Replicas, DecidesToPost(r)
  PROVE  \/ ~SeenRecorded(r, EventOfJob(r)')
         \/ LET e == EventOfJob(r)' IN Returned(e.name, e.phase, cache[r][e.name])
<1> USE DEF KeepsRecords, RecordInv
<1>1. PICK n, c : n = job[r].name /\ c = cache[r][n]
  OBVIOUS
<1>2. /\ Get(r) /\ job'[r].name = n /\ job'[r].version = c
      /\ NeedsNotification(Version(n, c))
  BY <1>1, NextPosting DEF DecidesToPost
<1>3. n \in Names /\ c \in 0 .. Len(log[n]) /\ log[n] \in Seq(Objects)
  BY <1>1 DEF DecidesToPost, WellFormed, TypeOK, JobInv, JobOK, CacheInv
<1>4. Version(n, c) # Absent
  BY <1>2, AbsentIsObject DEF NeedsNotification, Completed
<1>5. /\ c \in DOMAIN log[n] /\ Version(n, c) = log[n][c] /\ c \in 1 .. c
      /\ DOMAIN log[n] = 1 .. Len(log[n]) /\ Len(log[n]) \in Nat
  <2>1. c # 0
    BY <1>4 DEF Version
  <2> QED BY <1>3, <2>1 DEF Version
<1>6. EventOfJob(r)' = [name |-> n, uid |-> log[n][c].uid, phase |-> log[n][c].phase]
  <2>1. log' = log
    BY <1>2 DEF Get, api
  <2> QED BY <1>2, <1>5, <2>1 DEF EventOfJob, EventOf, Version
<1>7. ASSUME NEW i \in 1 .. c, log[n][i].uid = log[n][c].uid, log[n][i].note = log[n][c].phase
      PROVE  Returned(n, log[n][c].phase, c)
  <2>1. i \in DOMAIN log[n] /\ log[n][c].phase # NoNote
    <3>1. log[n][c].phase \in Phases
      <4>1. log[n][c] \in Objects
        BY <1>3, <1>5
      <4> QED BY <4>1 DEF Objects
    <3> QED BY <1>3, <1>5, <3>1 DEF Phases, NoNote
  <2>2. log[n][c].note # log[n][c].phase
    BY <1>2, <1>5 DEF NeedsNotification, Recorded
  <2>3. i < c
    BY <1>3, <1>7, <2>2
  <2>4. log[n][c].note # NoNote
    BY <1>3, <1>5, <1>7, <2>1, <2>3 DEF NoteKept
  <2> QED BY <1>3, <1>5, <1>7, <2>1, <2>2, <2>3, <2>4 DEF OrderInv
<1>8. ASSUME SeenRecorded(r, EventOfJob(r)') PROVE Returned(n, log[n][c].phase, c)
  <2> HIDE DEF KeepsRecords, RecordInv
  <2>1. PICK e : e = EventOfJob(r)'
    OBVIOUS
  <2>2. e.name = n /\ e.uid = log[n][c].uid /\ e.phase = log[n][c].phase
    BY <1>6, <2>1
  <2>3. PICK i \in 1 .. cache[r][e.name] :
          log[e.name][i].uid = e.uid /\ log[e.name][i].note = e.phase
    BY <1>8, <2>1 DEF SeenRecorded
  <2> QED BY <1>1, <1>7, <2>2, <2>3
<1>9. EventOfJob(r)'.name = n /\ EventOfJob(r)'.phase = log[n][c].phase
  BY <1>6
<1> QED BY <1>1, <1>8, <1>9

\* The annotation does what it is for (controller/README.md:15): as long as a deposed leader
\* never acts beside its successor, whichever replica recorded a phase, and whatever was
\* retried, restarted or listed again since, no replica that has seen the record decides to
\* post that phase again, also when names are reused, unless the workflow came back to it.
THEOREM RecordIsRespected ==
  ASSUME Exclusive
  PROVE  Spec => RecordedIsNotResent
<1>1. KeepsRecords /\ [Next]_vars =>
        [\A r \in Replicas : DecidesToPost(r) =>
            \/ ~SeenRecorded(r, EventOfJob(r)')
            \/ LET e == EventOfJob(r)' IN Returned(e.name, e.phase, cache[r][e.name])]_vars
  BY NextNotResent
<1> QED BY <1>1, AlwaysKeepsRecords, PTL DEF Spec, RecordedIsNotResent

--------------------------------------------------------------------------------
(* In the end the completion is recorded                                       *)

\* While names are not reused, for any number of replicas, also when they overlap: when a
\* running replica has nothing left to do for a completed workflow, the phase it
\* completed in was recorded on it at some time (workflow_controller.go:77-93).
OnceRecorded ==
    \A r \in Replicas, n \in Names :
        Quiet(r, n) /\ Completed(Current(n).phase) =>
            \E k \in DOMAIN log[n] : log[n][k].note = Current(n).phase

\* OnceRecorded holds of every behaviour while names are not reused: the notifier leaves no
\* completed workflow alone that it has never annotated.
THEOREM RecordedOnce ==
  ASSUME ~NameReuse
  PROVE  Spec => []OnceRecorded
<1>1. WakeupSameInv => OnceRecorded
  <2> SUFFICES ASSUME WakeupSameInv, NEW r \in Replicas, NEW n \in Names,
                      Quiet(r, n), Completed(Current(n).phase)
               PROVE  \E k \in DOMAIN log[n] : log[n][k].note = Current(n).phase
    BY DEF OnceRecorded
  <2>1. Current(n) = Cached(r, n)
    BY DEF Quiet, Current, Cached
  <2>2. ~Noticed(r, n)
    <3>1. Len(buffer[r][n]) = 0
      BY DEF Quiet
    <3> QED BY <3>1 DEF Quiet, Noticed
  <2>3. Closed(n, Current(n).phase)
    BY <2>1, <2>2 DEF WakeupSameInv, WakeupInv, WakeupAt
  <2>4. Present(Current(n))
    <3>1. Current(n) # Absent
      BY AbsentIsObject DEF Completed
    <3>2. log[n] \in Seq(Objects) /\ Len(log[n]) # 0
      BY <3>1 DEF WakeupSameInv, SameInv, WellFormed, TypeOK, Current, Version
    <3>3. Len(log[n]) \in DOMAIN log[n] /\ Current(n) = log[n][Len(log[n])]
      BY <3>2 DEF Current, Version
    <3> QED BY <3>1, <3>3 DEF WakeupSameInv, SameInv, UidInv, Present
  <2> QED BY <2>3, <2>4 DEF Closed
<1> QED BY <1>1, AlwaysWakeup, PTL

\* "One event per terminal phase" ends with the record (controller/README.md:15-18): while
\* names are not reused and a deposed leader never acts beside its successor, a completed
\* workflow nobody works on any more carries the phase it completed in, or had completed
\* in it once before and otherwise in between.
THEOREM RecordedInTheEnd ==
  ASSUME ~NameReuse, Exclusive
  PROVE  Spec => []QuietMeansRecorded
<1>1. WakeupSameInv /\ KeepsRecords /\ OnceRecorded => QuietMeansRecorded
  <2> SUFFICES ASSUME WakeupSameInv, KeepsRecords, OnceRecorded,
                      NEW r \in Replicas, NEW n \in Names,
                      Quiet(r, n), Completed(Current(n).phase), ~Recorded(Current(n))
               PROVE  Returned(n, Current(n).phase, Len(log[n]))
    BY DEF QuietMeansRecorded
  <2> DEFINE l == Len(log[n])
  <2>1. /\ log[n] \in Seq(Objects) /\ DOMAIN log[n] = 1 .. l /\ l \in Nat
        /\ l \in DOMAIN log[n] /\ Current(n) = log[n][l] /\ log[n][l] # Absent
    <3>1. Current(n) # Absent
      BY AbsentIsObject DEF Completed
    <3>2. log[n] \in Seq(Objects) /\ l # 0
      BY <3>1 DEF KeepsRecords, WellFormed, TypeOK, Current, Version
    <3> QED BY <3>1, <3>2 DEF Current, Version
  <2>2. PICK k \in DOMAIN log[n] : log[n][k].note = log[n][l].phase
    BY <2>1 DEF OnceRecorded
  <2>3. log[n][l].note # log[n][l].phase /\ log[n][l].phase # NoNote
    <3>1. log[n][l] \in Objects
      BY <2>1
    <3> QED BY <2>1, <3>1 DEF Recorded, Objects, Phases, NoNote
  <2>4. k < l
    BY <2>1, <2>2, <2>3
  <2>5. log[n][k].uid = 1 /\ log[n][l].uid = 1
    <3>1. log[n][k] # Absent
      BY <2>2, <2>3, AbsentIsObject
    <3> QED BY <2>1, <3>1 DEF WakeupSameInv, SameInv, UidInv
  <2>6. log[n][l].note # NoNote
    BY <2>1, <2>2, <2>3, <2>4, <2>5 DEF KeepsRecords, NoteKept
  <2> QED BY <2>1, <2>2, <2>3, <2>4, <2>6 DEF KeepsRecords, RecordInv, OrderInv
<1>2. Spec => []WakeupSameInv
  BY AlwaysWakeup
<1>3. Spec => []KeepsRecords
  BY AlwaysKeepsRecords
<1>4. Spec => []OnceRecorded
  BY RecordedOnce
<1> QED BY <1>1, <1>2, <1>3, <1>4, PTL
=================================================================================
