------------------------- MODULE WorkflowNotifierProofs -------------------------
(***************************************************************************)
(* Theorems about the workflow-notifier, for any number of workflows,       *)
(* replicas, versions and faults.                                           *)
(***************************************************************************)
EXTENDS WorkflowNotifier, SequenceTheorems, TLAPS

--------------------------------------------------------------------------------
(* The log                                                                     *)

LogType == log \in [Names -> Seq(Objects)]

\* What an action may do to the log: nothing, or one new version of one name.
LogStep ==
    \/ UNCHANGED log
    \/ \E n \in Names : \E obj \in Objects : Write(n, obj)

\* Versions are never lost or changed.
LogExtends ==
    \A n \in Names :
        /\ Len(log[n]) \in Nat /\ Len(log'[n]) \in Nat
        /\ Len(log[n]) <= Len(log'[n])
        /\ \A i \in 1 .. Len(log[n]) : log'[n][i] = log[n][i]

\* The object without state is an object.
LEMMA AbsentIsObject == Absent \in Objects /\ Absent.phase = "Unknown" /\ Absent.note = NoNote
  BY DEF Absent, Objects, Phases, NoNote

\* Every position a cache can be at denotes an object.
LEMMA VersionType ==
  ASSUME LogType, NEW n \in Names, NEW i \in 0 .. Len(log[n])
  PROVE  Version(n, i) \in Objects
<1>1. CASE i = 0
  BY <1>1, AbsentIsObject DEF Version
<1>2. CASE i # 0
  <2>1. log[n] \in Seq(Objects)
    BY DEF LogType
  <2>2. i \in 1 .. Len(log[n])
    BY <1>2, <2>1
  <2>3. log[n][i] \in Objects
    BY <2>1, <2>2
  <2> QED BY <1>2, <2>3 DEF Version
<1> QED BY <1>1, <1>2

LEMMA CurrentType ==
  ASSUME LogType, NEW n \in Names
  PROVE  Current(n) \in Objects /\ Len(log[n]) \in Nat
<1>1. log[n] \in Seq(Objects) /\ Len(log[n]) \in Nat
  BY DEF LogType
<1> QED BY <1>1, VersionType DEF Current

\* Writing a version keeps every earlier one in its place.
LEMMA LogStepExtends ==
  ASSUME LogType, LogStep
  PROVE  LogType' /\ LogExtends
<1>1. CASE UNCHANGED log
  BY <1>1 DEF LogType, LogExtends
<1>2. ASSUME NEW n \in Names, NEW obj \in Objects, Write(n, obj)
      PROVE  LogType' /\ LogExtends
  <2>1. log[n] \in Seq(Objects) /\ log'[n] = Append(log[n], obj)
    BY <1>2 DEF LogType, Write
  <2>2. \A m \in Names : m # n => log'[m] = log[m] /\ Len(log[m]) \in Nat
    BY <1>2 DEF LogType, Write
  <2>3. /\ Len(log[n]) \in Nat /\ Len(log'[n]) = Len(log[n]) + 1
        /\ \A i \in 1 .. Len(log[n]) : log'[n][i] = log[n][i]
    BY <2>1
  <2>4. LogType'
    BY <1>2, <2>1 DEF LogType, Write
  <2>5. LogExtends
    BY <2>2, <2>3 DEF LogExtends
  <2> QED BY <2>4, <2>5
<1> QED BY <1>1, <1>2 DEF LogStep

\* An old version reads the same after any step.
LEMMA VersionStable ==
  ASSUME LogExtends, NEW n \in Names, NEW i \in 0 .. Len(log[n])
  PROVE  Version(n, i)' = Version(n, i)
  BY DEF LogExtends, Version

\* The patch of a reconcile is at most one new version.
LEMMA AnnotateStep ==
  ASSUME LogType, NEW n \in Names, NEW phase \in Phases, Annotate(n, phase)
  PROVE  LogStep
<1>1. [Current(n) EXCEPT !.note = phase] \in Objects
  BY CurrentType DEF Objects
<1> QED BY <1>1 DEF Annotate, LogStep

--------------------------------------------------------------------------------
(* Types, and positions that stay inside the log                               *)

CacheInv == \A r \in Replicas : \A n \in Names : cache[r][n] <= Len(log[n])

BufferInv ==
    \A r \in Replicas : \A n \in Names : \A k \in 1 .. Len(buffer[r][n]) :
        /\ buffer[r][n][k].old <= Len(log[n])
        /\ buffer[r][n][k].new <= Len(log[n])

\* A busy worker has a name; once it decided to notify it holds a completed version.
JobOK(r) ==
    /\ pc[r] # "idle" => job[r] \in [name : Names, version : Nat]
    /\ pc[r] \in {"notify", "patch"} =>
          /\ job[r].version \in 1 .. Len(log[job[r].name])
          /\ Completed(Version(job[r].name, job[r].version).phase)

JobInv == \A r \in Replicas : JobOK(r)

WellFormed == TypeOK /\ CacheInv /\ BufferInv /\ JobInv

\* The event a busy worker sends is an event.
LEMMA EventOfJobType ==
  ASSUME WellFormed, NEW r \in Replicas, pc[r] \in {"notify", "patch"}
  PROVE  /\ EventOfJob(r) \in Events
         /\ EventOfJob(r).name = job[r].name
         /\ job[r].name \in Names
<1>1. job[r] \in [name : Names, version : Nat]
      /\ job[r].version \in 0 .. Len(log[job[r].name])
  BY DEF WellFormed, JobInv, JobOK, TypeOK
<1>2. Version(job[r].name, job[r].version) \in Objects
  BY <1>1, VersionType DEF WellFormed, TypeOK, LogType
<1> QED BY <1>1, <1>2 DEF EventOfJob, EventOf, Events, Objects

LEMMA NotificationType ==
  ASSUME NEW n \in Names, NEW i \in Nat, NEW j \in Nat
  PROVE  /\ Notification(n, i, j) \in Seq([old : Nat, new : Nat])
         /\ \A k \in 1 .. Len(Notification(n, i, j)) :
               Notification(n, i, j)[k] = [old |-> i, new |-> j]
<1> DEFINE moved == [old |-> i, new |-> j]
<1>1. moved \in [old : Nat, new : Nat]
  OBVIOUS
<1> HIDE DEF moved
<1>2. /\ <<moved>> \in Seq([old : Nat, new : Nat])
      /\ \A k \in 1 .. Len(<<moved>>) : <<moved>>[k] = moved
  BY <1>1
<1>3. /\ <<>> \in Seq([old : Nat, new : Nat])
      /\ \A k \in 1 .. Len(<<>>) : <<>>[k] = moved
  OBVIOUS
<1>4. Notification(n, i, j) \in {<<moved>>, <<>>}
  BY DEF Notification, moved
<1>5. QED
  <2>1. CASE Notification(n, i, j) = <<moved>>
    BY <1>2, <2>1 DEF moved
  <2>2. CASE Notification(n, i, j) = <<>>
    BY <1>3, <2>2 DEF moved
  <2> QED BY <1>4, <2>1, <2>2

LEMMA InitWellFormed == Init => WellFormed
<1> SUFFICES ASSUME Init PROVE WellFormed
  OBVIOUS
<1>1. TypeOK
  BY DEF Init, TypeOK
<1>2. CacheInv /\ BufferInv /\ JobInv
  BY DEF Init, CacheInv, BufferInv, JobInv, JobOK
<1> QED BY <1>1, <1>2 DEF WellFormed

\* Every step writes at most one version.
LEMMA NextLogStep ==
  ASSUME WellFormed, [Next]_vars
  PROVE  LogStep
<1> USE DEF WellFormed
<1>t. LogType
  BY DEF TypeOK, LogType
<1>1. ASSUME NEW n \in Names, Submit(n) PROVE LogStep
  <2>1. [uid |-> Len(log[n]) + 1, phase |-> "Unknown", note |-> NoNote] \in Objects
    BY <1>t, CurrentType DEF Objects, Phases, NoNote
  <2> QED BY <1>1, <2>1 DEF Submit, LogStep
<1>2. ASSUME NEW n \in Names, Delete(n) PROVE LogStep
  BY <1>2, AbsentIsObject DEF Delete, LogStep
<1>3. ASSUME NEW n \in Names, NEW phase \in Phases, ChangePhase(n, phase) PROVE LogStep
  <2>1. [Current(n) EXCEPT !.phase = phase] \in Objects
    BY <1>t, CurrentType DEF Objects
  <2> QED BY <1>3, <2>1 DEF ChangePhase, LogStep
<1>4. ASSUME NEW r \in Replicas, pc[r] = "patch", PatchOfJob(r) PROVE LogStep
  <2>1. EventOfJob(r).phase \in Phases /\ job[r].name \in Names
    BY <1>4, EventOfJobType DEF Events
  <2> QED BY <1>4, <1>t, <2>1, AnnotateStep DEF PatchOfJob
<1>5. LoseLease => LogStep
  BY DEF LoseLease, LogStep
<1>6. ASSUME NEW r \in Replicas, Process(r) PROVE LogStep
  BY <1>6 DEF Process, Elect, Crash, StepDown, Stop, LogStep
<1>7. ASSUME NEW r \in Replicas, Informer(r) PROVE LogStep
  BY <1>7 DEF Informer, Relist, Observe, Resync, Dispatch, api, LogStep
<1>8. ASSUME NEW r \in Replicas, Reconcile(r) PROVE LogStep
  <2>1. Patch(r) => LogStep
    BY <1>4 DEF Patch
  <2>2. PatchFails(r) => LogStep
    BY <1>4 DEF PatchFails, LogStep
  <2>3. NotifySucceeds(r) \/ NotifyFails(r) \/ Get(r) \/ GetFails(r) => LogStep
    BY DEF NotifySucceeds, NotifyFails, Get, GetFails, api, LogStep
  <2>4. ASSUME NEW n \in Names, Requeue(r, n) \/ Start(r, n) PROVE LogStep
    BY <2>4 DEF Requeue, Start, api, LogStep
  <2> QED BY <1>8, <2>1, <2>2, <2>3, <2>4 DEF Reconcile
<1>9. Network => LogStep
  BY DEF Network, AcceptLate, LoseRequest, api, LogStep
<1>10. UNCHANGED vars => LogStep
  BY DEF vars, LogStep
<1> QED BY <1>1, <1>2, <1>3, <1>5, <1>6, <1>7, <1>8, <1>9, <1>10 DEF Next, Argo

LEMMA InformerStable ==
  ASSUME WellFormed, LogExtends, UNCHANGED informer
  PROVE  CacheInv' /\ BufferInv'
<1> USE DEF WellFormed, TypeOK, informer
<1>1. CacheInv'
  BY DEF CacheInv, LogExtends
<1>2. BufferInv'
  <2> SUFFICES ASSUME NEW r \in Replicas, NEW n \in Names, NEW k \in 1 .. Len(buffer[r][n])
               PROVE  /\ buffer[r][n][k].old <= Len(log'[n])
                      /\ buffer[r][n][k].new <= Len(log'[n])
    BY DEF BufferInv
  <2>0. buffer[r][n] \in Seq([old : Nat, new : Nat])
    OBVIOUS
  <2>1. buffer[r][n][k] \in [old : Nat, new : Nat]
    BY <2>0, ElementOfSeq
  <2>2. /\ buffer[r][n][k].old <= Len(log[n]) /\ buffer[r][n][k].new <= Len(log[n])
        /\ Len(log[n]) \in Nat /\ Len(log'[n]) \in Nat /\ Len(log[n]) <= Len(log'[n])
    BY DEF BufferInv, LogExtends
  <2> HIDE DEF WellFormed, TypeOK
  <2> QED BY <2>1, <2>2
<1> QED BY <1>1, <1>2

LEMMA JobStable ==
  ASSUME WellFormed, LogExtends, NEW r \in Replicas, pc'[r] = pc[r], job'[r] = job[r]
  PROVE  JobOK(r)'
<1>1. JobOK(r) /\ job[r] \in [name : Names, version : Nat] \cup {NoJob}
  BY DEF WellFormed, JobInv, TypeOK
<1>2. CASE pc[r] \in {"notify", "patch"}
  <2>1. job[r].name \in Names /\ job[r].version \in 1 .. Len(log[job[r].name])
    BY <1>1, <1>2 DEF JobOK
  <2>2. log'[job[r].name][job[r].version] = log[job[r].name][job[r].version]
    BY <2>1 DEF LogExtends
  <2>3. job[r].version \in 1 .. Len(log'[job[r].name])
    BY <2>1 DEF LogExtends
  <2>4. Completed(log[job[r].name][job[r].version].phase)
    BY <1>1, <1>2, <2>1 DEF JobOK, Version
  <2> QED BY <1>1, <1>2, <2>1, <2>2, <2>3, <2>4 DEF JobOK, Version, Completed
<1>3. CASE pc[r] \notin {"notify", "patch"}
  BY <1>1, <1>3 DEF JobOK
<1> QED BY <1>2, <1>3

\* A worker that is put to rest, whatever happened before.
LEMMA JobReset ==
  ASSUME WellFormed, LogExtends, NEW r \in Replicas,
         pc' = [pc EXCEPT ![r] = "idle"], job' = [job EXCEPT ![r] = NoJob]
  PROVE  JobInv' /\ pc' \in [Replicas -> {"idle", "get", "notify", "patch"}]
         /\ job' \in [Replicas -> [name : Names, version : Nat] \cup {NoJob}]
<1>1. \A q \in Replicas : q # r => JobOK(q)'
  BY JobStable DEF WellFormed, TypeOK
<1>2. JobOK(r)'
  BY DEF JobOK, WellFormed, TypeOK
<1> QED BY <1>1, <1>2 DEF JobInv, WellFormed, TypeOK

\* The notifications of one replica and name stay inside the log.
BufferOK(b, n) ==
    /\ b \in Seq([old : Nat, new : Nat])
    /\ \A k \in 1 .. Len(b) : b[k].old <= Len(log[n]) /\ b[k].new <= Len(log[n])

LEMMA BufferAppend ==
  ASSUME NEW n \in Names, Len(log[n]) \in Nat,
         NEW b, BufferOK(b, n), NEW i \in 0 .. Len(log[n]), NEW j \in 0 .. Len(log[n])
  PROVE  /\ BufferOK(Append(b, [old |-> i, new |-> j]), n)
         /\ BufferOK(b \o Notification(n, i, j), n)
         /\ BufferOK(Notification(n, i, j), n)
         /\ b # <<>> => BufferOK(Tail(b), n)
<1> DEFINE moved == [old |-> i, new |-> j]
<1>1. moved \in [old : Nat, new : Nat] /\ moved.old <= Len(log[n]) /\ moved.new <= Len(log[n])
  OBVIOUS
<1>2. BufferOK(Append(b, moved), n)
  <2> HIDE DEF moved
  <2>1. /\ Append(b, moved) \in Seq([old : Nat, new : Nat])
        /\ Len(Append(b, moved)) = Len(b) + 1
        /\ \A k \in 1 .. Len(b) : Append(b, moved)[k] = b[k]
        /\ Append(b, moved)[Len(b) + 1] = moved
    BY <1>1, AppendProperties DEF BufferOK
  <2>2. ASSUME NEW k \in 1 .. Len(b) + 1
        PROVE  Append(b, moved)[k].old <= Len(log[n]) /\ Append(b, moved)[k].new <= Len(log[n])
    <3>1. Len(b) \in Nat
      BY DEF BufferOK
    <3>2. CASE k = Len(b) + 1
      BY <1>1, <2>1, <3>2
    <3>3. CASE k \in 1 .. Len(b)
      BY <2>1, <3>3 DEF BufferOK
    <3> QED BY <3>1, <3>2, <3>3
  <2> QED BY <2>1, <2>2 DEF BufferOK
<1>3. BufferOK(Notification(n, i, j), n)
  <2>1. i \in Nat /\ j \in Nat /\ i <= Len(log[n]) /\ j <= Len(log[n])
    OBVIOUS
  <2>2. /\ Notification(n, i, j) \in Seq([old : Nat, new : Nat])
        /\ \A k \in 1 .. Len(Notification(n, i, j)) : Notification(n, i, j)[k] = [old |-> i, new |-> j]
    BY <2>1, NotificationType
  <2> QED BY <2>1, <2>2 DEF BufferOK
<1>4. BufferOK(b \o Notification(n, i, j), n)
  <2> DEFINE c == Notification(n, i, j)
  <2>1. /\ b \o c \in Seq([old : Nat, new : Nat])
        /\ Len(b \o c) = Len(b) + Len(c)
        /\ \A k \in 1 .. Len(b) + Len(c) :
              (b \o c)[k] = IF k <= Len(b) THEN b[k] ELSE c[k - Len(b)]
    BY <1>3, ConcatProperties DEF BufferOK
  <2>2. Len(b) \in Nat /\ Len(c) \in Nat
    BY <1>3 DEF BufferOK
  <2> HIDE DEF c
  <2>3. ASSUME NEW k \in 1 .. Len(b) + Len(c)
        PROVE  (b \o c)[k].old <= Len(log[n]) /\ (b \o c)[k].new <= Len(log[n])
    <3>1. CASE k <= Len(b)
      BY <2>1, <2>2, <3>1 DEF BufferOK
    <3>2. CASE k > Len(b)
      <4>1. k - Len(b) \in 1 .. Len(c)
        BY <2>2, <3>2
      <4> QED BY <1>3, <2>1, <2>2, <3>2, <4>1 DEF BufferOK, c
    <3> QED BY <2>2, <3>1, <3>2
  <2> QED BY <2>1, <2>3 DEF BufferOK, c
<1>5. ASSUME b # <<>> PROVE BufferOK(Tail(b), n)
  <2>1. /\ Tail(b) \in Seq([old : Nat, new : Nat])
        /\ Len(Tail(b)) = Len(b) - 1
        /\ \A k \in 1 .. Len(Tail(b)) : Tail(b)[k] = b[k + 1]
    BY <1>5, HeadTailProperties DEF BufferOK
  <2>2. Len(b) \in Nat /\ Len(b) # 0
    BY <1>5, EmptySeq DEF BufferOK
  <2> QED BY <2>1, <2>2 DEF BufferOK
<1> QED BY <1>2, <1>3, <1>4, <1>5

\* Informer steps keep the types and the bounds.
LEMMA InformerWellFormed ==
  ASSUME WellFormed, NEW r \in Replicas, Informer(r)
  PROVE  WellFormed'
<1> USE DEF WellFormed
<1>1. UNCHANGED <<api, webhook, leading, delayed, worker>>
  BY DEF Informer, Relist, Observe, Resync, Dispatch
<1>2. LogExtends
  <2>1. LogType
    BY DEF TypeOK, LogType
  <2> QED BY <1>1, <2>1, LogStepExtends DEF api, LogStep
<1>3. JobInv'
  BY <1>1, <1>2, JobStable DEF JobInv, worker
<1>4. faults' \in Nat
  <2>1. faults' \in {faults, faults + 1}
    BY DEF Informer, Relist, Observe, Resync, Dispatch, Fault
  <2> QED BY <2>1 DEF TypeOK
<1>5. \A n \in Names : BufferOK(buffer[r][n], n) /\ Len(log[n]) \in Nat /\ cache[r][n] \in 0 .. Len(log[n])
  BY DEF TypeOK, BufferInv, BufferOK, CacheInv
<1>6. CASE Relist(r)
  <2>1. ASSUME NEW n \in Names PROVE BufferOK(buffer'[r][n], n)
    <3>1. buffer'[r][n] = IF cache[r][n] < Len(log[n])
                          THEN buffer[r][n] \o Notification(n, cache[r][n], Len(log[n]))
                          ELSE buffer[r][n]
      BY <1>6 DEF Relist, TypeOK
    <3>2. /\ BufferOK(buffer[r][n], n) /\ Len(log[n]) \in Nat
          /\ cache[r][n] \in 0 .. Len(log[n]) /\ Len(log[n]) \in 0 .. Len(log[n])
      BY <1>5
    <3>3. BufferOK(buffer[r][n] \o Notification(n, cache[r][n], Len(log[n])), n)
      BY <3>2, BufferAppend
    <3> QED BY <3>1, <3>2, <3>3
  <2>2. /\ cache' = [cache EXCEPT ![r] = [n \in Names |-> Len(log[n])]]
        /\ \A q \in Replicas : q # r => buffer'[q] = buffer[q]
        /\ queue' = queue /\ log' = log
        /\ \E f : buffer' = [buffer EXCEPT ![r] = [n \in Names |-> f[n]]]
    <3> DEFINE f == [n \in Names |-> IF cache[r][n] < Len(log[n])
           THEN buffer[r][n] \o Notification(n, cache[r][n], Len(log[n]))
           ELSE buffer[r][n]]
    <3>1. buffer' = [buffer EXCEPT ![r] = [n \in Names |-> f[n]]]
      BY <1>6 DEF Relist
    <3>2. /\ cache' = [cache EXCEPT ![r] = [n \in Names |-> Len(log[n])]]
          /\ queue' = queue /\ log' = log
      BY <1>6 DEF Relist, api
    <3> HIDE DEF f
    <3>3. \A q \in Replicas : q # r => buffer'[q] = buffer[q]
      BY <3>1 DEF TypeOK
    <3> QED BY <3>1, <3>2, <3>3
  <2>3. buffer' \in [Replicas -> [Names -> Seq([old : Nat, new : Nat])]]
    BY <2>1, <2>2 DEF TypeOK, BufferOK
  <2>4. cache' \in [Replicas -> [Names -> Nat]] /\ CacheInv'
    BY <1>5, <2>2 DEF TypeOK, CacheInv
  <2>5. BufferInv'
    BY <2>1, <2>2 DEF BufferInv, BufferOK, TypeOK
  <2>6. TypeOK'
    BY <1>1, <1>4, <2>2, <2>3, <2>4 DEF TypeOK, api, webhook, worker
  <2> QED BY <1>3, <2>4, <2>5, <2>6
<1>7. ASSUME NEW n \in Names, Observe(r, n) \/ Resync(r, n) \/ Dispatch(r, n)
      PROVE  WellFormed'
  <2>1. PICK b : buffer' = [buffer EXCEPT ![r][n] = b] /\ BufferOK(b, n)
    <3>1. CASE Observe(r, n)
      <4>1. cache[r][n] + 1 \in 0 .. Len(log[n])
        BY <1>5, <3>1 DEF Observe
      <4> QED BY <1>5, <3>1, <4>1, BufferAppend DEF Observe, Moved
    <3>2. CASE Resync(r, n)
      BY <1>5, <3>2, BufferAppend DEF Resync, Moved
    <3>3. CASE Dispatch(r, n)
      <4>1. buffer' = [buffer EXCEPT ![r][n] = Tail(buffer[r][n])] /\ buffer[r][n] # <<>>
        BY <3>3 DEF Dispatch
      <4> QED BY <1>5, <4>1, BufferAppend
    <3> QED BY <1>7, <3>1, <3>2, <3>3
  <2>2. buffer' \in [Replicas -> [Names -> Seq([old : Nat, new : Nat])]] /\ BufferInv'
    <3>1. buffer' \in [Replicas -> [Names -> Seq([old : Nat, new : Nat])]]
      BY <2>1 DEF TypeOK, BufferOK
    <3>2. ASSUME NEW q \in Replicas, NEW m \in Names
          PROVE  \A k \in 1 .. Len(buffer'[q][m]) :
                    buffer'[q][m][k].old <= Len(log[m]) /\ buffer'[q][m][k].new <= Len(log[m])
      BY <2>1 DEF TypeOK, BufferInv, BufferOK
    <3> QED BY <1>1, <3>1, <3>2 DEF BufferInv, api
  <2>3. cache' \in [Replicas -> [Names -> Nat]] /\ CacheInv'
    <3>1. PICK i \in 0 .. Len(log[n]) : cache' = [cache EXCEPT ![r][n] = i]
      <4>1. CASE Observe(r, n)
        <5>1. cache[r][n] + 1 \in 0 .. Len(log[n])
          BY <1>5, <4>1 DEF Observe
        <5> QED BY <4>1, <5>1 DEF Observe
      <4>2. CASE Resync(r, n) \/ Dispatch(r, n)
        <5>1. cache' = cache
          BY <4>2 DEF Resync, Dispatch
        <5>2. cache = [cache EXCEPT ![r][n] = cache[r][n]]
          BY DEF TypeOK
        <5> QED BY <1>5, <5>1, <5>2
      <4> QED BY <1>7, <4>1, <4>2
    <3>2. cache' \in [Replicas -> [Names -> Nat]]
      BY <1>5, <3>1 DEF TypeOK
    <3> QED BY <1>1, <1>5, <3>1, <3>2 DEF TypeOK, CacheInv, api
  <2>4. queue' \in [Replicas -> SUBSET Names]
    <3>1. queue' = queue \/ queue' = [queue EXCEPT ![r] = queue[r] \cup {n}]
      <4>1. CASE Dispatch(r, n)
        <5>1. queue = [queue EXCEPT ![r] = queue[r]]
          BY DEF TypeOK
        <5> QED BY <4>1, <5>1 DEF Dispatch
      <4>2. CASE Observe(r, n) \/ Resync(r, n)
        BY <4>2 DEF Observe, Resync
      <4> QED BY <1>7, <4>1, <4>2
    <3>2. queue \in [Replicas -> SUBSET Names] /\ queue[r] \cup {n} \in SUBSET Names
      BY DEF TypeOK
    <3> QED BY <3>1, <3>2
  <2>5. TypeOK'
    BY <1>1, <1>4, <2>2, <2>3, <2>4 DEF TypeOK, api, webhook, worker
  <2> QED BY <1>3, <2>2, <2>3, <2>5
<1> QED BY <1>6, <1>7 DEF Informer

\* Start, failover and stop of a replica keep the types and the bounds.
LEMMA ProcessWellFormed ==
  ASSUME WellFormed, NEW r \in Replicas, Process(r)
  PROVE  WellFormed'
<1> USE DEF WellFormed
<1>1. log' = log /\ LogExtends
  <2>1. log' = log
    BY DEF Process, Elect, Crash, StepDown, Stop
  <2>2. LogType
    BY DEF TypeOK, LogType
  <2> QED BY <2>1, <2>2, LogStepExtends DEF LogStep
<1>2. CASE Elect(r)
  <2>1. \A n \in Names : Len(log[n]) \in Nat /\ BufferOK(Notification(n, 0, Len(log[n])), n)
    <3> SUFFICES ASSUME NEW n \in Names
                 PROVE  Len(log[n]) \in Nat /\ BufferOK(Notification(n, 0, Len(log[n])), n)
      OBVIOUS
    <3>1. Len(log[n]) \in Nat /\ BufferOK(<<>>, n)
      BY DEF TypeOK, BufferOK
    <3>2. 0 \in 0 .. Len(log[n]) /\ Len(log[n]) \in 0 .. Len(log[n])
      BY <3>1
    <3> QED BY <3>1, <3>2, BufferAppend
  <2>2. cache' \in [Replicas -> [Names -> Nat]] /\ CacheInv'
    BY <1>1, <1>2, <2>1 DEF Elect, TypeOK, CacheInv
  <2>3. buffer' \in [Replicas -> [Names -> Seq([old : Nat, new : Nat])]]
    BY <1>2, <2>1 DEF Elect, TypeOK, BufferOK
  <2>4. BufferInv'
    BY <1>1, <1>2, <2>1 DEF Elect, TypeOK, BufferInv, BufferOK
  <2>5. JobInv'
    BY <1>1, <1>2, JobStable DEF Elect, JobInv, worker
  <2>6. TypeOK'
    BY <1>1, <1>2, <2>2, <2>3 DEF Elect, TypeOK, webhook, worker
  <2> QED BY <2>2, <2>4, <2>5, <2>6
<1>3. CASE Stop(r) /\ holder' \in Replicas \cup {NoReplica} /\ faults' \in Nat
  <2>1. JobInv' /\ pc' \in [Replicas -> {"idle", "get", "notify", "patch"}]
        /\ job' \in [Replicas -> [name : Names, version : Nat] \cup {NoJob}]
    BY <1>1, <1>3, JobReset DEF Stop
  <2>2. \A n \in Names : BufferOK(<<>>, n)
    BY DEF BufferOK
  <2>3. /\ cache' \in [Replicas -> [Names -> Nat]] /\ CacheInv'
        /\ buffer' \in [Replicas -> [Names -> Seq([old : Nat, new : Nat])]]
    BY <1>1, <1>3, <2>2 DEF Stop, TypeOK, CacheInv, BufferOK
  <2>4. BufferInv'
    BY <1>1, <1>3 DEF Stop, TypeOK, BufferInv
  <2>5. inFlight' \subseteq Events
    BY <1>3, EventOfJobType DEF Stop, TypeOK
  <2>6. TypeOK'
    BY <1>1, <1>3, <2>1, <2>3, <2>5 DEF Stop, TypeOK
  <2> QED BY <2>1, <2>3, <2>4, <2>6
<1>4. Elect(r) \/ (Stop(r) /\ holder' \in Replicas \cup {NoReplica} /\ faults' \in Nat)
  BY DEF Process, Crash, StepDown, Fault, TypeOK
<1> QED BY <1>2, <1>3, <1>4

\* What a reconcile leaves behind: the worker at rest, and perhaps a name to retry.
LEMMA ReconcileEnds ==
  ASSUME WellFormed, LogExtends, NEW r \in Replicas, pc[r] # "idle",
         Return(r) \/ ReturnError(r)
  PROVE  /\ JobInv' /\ pc' \in [Replicas -> {"idle", "get", "notify", "patch"}]
         /\ job' \in [Replicas -> [name : Names, version : Nat] \cup {NoJob}]
         /\ delayed' \in [Replicas -> SUBSET Names]
<1>1. job[r].name \in Names
  BY DEF WellFormed, JobInv, JobOK
<1>2. delayed' \in [Replicas -> SUBSET Names]
  <2>1. delayed[r] \cup {job[r].name} \in SUBSET Names
    BY <1>1 DEF WellFormed, TypeOK
  <2>2. delayed' = delayed \/ delayed' = [delayed EXCEPT ![r] = delayed[r] \cup {job[r].name}]
    BY DEF Return, ReturnError
  <2> QED BY <2>1, <2>2 DEF WellFormed, TypeOK
<1> QED BY <1>2, JobReset DEF Return, ReturnError

\* Reconcile steps keep the types and the bounds.
LEMMA ReconcileWellFormed ==
  ASSUME WellFormed, NEW r \in Replicas, Reconcile(r)
  PROVE  WellFormed'
<1> USE DEF WellFormed
<1>1. LogType' /\ LogExtends
  <2>1. LogType
    BY DEF TypeOK, LogType
  <2>2. [Next]_vars
    BY DEF Next
  <2> QED BY <2>1, <2>2, NextLogStep, LogStepExtends
<1>2. UNCHANGED <<holder, leading, informer>> /\ faults' \in Nat
  <2>1. UNCHANGED <<holder, leading, informer>>
    BY DEF Reconcile, Requeue, Start, Get, GetFails, NotifySucceeds, NotifyFails, Patch, PatchFails, api
  <2>2. faults' \in {faults, faults + 1}
    BY DEF Reconcile, Requeue, Start, Get, GetFails, NotifySucceeds, NotifyFails, Patch, PatchFails, Fault
  <2> QED BY <2>1, <2>2 DEF TypeOK
<1>3. CacheInv' /\ BufferInv'
  BY <1>1, <1>2, InformerStable
<1>4. (delivered' \subseteq Events /\ repeated' \subseteq delivered' /\ inFlight' \subseteq Events)
  <2>1. CASE NotifySucceeds(r) \/ NotifyFails(r)
    <3>1. EventOfJob(r) \in Events
      BY <2>1, EventOfJobType DEF NotifySucceeds, NotifyFails
    <3> QED BY <2>1, <3>1 DEF NotifySucceeds, NotifyFails, Accept, GivesUpOn, TypeOK
  <2>2. CASE ~(NotifySucceeds(r) \/ NotifyFails(r))
    BY <2>2 DEF Reconcile, Requeue, Start, Get, GetFails, Patch, PatchFails, webhook, TypeOK
  <2> QED BY <2>1, <2>2
<1> DEFINE Rest == /\ JobInv' /\ pc' \in [Replicas -> {"idle", "get", "notify", "patch"}]
                   /\ job' \in [Replicas -> [name : Names, version : Nat] \cup {NoJob}]
                   /\ delayed' \in [Replicas -> SUBSET Names]
                   /\ queue' \in [Replicas -> SUBSET Names]
<1>5. Rest
  <2>1. ASSUME NEW n \in Names, Requeue(r, n) PROVE Rest
    <3>1. JobInv'
      BY <1>1, <2>1, JobStable DEF Requeue, JobInv, worker
    <3>2. queue[r] \cup {n} \in SUBSET Names /\ delayed[r] \ {n} \in SUBSET Names
      BY DEF TypeOK
    <3> QED BY <2>1, <3>1, <3>2 DEF Requeue, TypeOK, worker
  <2>2. ASSUME NEW n \in Names, Start(r, n) PROVE Rest
    <3>1. \A q \in Replicas : q # r => JobOK(q)'
      BY <1>1, <2>2, JobStable DEF Start, TypeOK
    <3>2. JobOK(r)'
      BY <2>2 DEF Start, TypeOK, JobOK
    <3>3. queue[r] \ {n} \in SUBSET Names
      BY DEF TypeOK
    <3> QED BY <2>2, <3>1, <3>2, <3>3 DEF Start, TypeOK, JobInv
  <2>3. CASE Get(r)
    <3> DEFINE n == job[r].name
               i == cache[r][n]
    <3>1. n \in Names /\ job[r] \in [name : Names, version : Nat]
      BY <2>3 DEF Get, JobInv, JobOK
    <3>2. CASE Return(r)
      BY <1>1, <2>3, <3>2, ReconcileEnds DEF Get, TypeOK
    <3>3. CASE /\ NeedsNotification(Version(n, i))
               /\ pc' = [pc EXCEPT ![r] = "notify"]
               /\ job' = [job EXCEPT ![r].version = i]
               /\ UNCHANGED delayed
      <4>1. i \in 0 .. Len(log[n]) /\ i \in Nat
        BY <3>1 DEF TypeOK, CacheInv
      <4>2. Completed(Version(n, i).phase) /\ i # 0
        BY <3>3, AbsentIsObject DEF NeedsNotification, Version, Completed
      <4>3. \A q \in Replicas : q # r => JobOK(q)'
        BY <1>1, <3>3, JobStable DEF TypeOK
      <4>4. job'[r] = [job[r] EXCEPT !.version = i]
        BY <3>3 DEF TypeOK
      <4>5. job'[r] \in [name : Names, version : Nat] /\ job'[r].name = n /\ job'[r].version = i
        BY <3>1, <4>1, <4>4
      <4>6. JobOK(r)'
        <5>1. log' = log /\ pc'[r] = "notify"
          BY <2>3, <3>3 DEF Get, api, TypeOK
        <5>2. Completed(log[n][i].phase)
          BY <4>2 DEF Version
        <5>3. i \in 1 .. Len(log[n])
          BY <4>1, <4>2
        <5>4. /\ job'[r].version \in 1 .. Len(log'[job'[r].name])
              /\ Completed(Version(job[r].name, job[r].version).phase)'
          BY <4>2, <4>5, <5>1, <5>2, <5>3 DEF Version, Completed
        <5> QED BY <4>5, <5>4 DEF JobOK
      <4>7. job' \in [Replicas -> [name : Names, version : Nat] \cup {NoJob}]
        BY <3>3, <4>4, <4>5 DEF TypeOK
      <4> QED BY <2>3, <3>3, <4>3, <4>6, <4>7 DEF Get, TypeOK, JobInv
    <3> QED BY <2>3, <3>2, <3>3 DEF Get
  <2>4. CASE GetFails(r) \/ NotifyFails(r) \/ Patch(r) \/ PatchFails(r)
    <3>1. pc[r] # "idle" /\ (Return(r) \/ ReturnError(r)) /\ queue' = queue
      BY <2>4 DEF GetFails, NotifyFails, Patch, PatchFails
    <3> QED BY <1>1, <3>1, ReconcileEnds DEF TypeOK
  <2>5. CASE NotifySucceeds(r)
    <3>1. \A q \in Replicas : q # r => JobOK(q)'
      BY <1>1, <2>5, JobStable DEF NotifySucceeds, TypeOK
    <3>2. JobOK(r)'
      BY <2>5 DEF NotifySucceeds, JobOK, JobInv, TypeOK, api, Version
    <3> QED BY <2>5, <3>1, <3>2 DEF NotifySucceeds, TypeOK, JobInv
  <2> QED BY <2>1, <2>2, <2>3, <2>4, <2>5 DEF Reconcile
<1>6. TypeOK'
  BY <1>1, <1>2, <1>4, <1>5 DEF TypeOK, LogType, informer
<1> QED BY <1>3, <1>5, <1>6

\* Argo, the lease and the network keep the types and the bounds.
LEMMA EnvironmentWellFormed ==
  ASSUME WellFormed, (\E n \in Names : Argo(n)) \/ LoseLease \/ Network
  PROVE  WellFormed'
<1> USE DEF WellFormed
<1>1. LogType' /\ LogExtends
  <2>1. LogType
    BY DEF TypeOK, LogType
  <2>2. [Next]_vars
    BY DEF Next
  <2> QED BY <2>1, <2>2, NextLogStep, LogStepExtends
<1>2. UNCHANGED <<leading, informer, queue, delayed, worker>>
  BY DEF Argo, Submit, Delete, ChangePhase, ArgoMoves, LoseLease, Network, AcceptLate, LoseRequest
<1>3. CacheInv' /\ BufferInv'
  BY <1>1, <1>2, InformerStable
<1>4. JobInv'
  BY <1>1, <1>2, JobStable DEF JobInv, worker
<1>5. holder' \in Replicas \cup {NoReplica} /\ faults' \in Nat
  <2>1. holder' \in {holder, NoReplica} /\ faults' \in {faults, faults + 1}
    BY DEF Argo, Submit, Delete, ChangePhase, ArgoMoves, LoseLease, Network, AcceptLate,
           LoseRequest, Fault, api
  <2> QED BY <2>1 DEF TypeOK
<1>6. delivered' \subseteq Events /\ repeated' \subseteq delivered' /\ inFlight' \subseteq Events
  <2>1. CASE Network
    BY <2>1 DEF Network, AcceptLate, LoseRequest, Accept, TypeOK
  <2>2. CASE (\E n \in Names : Argo(n)) \/ LoseLease
    BY <2>2 DEF Argo, Submit, Delete, ChangePhase, ArgoMoves, LoseLease, webhook, TypeOK
  <2> QED BY <2>1, <2>2
<1>7. TypeOK'
  BY <1>1, <1>2, <1>5, <1>6 DEF TypeOK, LogType, informer, worker
<1> QED BY <1>3, <1>4, <1>7

LEMMA NextWellFormed == WellFormed /\ [Next]_vars => WellFormed'
<1> SUFFICES ASSUME WellFormed, [Next]_vars PROVE WellFormed'
  OBVIOUS
<1>1. CASE Next
  BY <1>1, ProcessWellFormed, InformerWellFormed, ReconcileWellFormed, EnvironmentWellFormed DEF Next
<1>2. CASE UNCHANGED vars
  BY <1>2 DEF vars, WellFormed, TypeOK, CacheInv, BufferInv, JobInv, JobOK, Version
<1> QED BY <1>1, <1>2

\* Caches and notifications stay inside the log, and a worker that posts or patches holds
\* a completed version of a workflow.
LEMMA AlwaysWellFormed == Spec => []WellFormed
  BY InitWellFormed, NextWellFormed, PTL DEF Spec

\* Every variable keeps its type, whatever the number of workflows, replicas and faults:
\* in particular only events of known workflows are ever posted
\* (workflow_controller.go:49-117).
THEOREM TypeCorrect == Spec => []TypeOK
<1>1. WellFormed => TypeOK
  BY DEF WellFormed
<1> QED BY <1>1, AlwaysWellFormed, PTL

--------------------------------------------------------------------------------
(* Delivery: nothing is invented, nothing is recorded too early                *)

\* Where a new version may come from.
Origin(n, obj) ==
    \/ obj = Absent
    \/ /\ obj.note = NoNote
       /\ obj.phase = "Unknown"
       /\ obj.uid = Len(log[n]) + 1
       /\ NameReuse \/ log[n] = <<>>
    \/ Present(Current(n)) /\ obj.uid = Current(n).uid /\ obj.note = Current(n).note
    \/ /\ Present(Current(n))
       /\ obj.uid = Current(n).uid /\ obj.phase = Current(n).phase
       /\ \E r \in Replicas :
            /\ pc[r] = "patch" /\ job[r].name = n
            /\ obj.note = EventOfJob(r).phase

OriginStep ==
    \/ UNCHANGED log
    \/ \E n \in Names : \E obj \in Objects : Write(n, obj) /\ Origin(n, obj)

LEMMA NextOriginStep ==
  ASSUME WellFormed, [Next]_vars
  PROVE  OriginStep
<1> USE DEF WellFormed
<1>t. LogType
  BY DEF TypeOK, LogType
<1>1. ASSUME NEW n \in Names, Submit(n) PROVE OriginStep
  <2> DEFINE obj == [uid |-> Len(log[n]) + 1, phase |-> "Unknown", note |-> NoNote]
  <2>1. obj \in Objects /\ Write(n, obj)
    BY <1>1, <1>t, CurrentType DEF Objects, Phases, NoNote, Submit
  <2>2. Origin(n, obj)
    BY <1>1 DEF Origin, Submit
  <2> QED BY <2>1, <2>2 DEF OriginStep
<1>2. ASSUME NEW n \in Names, Delete(n) PROVE OriginStep
  BY <1>2, AbsentIsObject DEF Delete, OriginStep, Origin
<1>3. ASSUME NEW n \in Names, NEW phase \in Phases, ChangePhase(n, phase) PROVE OriginStep
  <2> DEFINE obj == [Current(n) EXCEPT !.phase = phase]
  <2>1. obj \in Objects /\ obj.uid = Current(n).uid /\ obj.note = Current(n).note
    BY <1>t, CurrentType DEF Objects
  <2>2. Present(Current(n)) /\ Write(n, obj)
    BY <1>3 DEF ChangePhase
  <2> QED BY <2>1, <2>2 DEF OriginStep, Origin
<1>4. ASSUME NEW r \in Replicas, pc[r] = "patch", PatchOfJob(r) PROVE OriginStep
  <2> DEFINE n == job[r].name
             phase == EventOfJob(r).phase
             obj == [Current(n) EXCEPT !.note = phase]
  <2>1. phase \in Phases /\ n \in Names
    BY <1>4, EventOfJobType DEF Events
  <2>2. obj \in Objects /\ obj.uid = Current(n).uid /\ obj.note = phase
        /\ obj.phase = Current(n).phase
    BY <1>t, <2>1, CurrentType DEF Objects
  <2>3. (Present(Current(n)) /\ Write(n, obj)) \/ UNCHANGED log
    BY <1>4 DEF PatchOfJob, Annotate
  <2> QED BY <1>4, <2>1, <2>2, <2>3 DEF OriginStep, Origin
<1>5. LoseLease => OriginStep
  BY DEF LoseLease, OriginStep
<1>6. ASSUME NEW r \in Replicas, Process(r) PROVE OriginStep
  BY <1>6 DEF Process, Elect, Crash, StepDown, Stop, OriginStep
<1>7. ASSUME NEW r \in Replicas, Informer(r) PROVE OriginStep
  BY <1>7 DEF Informer, Relist, Observe, Resync, Dispatch, api, OriginStep
<1>8. ASSUME NEW r \in Replicas, Reconcile(r) PROVE OriginStep
  <2>1. Patch(r) => OriginStep
    BY <1>4 DEF Patch
  <2>2. PatchFails(r) => OriginStep
    BY <1>4 DEF PatchFails, OriginStep
  <2>3. NotifySucceeds(r) \/ NotifyFails(r) \/ Get(r) \/ GetFails(r) => OriginStep
    BY DEF NotifySucceeds, NotifyFails, Get, GetFails, api, OriginStep
  <2>4. ASSUME NEW n \in Names, Requeue(r, n) \/ Start(r, n) PROVE OriginStep
    BY <2>4 DEF Requeue, Start, api, OriginStep
  <2> QED BY <1>8, <2>1, <2>2, <2>3, <2>4 DEF Reconcile
<1>9. Network => OriginStep
  BY DEF Network, AcceptLate, LoseRequest, api, OriginStep
<1>10. UNCHANGED vars => OriginStep
  BY DEF vars, OriginStep
<1> QED BY <1>1, <1>2, <1>3, <1>5, <1>6, <1>7, <1>8, <1>9, <1>10 DEF Next, Argo

\* A completion stays on record in the log.
LEMMA CompletionsGrow ==
  ASSUME LogType, LogStep, NEW n \in Names, NEW e \in Completions(n)
  PROVE  e \in Completions(n)'
<1>1. PICK i \in DOMAIN log[n] : Completed(log[n][i].phase) /\ e = EventOf(n, log[n][i])
  BY DEF Completions
<1>2. log[n] \in Seq(Objects) /\ log'[n] \in Seq(Objects) /\ LogExtends
  BY LogStepExtends DEF LogType
<1>3. i \in 1 .. Len(log[n]) /\ i \in DOMAIN log'[n] /\ log'[n][i] = log[n][i]
  BY <1>1, <1>2 DEF LogExtends
<1> QED BY <1>1, <1>3 DEF Completions, EventOf, Completed

\* The event of a busy worker does not change while it works, and it is a completion.
LEMMA EventOfJobStable ==
  ASSUME WellFormed, LogExtends, NEW r \in Replicas, pc[r] \in {"notify", "patch"},
         job'[r] = job[r]
  PROVE  EventOfJob(r)' = EventOfJob(r)
<1>1. job[r].name \in Names /\ job[r].version \in 1 .. Len(log[job[r].name])
  BY DEF WellFormed, JobInv, JobOK
<1>2. log'[job[r].name][job[r].version] = log[job[r].name][job[r].version]
  BY <1>1 DEF LogExtends
<1> QED BY <1>2 DEF EventOfJob, EventOf, Version

LEMMA EventOfJobIsCompletion ==
  ASSUME WellFormed, NEW r \in Replicas, pc[r] \in {"notify", "patch"}
  PROVE  EventOfJob(r) \in Completions(EventOfJob(r).name)
<1>1. /\ job[r].name \in Names /\ job[r].version \in 1 .. Len(log[job[r].name])
      /\ Completed(Version(job[r].name, job[r].version).phase)
  BY DEF WellFormed, JobInv, JobOK
<1>2. log[job[r].name] \in Seq(Objects)
  BY <1>1 DEF WellFormed, TypeOK
<1>3. job[r].version \in DOMAIN log[job[r].name] /\ job[r].version # 0
  BY <1>1, <1>2
<1>4. EventOfJob(r) = EventOf(job[r].name, log[job[r].name][job[r].version])
  BY <1>3 DEF EventOfJob, Version
<1>5. EventOfJob(r).name = job[r].name
  BY <1>4 DEF EventOf
<1> QED BY <1>1, <1>3, <1>4, <1>5 DEF Completions, Version

\* Strengthening of NothingInvented and RecordedAfterDelivery: requests still on their way
\* are completions too, and a worker that is about to patch has delivered its event.
HistoryInv == \A e \in delivered \cup inFlight : e \in Completions(e.name)
PatchInv == \A r \in Replicas : pc[r] = "patch" => EventOfJob(r) \in delivered
DeliveryInv == HistoryInv /\ PatchInv /\ RecordedAfterDelivery

LEMMA InitDelivery == Init => DeliveryInv
  BY DEF Init, DeliveryInv, HistoryInv, PatchInv, RecordedAfterDelivery

\* The only events a step adds are those of a busy worker, or requests already sent.
LEMMA NextEvents ==
  ASSUME WellFormed, [Next]_vars
  PROVE  /\ delivered \subseteq delivered'
         /\ \A e \in delivered' \cup inFlight' :
              \/ e \in delivered \cup inFlight
              \/ \E r \in Replicas : pc[r] = "notify" /\ e = EventOfJob(r)
<1>1. CASE \E n \in Names : Argo(n)
  BY <1>1 DEF Argo, Submit, Delete, ChangePhase, ArgoMoves, webhook
<1>2. CASE LoseLease
  BY <1>2 DEF LoseLease, webhook
<1>3. ASSUME NEW r \in Replicas, Process(r)
      PROVE  /\ delivered' = delivered
             /\ inFlight' = inFlight \/ (pc[r] = "notify" /\ inFlight' = inFlight \cup {EventOfJob(r)})
  BY <1>3 DEF Process, Elect, Crash, StepDown, Stop, webhook
<1>4. ASSUME NEW r \in Replicas, Informer(r) PROVE UNCHANGED webhook
  BY <1>4 DEF Informer, Relist, Observe, Resync, Dispatch
<1>5. ASSUME NEW r \in Replicas, Reconcile(r)
      PROVE  /\ delivered' = delivered \/ (pc[r] = "notify" /\ delivered' = delivered \cup {EventOfJob(r)})
             /\ inFlight' = inFlight \/ (pc[r] = "notify" /\ inFlight' = inFlight \cup {EventOfJob(r)})
  <2>1. CASE NotifySucceeds(r) \/ NotifyFails(r)
    BY <2>1 DEF NotifySucceeds, NotifyFails, Accept, GivesUpOn
  <2>2. CASE ~(NotifySucceeds(r) \/ NotifyFails(r))
    BY <1>5, <2>2 DEF Reconcile, Requeue, Start, Get, GetFails, Patch, PatchFails, webhook
  <2> QED BY <2>1, <2>2
<1>6. CASE Network
  BY <1>6 DEF Network, AcceptLate, LoseRequest, Accept
<1>7. CASE UNCHANGED vars
  BY <1>7 DEF vars
<1> QED BY <1>1, <1>2, <1>3, <1>4, <1>5, <1>6, <1>7 DEF Next, webhook

\* A worker that is in front of the patch after a step was there before, or has just
\* delivered its event.
LEMMA NextPatching ==
  ASSUME WellFormed, [Next]_vars, NEW r \in Replicas, pc'[r] = "patch"
  PROVE  /\ job'[r] = job[r] /\ pc[r] \in {"notify", "patch"}
         /\ pc[r] = "notify" => EventOfJob(r) \in delivered'
<1> USE DEF WellFormed, TypeOK
<1>1. CASE (\E n \in Names : Argo(n)) \/ LoseLease \/ Network
  BY <1>1 DEF Argo, Submit, Delete, ChangePhase, ArgoMoves, LoseLease, Network, AcceptLate, LoseRequest, worker
<1>2. ASSUME NEW q \in Replicas, Process(q) PROVE pc'[r] = pc[r] /\ job'[r] = job[r]
  BY <1>2 DEF Process, Elect, Crash, StepDown, Stop, worker
<1>3. ASSUME NEW q \in Replicas, Informer(q) PROVE UNCHANGED worker
  BY <1>3 DEF Informer, Relist, Observe, Resync, Dispatch
<1>4. ASSUME NEW q \in Replicas, Reconcile(q), q # r PROVE pc'[r] = pc[r] /\ job'[r] = job[r]
  <2>1. ASSUME NEW n \in Names, Requeue(q, n) \/ Start(q, n) PROVE pc'[r] = pc[r] /\ job'[r] = job[r]
    BY <1>4, <2>1 DEF Requeue, Start, worker
  <2>2. CASE Get(q)
    BY <1>4, <2>2 DEF Get, Return
  <2>3. CASE GetFails(q) \/ NotifyFails(q) \/ Patch(q) \/ PatchFails(q)
    BY <1>4, <2>3 DEF GetFails, NotifyFails, Patch, PatchFails, Return, ReturnError
  <2>4. CASE NotifySucceeds(q)
    BY <1>4, <2>4 DEF NotifySucceeds
  <2> QED BY <1>4, <2>1, <2>2, <2>3, <2>4 DEF Reconcile
<1>5. CASE Reconcile(r)
  <2>1. ASSUME NEW n \in Names, Requeue(r, n) \/ Start(r, n) PROVE UNCHANGED worker \/ pc'[r] = "get"
    BY <2>1 DEF Requeue, Start
  <2>2. Get(r) => pc'[r] # "patch"
    BY DEF Get, Return
  <2>3. GetFails(r) \/ NotifyFails(r) \/ Patch(r) \/ PatchFails(r) => pc'[r] # "patch"
    BY DEF GetFails, NotifyFails, Patch, PatchFails, Return, ReturnError
  <2>4. NotifySucceeds(r) => pc[r] = "notify" /\ job'[r] = job[r] /\ EventOfJob(r) \in delivered'
    BY DEF NotifySucceeds, Accept
  <2> QED BY <1>5, <2>1, <2>2, <2>3, <2>4 DEF Reconcile, worker
<1>6. CASE UNCHANGED vars
  BY <1>6 DEF vars
<1> QED BY <1>1, <1>2, <1>3, <1>4, <1>5, <1>6 DEF Next, worker

LEMMA NextDelivery == WellFormed /\ DeliveryInv /\ [Next]_vars => DeliveryInv'
<1> SUFFICES ASSUME WellFormed, DeliveryInv, [Next]_vars PROVE DeliveryInv'
  OBVIOUS
<1>1. LogType /\ LogStep /\ LogExtends
  <2>1. LogType
    BY DEF WellFormed, TypeOK, LogType
  <2> QED BY <2>1, NextLogStep, LogStepExtends
<1>2. HistoryInv'
  <2> SUFFICES ASSUME NEW e \in delivered' \cup inFlight' PROVE e \in Completions(e.name)'
    BY DEF HistoryInv
  <2>1. e \in Completions(e.name) /\ e.name \in Names
    <3>1. CASE e \in delivered \cup inFlight
      BY <3>1 DEF DeliveryInv, HistoryInv, WellFormed, TypeOK, Events
    <3>2. CASE \E r \in Replicas : pc[r] = "notify" /\ e = EventOfJob(r)
      BY <3>2, EventOfJobIsCompletion, EventOfJobType
    <3> QED BY <3>1, <3>2, NextEvents
  <2> QED BY <1>1, <2>1, CompletionsGrow
<1>3. PatchInv'
  <2> SUFFICES ASSUME NEW r \in Replicas, pc'[r] = "patch" PROVE EventOfJob(r)' \in delivered'
    BY DEF PatchInv
  <2>1. EventOfJob(r)' = EventOfJob(r)
    BY <1>1, NextPatching, EventOfJobStable
  <2> QED BY <2>1, NextPatching, NextEvents DEF DeliveryInv, PatchInv
<1>4. RecordedAfterDelivery'
  <2> SUFFICES ASSUME NEW n \in Names, NEW i \in DOMAIN log'[n], log'[n][i].note # NoNote
               PROVE  \E e \in delivered' : e.name = n /\ e.phase = log'[n][i].note
    BY DEF RecordedAfterDelivery
  <2>1. /\ log[n] \in Seq(Objects) /\ log'[n] \in Seq(Objects)
        /\ DOMAIN log[n] = 1 .. Len(log[n]) /\ Len(log[n]) \in Nat
    BY <1>1, LogStepExtends DEF LogType
  <2>2. delivered \subseteq delivered'
    BY NextEvents
  <2>3. ASSUME NEW j \in DOMAIN log[n], log[n][j].note # NoNote
        PROVE  \E e \in delivered' : e.name = n /\ e.phase = log[n][j].note
    BY <2>2, <2>3 DEF DeliveryInv, RecordedAfterDelivery
  <2>4. CASE i \in DOMAIN log[n]
    BY <1>1, <2>1, <2>3, <2>4 DEF LogExtends
  <2>5. CASE i \notin DOMAIN log[n]
    <3>1. PICK obj \in Objects : Write(n, obj) /\ Origin(n, obj)
      BY <2>5, NextOriginStep, <1>1 DEF OriginStep, Write, LogType
    <3>2. log'[n] = Append(log[n], obj)
      BY <1>1, <3>1 DEF Write, LogType
    <3>3. i = Len(log[n]) + 1 /\ log'[n][i] = obj
      BY <2>1, <2>5, <3>2
    <3>4. CASE Present(Current(n)) /\ obj.note = Current(n).note
      <4>1. Len(log[n]) \in DOMAIN log[n] /\ Current(n) = log[n][Len(log[n])]
        BY <2>1, <3>4, AbsentIsObject DEF Current, Version, Present, Absent
      <4> QED BY <2>3, <3>3, <3>4, <4>1
    <3>5. ASSUME NEW r \in Replicas, pc[r] = "patch", job[r].name = n, obj.note = EventOfJob(r).phase
          PROVE  \E e \in delivered' : e.name = n /\ e.phase = obj.note
      BY <2>2, <3>5, EventOfJobType DEF DeliveryInv, PatchInv
    <3> QED BY <3>1, <3>3, <3>4, <3>5, AbsentIsObject DEF Origin
  <2> QED BY <2>4, <2>5
<1> QED BY <1>2, <1>3, <1>4 DEF DeliveryInv

LEMMA AlwaysDelivery == Spec => [](WellFormed /\ DeliveryInv)
  BY InitWellFormed, InitDelivery, NextWellFormed, NextDelivery, PTL DEF Spec

\* However stale the caches, whichever replica crashed or lost the lease, and however late a
\* request arrived, every event the webhook accepts is a completion that really happened
\* (eventFor, workflow_controller.go:96-117).
THEOREM NothingIsInvented == Spec => []NothingInvented
<1>1. WellFormed /\ DeliveryInv => NothingInvented
  BY DEF DeliveryInv, HistoryInv, NothingInvented
<1> QED BY <1>1, AlwaysDelivery, PTL

\* The annotation is never ahead of the webhook (controller/README.md:18), also when names
\* are reused and replicas overlap.
THEOREM NeverRecordedTooEarly == Spec => []RecordedAfterDelivery
<1>1. WellFormed /\ DeliveryInv => RecordedAfterDelivery
  BY DEF DeliveryInv
<1> QED BY <1>1, AlwaysDelivery, PTL

--------------------------------------------------------------------------------
(* Names used once: the record belongs to the workflow that carries it         *)

\* Every version of a name that is never reused is absent or of the first incarnation.
UidInv ==
    \A n \in Names : \A i \in DOMAIN log[n] :
        log[n][i] = Absent \/ log[n][i].uid = 1

LEMMA CurrentUid ==
  ASSUME WellFormed, UidInv, NEW n \in Names, NEW i \in 0 .. Len(log[n]), Present(Version(n, i))
  PROVE  Version(n, i).uid = 1 /\ i \in DOMAIN log[n] /\ Version(n, i) = log[n][i]
<1>1. log[n] \in Seq(Objects) /\ i # 0
  BY DEF WellFormed, TypeOK, Version, Present, Absent
<1>2. i \in DOMAIN log[n] /\ Version(n, i) = log[n][i]
  BY <1>1 DEF Version
<1> QED BY <1>2 DEF UidInv, Present, Absent

LEMMA NextUid ==
  ASSUME ~NameReuse, WellFormed, UidInv, [Next]_vars
  PROVE  UidInv'
<1>1. LogType /\ LogStep /\ LogExtends
  <2>1. LogType
    BY DEF WellFormed, TypeOK, LogType
  <2> QED BY <2>1, NextLogStep, LogStepExtends
<1> SUFFICES ASSUME NEW n \in Names, NEW i \in DOMAIN log'[n]
             PROVE  log'[n][i] = Absent \/ log'[n][i].uid = 1
  BY DEF UidInv, Absent
<1>2. /\ log[n] \in Seq(Objects) /\ log'[n] \in Seq(Objects)
      /\ DOMAIN log[n] = 1 .. Len(log[n]) /\ Len(log[n]) \in Nat
  BY <1>1, LogStepExtends DEF LogType
<1>3. CASE i \in DOMAIN log[n]
  BY <1>1, <1>2, <1>3 DEF LogExtends, UidInv
<1>4. CASE i \notin DOMAIN log[n]
  <2>1. PICK obj \in Objects : Write(n, obj) /\ Origin(n, obj)
    BY <1>1, <1>4, NextOriginStep DEF OriginStep, Write, LogType
  <2>2. log'[n] = Append(log[n], obj)
    BY <1>1, <2>1 DEF Write, LogType
  <2>3. log'[n][i] = obj
    BY <1>2, <1>4, <2>2
  <2>4. Present(Current(n)) => Current(n).uid = 1
    <3>1. Len(log[n]) \in 0 .. Len(log[n])
      BY <1>2
    <3> QED BY <3>1, CurrentUid DEF Current
  <2>5. log[n] = <<>> => Len(log[n]) + 1 = 1
    OBVIOUS
  <2> QED BY <2>1, <2>3, <2>4, <2>5 DEF Origin
<1> QED BY <1>3, <1>4

\* With one uid per name, what is recorded on a workflow was delivered for that workflow: the
\* wakeups need it, as only then does an annotation that is there stand for a delivery.
RecordedForSame ==
    \A n \in Names : \A i \in DOMAIN log[n] :
        log[n][i].note # NoNote =>
            [name |-> n, uid |-> log[n][i].uid, phase |-> log[n][i].note] \in delivered

LEMMA NextRecordedForSame ==
  ASSUME ~NameReuse, WellFormed, DeliveryInv, UidInv, RecordedForSame, [Next]_vars
  PROVE  RecordedForSame'
<1>1. LogType /\ LogStep /\ LogExtends
  <2>1. LogType
    BY DEF WellFormed, TypeOK, LogType
  <2> QED BY <2>1, NextLogStep, LogStepExtends
<1> SUFFICES ASSUME NEW n \in Names, NEW i \in DOMAIN log'[n], log'[n][i].note # NoNote
             PROVE  [name |-> n, uid |-> log'[n][i].uid, phase |-> log'[n][i].note] \in delivered'
  BY DEF RecordedForSame
<1>2. /\ log[n] \in Seq(Objects) /\ log'[n] \in Seq(Objects)
      /\ DOMAIN log[n] = 1 .. Len(log[n]) /\ Len(log[n]) \in Nat
  BY <1>1, LogStepExtends DEF LogType
<1>3. delivered \subseteq delivered'
  BY NextEvents
<1>4. CASE i \in DOMAIN log[n]
  <2>1. log'[n][i] = log[n][i]
    BY <1>1, <1>2, <1>4 DEF LogExtends
  <2>2. [name |-> n, uid |-> log[n][i].uid, phase |-> log[n][i].note] \in delivered
    BY <1>4, <2>1 DEF RecordedForSame
  <2> QED BY <1>3, <2>1, <2>2
<1>5. CASE i \notin DOMAIN log[n]
  <2>1. PICK obj \in Objects : Write(n, obj) /\ Origin(n, obj)
    BY <1>1, <1>5, NextOriginStep DEF OriginStep, Write, LogType
  <2>2. log'[n] = Append(log[n], obj)
    BY <1>1, <2>1 DEF Write, LogType
  <2>3. log'[n][i] = obj
    BY <1>2, <1>5, <2>2
  <2>4. ASSUME Present(Current(n))
        PROVE  /\ Current(n).uid = 1 /\ Len(log[n]) \in DOMAIN log[n]
               /\ Current(n) = log[n][Len(log[n])]
    <3>1. Len(log[n]) \in 0 .. Len(log[n])
      BY <1>2
    <3> QED BY <2>4, <3>1, CurrentUid DEF Current
  <2>5. CASE Present(Current(n)) /\ obj.uid = Current(n).uid /\ obj.note = Current(n).note
    BY <1>3, <2>3, <2>4, <2>5 DEF RecordedForSame
  <2>6. ASSUME NEW r \in Replicas, pc[r] = "patch", job[r].name = n,
               obj.note = EventOfJob(r).phase, obj.uid = Current(n).uid, Present(Current(n))
        PROVE  [name |-> n, uid |-> obj.uid, phase |-> obj.note] \in delivered'
    <3>1. /\ job[r].version \in 0 .. Len(log[n])
          /\ Completed(Version(n, job[r].version).phase)
      BY <2>6 DEF WellFormed, JobInv, JobOK
    <3>2. Version(n, job[r].version) \in Objects /\ Version(n, job[r].version) # Absent
      BY <1>1, <3>1, VersionType, AbsentIsObject DEF Completed
    <3>3. Version(n, job[r].version).uid = 1
      <4>1. log[n] \in Seq(Objects) /\ job[r].version # 0 /\ job[r].version \in DOMAIN log[n]
        BY <1>2, <3>1, <3>2 DEF Version
      <4> QED BY <3>2, <4>1 DEF UidInv, Version
    <3>4. EventOfJob(r) = [name |-> n, uid |-> obj.uid, phase |-> obj.note]
      BY <2>4, <2>6, <3>3 DEF EventOfJob, EventOf
    <3> QED BY <1>3, <2>6, <3>4 DEF DeliveryInv, PatchInv
  <2> QED BY <2>1, <2>3, <2>5, <2>6, AbsentIsObject DEF Origin
<1> QED BY <1>4, <1>5

SameInv == WellFormed /\ DeliveryInv /\ UidInv /\ RecordedForSame

--------------------------------------------------------------------------------
(* No lost wakeup                                                              *)

Cached(r, n) == Version(n, cache[r][n])

\* Something in replica r will still lead to a look at name n: a queue entry, a backoff, a
\* notification that passes, or the worker, before it has dealt with the cached completion.
Noticed(r, n) ==
    \/ n \in queue[r] \cup delayed[r]
    \/ \E k \in 1 .. Len(buffer[r][n]) : Passes(n, buffer[r][n][k])
    \/ pc[r] = "get" /\ job[r].name = n
    \/ /\ pc[r] \in {"notify", "patch"} /\ job[r].name = n
       /\ EventOfJob(r) = EventOf(n, Cached(r, n))

\* Some version of the log carries the phase in the annotation, or the workflow is deleted.
Closed(n, phase) ==
    \/ \E k \in DOMAIN log[n] : log[n][k].note = phase
    \/ log[n] # <<>> /\ ~Present(Current(n))

\* While names are not reused, a step opens nothing again.
StaysClosed == \A n \in Names : \A phase \in Phases : Closed(n, phase) => Closed(n, phase)'

\* A completion the cache knows is delivered and recorded, or the replica will still look
\* at it.
WakeupAt(r, n) ==
    Completed(Cached(r, n).phase) =>
        \/ EventOf(n, Cached(r, n)) \in delivered /\ Closed(n, Cached(r, n).phase)
        \/ Noticed(r, n)

WakeupInv == \A r \in Replicas : \A n \in Names : WakeupAt(r, n)

\* What the informer knows of the log reads the same after a step.
LEMMA PassesStable ==
  ASSUME LogExtends, NEW n \in Names,
         NEW moved \in [old : 0 .. Len(log[n]), new : 0 .. Len(log[n])], Passes(n, moved)
  PROVE  Passes(n, moved)'
<1>1. /\ moved.old # 0 => log'[n][moved.old] = log[n][moved.old]
      /\ moved.new # 0 => log'[n][moved.new] = log[n][moved.new]
  BY DEF LogExtends
<1> QED BY <1>1 DEF Passes, PhaseChanged, IsCreate, IsUpdate, Present, Version

LEMMA CachedStable ==
  ASSUME WellFormed, LogExtends, NEW r \in Replicas, NEW n \in Names, cache'[r][n] = cache[r][n]
  PROVE  Cached(r, n)' = Cached(r, n)
<1>1. cache[r][n] \in 0 .. Len(log[n])
  BY DEF WellFormed, TypeOK, CacheInv
<1> QED BY <1>1 DEF LogExtends, Cached, Version

LEMMA CachedType ==
  ASSUME WellFormed, NEW r \in Replicas, NEW n \in Names
  PROVE  Cached(r, n) \in Objects /\ Cached(r, n).phase \in Phases
<1>1. cache[r][n] \in 0 .. Len(log[n])
  BY DEF WellFormed, TypeOK, CacheInv
<1>2. Cached(r, n) \in Objects
  BY <1>1, VersionType DEF WellFormed, TypeOK, LogType, Cached
<1> QED BY <1>2 DEF Objects

LEMMA MovedType ==
  ASSUME WellFormed, NEW r \in Replicas, NEW n \in Names, NEW k \in 1 .. Len(buffer[r][n])
  PROVE  /\ buffer[r][n][k] \in [old : 0 .. Len(log[n]), new : 0 .. Len(log[n])]
         /\ Len(log[n]) \in Nat /\ Len(buffer[r][n]) \in Nat
<1>1. buffer[r][n] \in Seq([old : Nat, new : Nat]) /\ log[n] \in Seq(Objects)
  BY DEF WellFormed, TypeOK
<1>2. buffer[r][n][k] \in [old : Nat, new : Nat]
  BY <1>1, ElementOfSeq
<1>3. buffer[r][n][k].old <= Len(log[n]) /\ buffer[r][n][k].new <= Len(log[n])
  BY DEF WellFormed, BufferInv
<1>4. PICK moved \in [old : Nat, new : Nat] : moved = buffer[r][n][k]
  BY <1>2
<1>5. Len(log[n]) \in Nat /\ Len(buffer[r][n]) \in Nat
  BY <1>1, LenProperties
<1>6. moved.old \in 0 .. Len(log[n]) /\ moved.new \in 0 .. Len(log[n])
  BY <1>3, <1>4, <1>5
<1>7. moved \in [old : 0 .. Len(log[n]), new : 0 .. Len(log[n])]
  BY <1>6
<1> QED BY <1>4, <1>5, <1>7

\* A notification that passes still passes after a step, wherever it now is in the buffer.
LEMMA PassesKept ==
  ASSUME WellFormed, LogExtends, NEW r \in Replicas, NEW n \in Names,
         NEW k \in 1 .. Len(buffer[r][n]), Passes(n, buffer[r][n][k]),
         NEW j, buffer'[r][n][j] = buffer[r][n][k]
  PROVE  Passes(n, buffer[r][n][j])'
<1>1. PICK moved \in [old : 0 .. Len(log[n]), new : 0 .. Len(log[n])] : moved = buffer[r][n][k]
  BY MovedType
<1>2. Passes(n, moved)'
  BY <1>1, PassesStable
<1> QED BY <1>1, <1>2 DEF Passes

\* A step that leaves the cache, the notifications and the queues of a name alone, and does
\* not take the name away from the worker, keeps the promise for it.
LEMMA WakeupStable ==
  ASSUME WellFormed, LogExtends, StaysClosed, NEW r \in Replicas, NEW n \in Names,
         WakeupAt(r, n), delivered \subseteq delivered',
         cache'[r][n] = cache[r][n], buffer'[r][n] = buffer[r][n],
         n \in queue[r] \cup delayed[r] => n \in queue'[r] \cup delayed'[r],
         \/ pc'[r] = pc[r] /\ job'[r] = job[r]
         \/ pc'[r] = "patch" /\ pc[r] = "notify" /\ job'[r] = job[r]
         \/ pc[r] = "idle" \/ job[r].name # n
         \/ pc[r] \in {"notify", "patch"} /\ EventOfJob(r) # EventOf(n, Cached(r, n))
  PROVE  WakeupAt(r, n)'
<1>1. Cached(r, n)' = Cached(r, n) /\ EventOf(n, Cached(r, n))' = EventOf(n, Cached(r, n))
  BY CachedStable DEF EventOf
<1>2. CASE ~Completed(Cached(r, n).phase)
  BY <1>1, <1>2 DEF WakeupAt, Completed
<1>2a. CASE EventOf(n, Cached(r, n)) \in delivered /\ Closed(n, Cached(r, n).phase)
  <2>1. Closed(n, Cached(r, n).phase)'
    BY <1>1, <1>2a, CachedType DEF StaysClosed, Closed
  <2> QED BY <1>1, <1>2a, <2>1 DEF WakeupAt
<1>3. CASE n \in queue[r] \cup delayed[r]
  BY <1>3 DEF WakeupAt, Noticed
<1>4. ASSUME NEW k \in 1 .. Len(buffer[r][n]), Passes(n, buffer[r][n][k])
      PROVE  WakeupAt(r, n)'
  BY <1>4, PassesKept DEF WakeupAt, Noticed
<1>5. CASE pc[r] = "get" /\ job[r].name = n
  BY <1>5 DEF WakeupAt, Noticed
<1>6. CASE /\ pc[r] \in {"notify", "patch"} /\ job[r].name = n
           /\ EventOfJob(r) = EventOf(n, Cached(r, n))
  <2>1. pc'[r] \in {"notify", "patch"} /\ job'[r] = job[r]
    BY <1>6
  <2>2. EventOfJob(r)' = EventOfJob(r)
    BY <1>6, <2>1, EventOfJobStable
  <2> QED BY <1>1, <1>6, <2>1, <2>2 DEF WakeupAt, Noticed
<1> QED BY <1>2, <1>2a, <1>3, <1>4, <1>5, <1>6 DEF WakeupAt, Noticed

\* The informer: every version it moves to is either announced by a notification that
\* passes or shows the completion the version before it showed.
LEMMA MoveIsNoticed ==
  ASSUME WellFormed, UidInv, NEW n \in Names,
         NEW i \in 0 .. Len(log[n]), NEW j \in 0 .. Len(log[n]),
         Completed(Version(n, j).phase), ~Passes(n, [old |-> i, new |-> j])
  PROVE  Completed(Version(n, i).phase) /\ EventOf(n, Version(n, j)) = EventOf(n, Version(n, i))
<1>1. Version(n, j) # Absent
  BY AbsentIsObject DEF Completed
<1>2. Present(Version(n, j))
  <2>1. log[n] \in Seq(Objects)
    BY DEF WellFormed, TypeOK
  <2>2. j \in DOMAIN log[n] /\ Version(n, j) = log[n][j]
    BY <1>1, <2>1 DEF Version
  <2> QED BY <1>1, <2>2 DEF UidInv, Present
<1>3. ~PhaseChanged(Version(n, i), Version(n, j))
  BY DEF Passes
<1>4. Present(Version(n, i)) /\ Version(n, i).phase = Version(n, j).phase
  BY <1>2, <1>3 DEF PhaseChanged, IsCreate, IsUpdate
<1>5. Version(n, i).uid = 1 /\ Version(n, j).uid = 1
  BY <1>2, <1>4, CurrentUid
<1> QED BY <1>4, <1>5 DEF EventOf

\* A move of the cache from version i to version j, whose notification joins the buffer.
LEMMA MoveWakeup ==
  ASSUME WellFormed, UidInv, NEW q \in Replicas, NEW m \in Names, WakeupAt(q, m),
         UNCHANGED <<log, delivered, delayed, pc, job>>, LogExtends,
         NEW i \in 0 .. Len(log[m]), NEW j \in 0 .. Len(log[m]),
         i = cache[q][m], cache'[q][m] = j, queue'[q] = queue[q],
         \/ buffer'[q][m] = Append(buffer[q][m], [old |-> i, new |-> j])
         \/ buffer'[q][m] = buffer[q][m] \o Notification(m, i, j)
  PROVE  WakeupAt(q, m)'
<1>1. CASE ~Completed(Version(m, j).phase)
  BY <1>1 DEF WakeupAt, Cached, Version, Completed
<1>2. CASE Completed(Version(m, j).phase)
  <2>1. buffer[q][m] \in Seq([old : Nat, new : Nat]) /\ [old |-> i, new |-> j] \in [old : Nat, new : Nat]
    BY DEF WellFormed, TypeOK
  <2>2. Version(m, j) # Absent /\ Present(Version(m, j))
    <3>1. Version(m, j) # Absent
      BY <1>2, AbsentIsObject DEF Completed
    <3>2. log[m] \in Seq(Objects) /\ j # 0
      BY <3>1 DEF WellFormed, TypeOK, Version
    <3>3. j \in DOMAIN log[m] /\ Version(m, j) = log[m][j]
      BY <3>2 DEF Version
    <3> QED BY <3>1, <3>3 DEF UidInv, Present
  <2>3. Notification(m, i, j) = <<[old |-> i, new |-> j]>>
    BY <2>2 DEF Notification
  <2>4. PICK k \in 1 .. Len(buffer'[q][m]) :
          /\ buffer'[q][m][k] = [old |-> i, new |-> j]
          /\ \A l \in 1 .. Len(buffer[q][m]) :
                l \in 1 .. Len(buffer'[q][m]) /\ buffer'[q][m][l] = buffer[q][m][l]
    <3>1. buffer'[q][m] = Append(buffer[q][m], [old |-> i, new |-> j])
      <4>1. PICK b \in Seq([old : Nat, new : Nat]), moved \in [old : Nat, new : Nat] :
              b = buffer[q][m] /\ moved = [old |-> i, new |-> j]
        BY <2>1
      <4>2. b \o <<moved>> = Append(b, moved)
        BY AppendIsConcat
      <4> QED BY <2>3, <4>1, <4>2
    <3>2. /\ Len(buffer[q][m]) \in Nat
          /\ Len(buffer'[q][m]) = Len(buffer[q][m]) + 1
          /\ \A l \in 1 .. Len(buffer[q][m]) : buffer'[q][m][l] = buffer[q][m][l]
          /\ buffer'[q][m][Len(buffer[q][m]) + 1] = [old |-> i, new |-> j]
      <4>1. PICK b \in Seq([old : Nat, new : Nat]), moved \in [old : Nat, new : Nat] :
              b = buffer[q][m] /\ moved = [old |-> i, new |-> j]
        BY <2>1
      <4>2. /\ Len(b) \in Nat /\ Len(Append(b, moved)) = Len(b) + 1
            /\ \A l \in 1 .. Len(b) : Append(b, moved)[l] = b[l]
            /\ Append(b, moved)[Len(b) + 1] = moved
        BY AppendProperties, LenProperties
      <4> QED BY <3>1, <4>1, <4>2
    <3>3. Len(buffer[q][m]) + 1 \in 1 .. Len(buffer'[q][m])
      BY <3>2
    <3>4. \A l \in 1 .. Len(buffer[q][m]) : l \in 1 .. Len(buffer'[q][m])
      BY <3>2
    <3> QED BY <3>2, <3>3, <3>4
  <2>5. CASE Passes(m, [old |-> i, new |-> j])
    <3>1. Passes(m, [old |-> i, new |-> j])'
      BY <2>5, PassesStable
    <3>2. Passes(m, buffer[q][m][k])'
      BY <2>4, <3>1 DEF Passes
    <3> QED BY <2>4, <3>2 DEF WakeupAt, Noticed
  <2>6. CASE ~Passes(m, [old |-> i, new |-> j])
    <3>1. /\ Completed(Cached(q, m).phase)
          /\ EventOf(m, Version(m, j)) = EventOf(m, Cached(q, m))
      BY <1>2, <2>6, MoveIsNoticed DEF Cached
    <3>2. /\ EventOf(m, Cached(q, m))' = EventOf(m, Cached(q, m))
          /\ Cached(q, m).phase' = Cached(q, m).phase
      BY <3>1 DEF Cached, Version, EventOf
    <3>3. \/ EventOf(m, Cached(q, m)) \in delivered /\ Closed(m, Cached(q, m).phase)
          \/ Noticed(q, m)
      BY <3>1 DEF WakeupAt
    <3>c. Closed(m, Cached(q, m).phase) => Closed(m, Cached(q, m).phase)'
      BY <3>2 DEF Closed, Current, Version
    <3>4. ASSUME NEW l \in 1 .. Len(buffer[q][m]), Passes(m, buffer[q][m][l])
          PROVE  WakeupAt(q, m)'
      <4>1. buffer'[q][m][l] = buffer[q][m][l] /\ l \in 1 .. Len(buffer'[q][m])
        BY <2>4
      <4>2. Passes(m, buffer[q][m][l])'
        BY <3>4, <4>1, PassesKept
      <4> QED BY <4>1, <4>2 DEF WakeupAt, Noticed
    <3>5. CASE /\ pc[q] \in {"notify", "patch"} /\ job[q].name = m
               /\ EventOfJob(q) = EventOf(m, Cached(q, m))
      <4>1. EventOfJob(q)' = EventOfJob(q)
        BY <3>5, EventOfJobStable
      <4> QED BY <3>2, <3>5, <4>1 DEF WakeupAt, Noticed
    <3>6. CASE EventOf(m, Cached(q, m)) \in delivered /\ Closed(m, Cached(q, m).phase)
      BY <3>2, <3>6, <3>c DEF WakeupAt
    <3>7. CASE m \in queue[q] \cup delayed[q] \/ (pc[q] = "get" /\ job[q].name = m)
      BY <3>7 DEF WakeupAt, Noticed
    <3> QED BY <3>3, <3>4, <3>5, <3>6, <3>7 DEF Noticed
  <2> QED BY <2>5, <2>6
<1> QED BY <1>1, <1>2

\* The handler takes the oldest notification and queues the name if it passes.
LEMMA DispatchWakeup ==
  ASSUME WellFormed, NEW q \in Replicas, NEW m \in Names, WakeupAt(q, m),
         UNCHANGED <<log, cache, delivered, delayed, pc, job>>, LogExtends,
         buffer[q][m] # <<>>, buffer'[q][m] = Tail(buffer[q][m]),
         queue'[q] = IF Passes(m, Head(buffer[q][m])) THEN queue[q] \cup {m} ELSE queue[q]
  PROVE  WakeupAt(q, m)'
<1>1. CASE m \in queue'[q] \cup delayed[q]
  BY <1>1 DEF WakeupAt, Noticed
<1>2. CASE m \notin queue'[q] \cup delayed[q]
  <2>1. ~Passes(m, Head(buffer[q][m])) /\ m \notin queue[q] \cup delayed[q]
    BY <1>2
  <2>2. /\ Len(buffer[q][m]) \in Nat /\ Len(buffer'[q][m]) = Len(buffer[q][m]) - 1
        /\ \A k \in 1 .. Len(buffer'[q][m]) : buffer'[q][m][k] = buffer[q][m][k + 1]
    <3>1. PICK b \in Seq([old : Nat, new : Nat]) : b = buffer[q][m]
      BY DEF WellFormed, TypeOK
    <3>2. /\ Len(b) \in Nat /\ Len(Tail(b)) = Len(b) - 1
          /\ \A k \in 1 .. Len(Tail(b)) : Tail(b)[k] = b[k + 1]
      BY <3>1, HeadTailProperties, LenProperties
    <3> QED BY <3>1, <3>2
  <2>3. Cached(q, m)' = Cached(q, m) /\ EventOf(m, Cached(q, m))' = EventOf(m, Cached(q, m))
    BY DEF Cached, Version, EventOf
  <2>4. ASSUME NEW l \in 1 .. Len(buffer[q][m]), Passes(m, buffer[q][m][l])
        PROVE  WakeupAt(q, m)'
    <3>1. l # 1
      BY <2>1, <2>4 DEF Passes
    <3>2. PICK k \in 1 .. Len(buffer'[q][m]) : k + 1 = l
      <4>1. l - 1 \in 1 .. Len(buffer'[q][m]) /\ (l - 1) + 1 = l
        BY <2>2, <3>1
      <4> QED BY <4>1
    <3>3. buffer'[q][m][k] = buffer[q][m][l]
      BY <2>2, <3>2
    <3>4. Passes(m, buffer[q][m][k])'
      BY <2>4, <3>3, PassesKept
    <3> QED BY <3>4 DEF WakeupAt, Noticed
  <2>5. CASE /\ pc[q] \in {"notify", "patch"} /\ job[q].name = m
             /\ EventOfJob(q) = EventOf(m, Cached(q, m))
    <3>1. EventOfJob(q)' = EventOfJob(q)
      BY <2>5, EventOfJobStable
    <3> QED BY <2>3, <2>5, <3>1 DEF WakeupAt, Noticed
  <2>6. CASE \/ ~Completed(Cached(q, m).phase)
             \/ EventOf(m, Cached(q, m)) \in delivered /\ Closed(m, Cached(q, m).phase)
    <3>1. Closed(m, Cached(q, m).phase) => Closed(m, Cached(q, m).phase)'
      BY <2>3 DEF Closed, Current, Version
    <3> QED BY <2>3, <2>6, <3>1 DEF WakeupAt, Completed
  <2>7. CASE pc[q] = "get" /\ job[q].name = m
    BY <2>7 DEF WakeupAt, Noticed
  <2> QED BY <2>1, <2>4, <2>5, <2>6, <2>7 DEF WakeupAt, Noticed
<1> QED BY <1>1, <1>2

LEMMA InformerWakeup ==
  ASSUME WellFormed, UidInv, WakeupInv, NEW r \in Replicas, Informer(r)
  PROVE  WakeupInv'
<1>1. UNCHANGED <<log, delivered, delayed, pc, job>> /\ LogExtends
  <2>1. UNCHANGED <<log, delivered, delayed, pc, job>>
    BY DEF Informer, Relist, Observe, Resync, Dispatch, api, webhook, worker
  <2>2. LogType
    BY DEF WellFormed, TypeOK, LogType
  <2> QED BY <2>1, <2>2, LogStepExtends DEF LogStep
<1> SUFFICES ASSUME NEW q \in Replicas, NEW m \in Names PROVE WakeupAt(q, m)'
  BY DEF WakeupInv
<1>2. WakeupAt(q, m)
  BY DEF WakeupInv
<1>3. cache[q][m] \in 0 .. Len(log[m]) /\ Len(log[m]) \in 0 .. Len(log[m]) /\ Len(log[m]) \in Nat
  <2>1. log[m] \in Seq(Objects)
    BY DEF WellFormed, TypeOK
  <2>2. Len(log[m]) \in Nat
    BY <2>1, LenProperties
  <2> QED BY <2>2 DEF WellFormed, TypeOK, CacheInv
<1>c. StaysClosed
  BY <1>1 DEF StaysClosed, Closed, Current, Version
<1>4. ASSUME cache'[q][m] = cache[q][m], buffer'[q][m] = buffer[q][m], queue[q] \subseteq queue'[q]
      PROVE  WakeupAt(q, m)'
  BY <1>1, <1>2, <1>4, <1>c, WakeupStable
<1>5. CASE Relist(r)
  <2>1. queue' = queue
    BY <1>5 DEF Relist
  <2>2. CASE q = r /\ cache[q][m] < Len(log[m])
    <3>1. /\ cache'[q][m] = Len(log[m])
          /\ buffer'[q][m] = buffer[q][m] \o Notification(m, cache[q][m], Len(log[m]))
      BY <1>5, <2>2 DEF Relist, WellFormed, TypeOK
    <3> QED BY <1>1, <1>2, <1>3, <2>1, <3>1, MoveWakeup
  <2>3. CASE ~(q = r /\ cache[q][m] < Len(log[m]))
    <3>1. cache'[q][m] = cache[q][m] /\ buffer'[q][m] = buffer[q][m]
      BY <1>3, <1>5, <2>3 DEF Relist, WellFormed, TypeOK
    <3> QED BY <1>4, <2>1, <3>1
  <2> QED BY <2>2, <2>3
<1>6. ASSUME NEW n \in Names, Observe(r, n) PROVE WakeupAt(q, m)'
  <2>1. queue' = queue
    BY <1>6 DEF Observe
  <2>2. CASE q = r /\ m = n
    <3>1. PICK i \in 0 .. Len(log[m]), j \in 0 .. Len(log[m]) : i = cache[q][m] /\ j = i + 1
      BY <1>3, <1>6, <2>2 DEF Observe
    <3>2. cache'[q][m] = j /\ buffer'[q][m] = Append(buffer[q][m], [old |-> i, new |-> j])
      BY <1>6, <2>2, <3>1 DEF Observe, Moved, WellFormed, TypeOK
    <3> QED BY <1>1, <1>2, <2>1, <3>1, <3>2, MoveWakeup
  <2>3. CASE ~(q = r /\ m = n)
    <3>1. cache'[q][m] = cache[q][m] /\ buffer'[q][m] = buffer[q][m]
      BY <1>6, <2>3 DEF Observe, WellFormed, TypeOK
    <3> QED BY <1>4, <2>1, <3>1
  <2> QED BY <2>2, <2>3
<1>7. ASSUME NEW n \in Names, Resync(r, n) PROVE WakeupAt(q, m)'
  <2>1. queue' = queue /\ cache' = cache
    BY <1>7 DEF Resync
  <2>2. CASE q = r /\ m = n
    <3>1. PICK i \in 0 .. Len(log[m]) : i = cache[q][m]
      BY <1>3
    <3>2. cache'[q][m] = i /\ buffer'[q][m] = Append(buffer[q][m], [old |-> i, new |-> i])
      BY <1>7, <2>1, <2>2, <3>1 DEF Resync, Moved, WellFormed, TypeOK
    <3> QED BY <1>1, <1>2, <2>1, <3>1, <3>2, MoveWakeup
  <2>3. CASE ~(q = r /\ m = n)
    <3>1. buffer'[q][m] = buffer[q][m]
      BY <1>7, <2>3 DEF Resync, WellFormed, TypeOK
    <3> QED BY <1>4, <2>1, <3>1
  <2> QED BY <2>2, <2>3
<1>8. ASSUME NEW n \in Names, Dispatch(r, n) PROVE WakeupAt(q, m)'
  <2>1. cache' = cache
    BY <1>8 DEF Dispatch
  <2>2. CASE q = r /\ m = n
    <3>1. /\ buffer[q][m] # <<>> /\ buffer'[q][m] = Tail(buffer[q][m])
          /\ queue'[q] = IF Passes(m, Head(buffer[q][m])) THEN queue[q] \cup {m} ELSE queue[q]
      BY <1>8, <2>2 DEF Dispatch, WellFormed, TypeOK
    <3> QED BY <1>1, <1>2, <2>1, <3>1, DispatchWakeup
  <2>3. CASE ~(q = r /\ m = n)
    <3>1. buffer'[q][m] = buffer[q][m] /\ queue[q] \subseteq queue'[q]
      BY <1>8, <2>3 DEF Dispatch, WellFormed, TypeOK
    <3> QED BY <1>4, <2>1, <3>1
  <2> QED BY <2>2, <2>3
<1> QED BY <1>5, <1>6, <1>7, <1>8 DEF Informer

\* A patch that goes through leaves a version with the phase, or finds the workflow gone.
LEMMA AnnotateCloses ==
  ASSUME WellFormed, NEW n \in Names, NEW phase \in Phases, Annotate(n, phase),
         log[n] # <<>>
  PROVE  Closed(n, phase)'
<1>1. /\ log[n] \in Seq(Objects) /\ Len(log[n]) \in DOMAIN log[n]
      /\ Current(n) = log[n][Len(log[n])] /\ Current(n) \in Objects
  <2>1. log[n] \in Seq(Objects) /\ Len(log[n]) # 0
    BY DEF WellFormed, TypeOK
  <2>2. Len(log[n]) \in DOMAIN log[n]
    BY <2>1
  <2> QED BY <2>1, <2>2 DEF Current, Version
<1>2. CASE Present(Current(n)) /\ Current(n).note # phase
  <2> DEFINE obj == [Current(n) EXCEPT !.note = phase]
  <2>1. obj \in Objects /\ obj.note = phase
    BY <1>1 DEF Objects
  <2>2. log'[n] = Append(log[n], obj)
    BY <1>2 DEF Annotate, Write, WellFormed, TypeOK
  <2>3. Len(log[n]) + 1 \in DOMAIN log'[n] /\ log'[n][Len(log[n]) + 1] = obj
    BY <1>1, <2>1, <2>2
  <2> QED BY <2>1, <2>3 DEF Closed
<1>3. CASE ~(Present(Current(n)) /\ Current(n).note # phase)
  <2>1. log' = log
    BY <1>3 DEF Annotate
  <2> QED BY <1>1, <1>3, <2>1 DEF Closed, Current, Version
<1> QED BY <1>2, <1>3

\* The worker never drops a name before the completion it knows is delivered and recorded.
LEMMA ReconcileWakeup ==
  ASSUME WellFormed, DeliveryInv, RecordedForSame, StaysClosed, WakeupInv,
         NEW r \in Replicas, Reconcile(r)
  PROVE  WakeupInv'
<1>1. LogExtends /\ delivered \subseteq delivered'
  <2>1. LogType /\ [Next]_vars
    BY DEF WellFormed, TypeOK, LogType, Next
  <2> QED BY <2>1, NextLogStep, LogStepExtends, NextEvents
<1>2. UNCHANGED informer
  BY DEF Reconcile, Requeue, Start, Get, GetFails, NotifySucceeds, NotifyFails, Patch, PatchFails
<1> SUFFICES ASSUME NEW q \in Replicas, NEW m \in Names PROVE WakeupAt(q, m)'
  BY DEF WakeupInv
<1>3. /\ WakeupAt(q, m)
      /\ cache'[q][m] = cache[q][m] /\ buffer'[q][m] = buffer[q][m]
  BY <1>2 DEF WakeupInv, informer
<1>4. ASSUME queue[q] \cup delayed[q] \subseteq queue'[q] \cup delayed'[q],
             pc'[q] = pc[q], job'[q] = job[q]
      PROVE  WakeupAt(q, m)'
  BY <1>1, <1>3, <1>4, WakeupStable
<1>5. ASSUME NEW n \in Names, Requeue(r, n) PROVE WakeupAt(q, m)'
  <2>1. queue[q] \cup delayed[q] \subseteq queue'[q] \cup delayed'[q] /\ UNCHANGED worker
    BY <1>5 DEF Requeue, WellFormed, TypeOK
  <2> QED BY <1>4, <2>1 DEF worker
<1>6. ASSUME NEW n \in Names, Start(r, n) PROVE WakeupAt(q, m)'
  <2>1. CASE q = r /\ m = n
    BY <1>6, <2>1 DEF Start, WakeupAt, Noticed, WellFormed, TypeOK
  <2>2. CASE q # r
    <3>1. queue'[q] = queue[q] /\ delayed' = delayed /\ pc'[q] = pc[q] /\ job'[q] = job[q]
      BY <1>6, <2>2 DEF Start, WellFormed, TypeOK
    <3> QED BY <1>4, <3>1
  <2>3. CASE q = r /\ m # n
    <3>1. m \in queue[q] \cup delayed[q] => m \in queue'[q] \cup delayed'[q]
      BY <1>6, <2>3 DEF Start, WellFormed, TypeOK
    <3>2. pc[q] = "idle"
      BY <1>6, <2>3 DEF Start
    <3> QED BY <1>1, <1>3, <3>1, <3>2, WakeupStable
  <2> QED BY <2>1, <2>2, <2>3
\* The worker ends or goes on with its job; the names waiting stay where they are.
<1>7. ASSUME pc[r] # "idle", queue' = queue,
             \/ delayed' = delayed
             \/ delayed' = [delayed EXCEPT ![r] = delayed[r] \cup {job[r].name}],
             \A p \in Replicas : p # r => pc'[p] = pc[p] /\ job'[p] = job[p],
             q = r => \/ pc'[r] = "patch" /\ pc[r] = "notify" /\ job'[r] = job[r]
                      \/ job[r].name # m
                      \/ /\ pc[r] \in {"notify", "patch"}
                         /\ EventOfJob(r) # EventOf(m, Cached(r, m))
      PROVE  WakeupAt(q, m)'
  <2>1. delayed[q] \subseteq delayed'[q]
    BY <1>7 DEF WellFormed, TypeOK
  <2> QED BY <1>1, <1>3, <1>7, <2>1, WakeupStable
<1>8. CASE Get(r)
  <2>1. /\ pc[r] = "get" /\ queue' = queue /\ delayed' = delayed /\ UNCHANGED <<log, delivered>>
        /\ \A p \in Replicas : p # r => pc'[p] = pc[p] /\ job'[p] = job[p]
    BY <1>8 DEF Get, Return, api, webhook, WellFormed, TypeOK
  <2>2. CASE q = r /\ job[r].name = m /\ NeedsNotification(Cached(q, m))
    <3>1. /\ pc'[r] = "notify"
          /\ job'[r] = [job[r] EXCEPT !.version = cache[r][m]]
      BY <1>8, <2>2 DEF Get, Cached, WellFormed, TypeOK
    <3>2. job[r] \in [name : Names, version : Nat] \cup {NoJob}
      BY DEF WellFormed, TypeOK
    <3>3. job'[r].name = m /\ job'[r].version = cache[r][m]
      BY <2>2, <3>1, <3>2 DEF NoJob
    <3>4. EventOfJob(r)' = EventOf(m, Cached(r, m))'
      BY <1>3, <2>2, <3>3 DEF EventOfJob, EventOf, Cached, Version
    <3> QED BY <2>2, <3>1, <3>3, <3>4 DEF WakeupAt, Noticed
  <2>3. CASE q = r /\ job[r].name = m /\ ~NeedsNotification(Cached(q, m))
    <3>1. Cached(q, m)' = Cached(q, m)
      BY <1>1, <1>3, CachedStable
    <3>2. CASE ~Completed(Cached(q, m).phase)
      BY <3>1, <3>2 DEF WakeupAt, Completed
    <3>3. CASE Completed(Cached(q, m).phase)
      <4>1. /\ Cached(q, m).note = Cached(q, m).phase /\ Cached(q, m).note # NoNote
            /\ Cached(q, m) # Absent
        BY <2>3, <3>3 DEF NeedsNotification, Recorded, Completed, NoNote, Absent
      <4>2. /\ cache[q][m] \in DOMAIN log[m]
            /\ Cached(q, m) = log[m][cache[q][m]]
        <5>1. log[m] \in Seq(Objects) /\ cache[q][m] \in 0 .. Len(log[m]) /\ cache[q][m] # 0
          BY <4>1 DEF WellFormed, TypeOK, CacheInv, Cached, Version
        <5> QED BY <5>1 DEF Cached, Version
      <4>3. EventOf(m, Cached(q, m)) \in delivered
        BY <4>1, <4>2 DEF RecordedForSame, EventOf
      <4>4. EventOf(m, Cached(q, m))' \in delivered'
        BY <2>1, <3>1, <4>3 DEF EventOf
      <4>5. Closed(m, Cached(q, m).phase)'
        BY <2>1, <3>1, <4>1, <4>2 DEF Closed
      <4> QED BY <4>4, <4>5 DEF WakeupAt
    <3> QED BY <3>2, <3>3
  <2>4. CASE q # r \/ job[r].name # m
    BY <1>7, <2>1, <2>4
  <2> QED BY <2>2, <2>3, <2>4
<1>9. CASE GetFails(r) \/ NotifyFails(r)
  <2>1. /\ pc[r] # "idle" /\ queue' = queue
        /\ delayed' = [delayed EXCEPT ![r] = delayed[r] \cup {job[r].name}]
        /\ \A p \in Replicas : p # r => pc'[p] = pc[p] /\ job'[p] = job[p]
    BY <1>9 DEF GetFails, NotifyFails, ReturnError, WellFormed, TypeOK
  <2>2. CASE q = r /\ job[r].name = m
    <3>1. m \in delayed'[q]
      BY <2>1, <2>2 DEF WellFormed, TypeOK
    <3> QED BY <3>1 DEF WakeupAt, Noticed
  <2> QED BY <1>7, <2>1, <2>2
<1>10. CASE NotifySucceeds(r)
  <2>1. /\ pc[r] = "notify" /\ queue' = queue /\ delayed' = delayed
        /\ \A p \in Replicas : p # r => pc'[p] = pc[p] /\ job'[p] = job[p]
        /\ pc'[r] = "patch" /\ job'[r] = job[r]
    BY <1>10 DEF NotifySucceeds, WellFormed, TypeOK
  <2> QED BY <1>7, <2>1
<1>11. CASE Patch(r) \/ PatchFails(r)
  <2>1. /\ pc[r] = "patch" /\ queue' = queue
        /\ \/ delayed' = delayed /\ PatchOfJob(r)
           \/ delayed' = [delayed EXCEPT ![r] = delayed[r] \cup {job[r].name}]
        /\ \A p \in Replicas : p # r => pc'[p] = pc[p] /\ job'[p] = job[p]
    BY <1>11 DEF Patch, PatchFails, Return, ReturnError, WellFormed, TypeOK
  <2>2. CASE q = r /\ job[r].name = m /\ EventOfJob(r) = EventOf(m, Cached(q, m))
    <3>1. /\ Cached(q, m)' = Cached(q, m)
          /\ EventOf(m, Cached(q, m)) \in delivered'
      BY <1>1, <1>3, <2>1, <2>2, CachedStable DEF DeliveryInv, PatchInv
    <3>2. CASE PatchOfJob(r)
      <4>1. Annotate(m, Cached(q, m).phase)
        BY <2>2, <3>2 DEF PatchOfJob, EventOf
      <4>2. Closed(m, Cached(q, m).phase)'
        <5>1. log[m] # <<>>
          BY <2>1, <2>2 DEF WellFormed, JobInv, JobOK
        <5>2. Cached(q, m).phase \in Phases
          BY CachedType
        <5> QED BY <3>1, <4>1, <5>1, <5>2, AnnotateCloses DEF Closed
      <4> QED BY <3>1, <4>2 DEF WakeupAt, EventOf
    <3>3. CASE m \in delayed'[q]
      BY <3>3 DEF WakeupAt, Noticed
    <3> QED BY <2>1, <2>2, <3>2, <3>3 DEF WellFormed, TypeOK
  <2>3. CASE ~(q = r /\ job[r].name = m /\ EventOfJob(r) = EventOf(m, Cached(q, m)))
    BY <1>7, <2>1, <2>3
  <2> QED BY <2>2, <2>3
<1> QED BY <1>5, <1>6, <1>8, <1>9, <1>10, <1>11 DEF Reconcile

\* A new leader's first list announces every workflow; a stopped replica knows none.
LEMMA ProcessWakeup ==
  ASSUME WellFormed, UidInv, WakeupInv, NEW r \in Replicas, Process(r)
  PROVE  WakeupInv'
<1>1. UNCHANGED <<log, delivered>> /\ LogExtends
  <2>1. UNCHANGED <<log, delivered>>
    BY DEF Process, Elect, Crash, StepDown, Stop, webhook
  <2>2. LogType
    BY DEF WellFormed, TypeOK, LogType
  <2> QED BY <2>1, <2>2, LogStepExtends DEF LogStep
<1> SUFFICES ASSUME NEW q \in Replicas, NEW m \in Names PROVE WakeupAt(q, m)'
  BY DEF WakeupInv
<1>2. WakeupAt(q, m) /\ StaysClosed
  BY <1>1 DEF WakeupInv, StaysClosed, Closed, Current, Version
<1>3. CASE q # r
  <2>1. /\ cache'[q] = cache[q] /\ buffer'[q] = buffer[q] /\ queue'[q] = queue[q]
        /\ delayed'[q] = delayed[q] /\ pc'[q] = pc[q] /\ job'[q] = job[q]
    BY <1>3 DEF Process, Elect, Crash, StepDown, Stop, worker, WellFormed, TypeOK
  <2> QED BY <1>1, <1>2, <2>1, WakeupStable
<1>4. CASE q = r /\ Elect(r)
  <2>1. PICK l \in 0 .. Len(log[m]) : l = Len(log[m])
    <3>1. log[m] \in Seq(Objects)
      BY DEF WellFormed, TypeOK
    <3>2. Len(log[m]) \in 0 .. Len(log[m])
      BY <3>1, LenProperties
    <3> QED BY <3>2
  <2>2. cache'[q][m] = l /\ buffer'[q][m] = Notification(m, 0, l)
    BY <1>4, <2>1 DEF Elect, WellFormed, TypeOK
  <2>3. Cached(q, m)' = Version(m, l)
    BY <1>1, <2>2 DEF Cached, Version
  <2>4. CASE ~Present(Version(m, l))
    <3>1. Version(m, l) = Absent
      <4>1. l \in DOMAIN log[m] \/ l = 0
        BY <2>1 DEF WellFormed, TypeOK
      <4> QED BY <2>4, <4>1 DEF UidInv, Version, Present
    <3> QED BY <2>3, <3>1, AbsentIsObject DEF WakeupAt, Completed
  <2>5. CASE Present(Version(m, l))
    <3>1. /\ Len(buffer'[q][m]) = 1 /\ buffer'[q][m][1] = [old |-> 0, new |-> l]
      BY <2>2, <2>5 DEF Notification
    <3>2. Passes(m, buffer[q][m][1])'
      BY <1>1, <2>5, <3>1 DEF Passes, PhaseChanged, IsCreate, Present, Version, Absent
    <3> QED BY <3>1, <3>2 DEF WakeupAt, Noticed
  <2> QED BY <2>4, <2>5
<1>5. CASE q = r /\ Stop(r)
  <2>1. cache'[q][m] = 0
    BY <1>5 DEF Stop, WellFormed, TypeOK
  <2> QED BY <2>1, AbsentIsObject DEF WakeupAt, Cached, Version, Completed
<1> QED BY <1>3, <1>4, <1>5 DEF Process, Crash, StepDown

\* A record stays in the log, and a name that is never reused stays deleted.
LEMMA NextStaysClosed ==
  ASSUME ~NameReuse, WellFormed, [Next]_vars
  PROVE  StaysClosed
<1>1. LogType /\ LogExtends /\ LogType'
  <2>1. LogType
    BY DEF WellFormed, TypeOK, LogType
  <2> QED BY <2>1, NextLogStep, LogStepExtends
<1> SUFFICES ASSUME NEW n \in Names, NEW phase \in Phases, Closed(n, phase)
             PROVE  Closed(n, phase)'
  BY DEF StaysClosed
<1>2. log[n] \in Seq(Objects) /\ log'[n] \in Seq(Objects)
  BY <1>1 DEF LogType
<1>3. ASSUME NEW k \in DOMAIN log[n], log[n][k].note = phase PROVE Closed(n, phase)'
  <2>1. k \in DOMAIN log'[n] /\ log'[n][k] = log[n][k]
    BY <1>1, <1>2 DEF LogExtends
  <2> QED BY <1>3, <2>1 DEF Closed
<1>4. CASE log[n] # <<>> /\ ~Present(Current(n))
  <2>1. CASE log'[n] = log[n]
    BY <1>4, <2>1 DEF Closed, Current, Version
  <2>2. CASE log'[n] # log[n]
    <3>1. Write(n, Absent)
      BY <1>1, <1>4, <2>2, NextOriginStep DEF OriginStep, Origin, Write, LogType
    <3>2. log'[n] = Append(log[n], Absent)
      BY <1>1, <3>1 DEF Write, LogType
    <3>3. Current(n)' = Absent /\ log'[n] # <<>>
      BY <1>2, <3>2, AbsentIsObject DEF Current, Version
    <3> QED BY <3>3 DEF Closed, Present, Absent
  <2> QED BY <2>1, <2>2
<1> QED BY <1>3, <1>4 DEF Closed

LEMMA NextWakeup ==
  ASSUME ~NameReuse, WellFormed, DeliveryInv, UidInv, RecordedForSame, WakeupInv,
         [Next]_vars
  PROVE  WakeupInv'
<1>c. StaysClosed
  BY NextStaysClosed
<1>1. CASE (\E n \in Names : Argo(n)) \/ LoseLease \/ Network \/ UNCHANGED vars
  <2>1. UNCHANGED <<informer, queue, delayed, worker>>
    BY <1>1 DEF Argo, Submit, Delete, ChangePhase, ArgoMoves, LoseLease, Network, AcceptLate,
                LoseRequest, vars, informer, worker
  <2>2. LogExtends /\ delivered \subseteq delivered'
    <3>1. LogType
      BY DEF WellFormed, TypeOK, LogType
    <3> QED BY <3>1, NextLogStep, LogStepExtends, NextEvents
  <2> QED BY <1>c, <2>1, <2>2, WakeupStable DEF WakeupInv, informer, worker
<1> QED BY <1>1, <1>c, ProcessWakeup, InformerWakeup, ReconcileWakeup DEF Next

WakeupSameInv == SameInv /\ WakeupInv

LEMMA AlwaysWakeup ==
  ASSUME ~NameReuse
  PROVE  Spec => []WakeupSameInv
<1>1. Init => WakeupSameInv
  <2> SUFFICES ASSUME Init PROVE WakeupSameInv
    OBVIOUS
  <2>1. SameInv
    BY InitWellFormed, InitDelivery DEF Init, SameInv, UidInv, RecordedForSame
  <2>2. WakeupInv
    BY AbsentIsObject DEF Init, WakeupInv, WakeupAt, Cached, Version, Completed
  <2> QED BY <2>1, <2>2 DEF WakeupSameInv
<1>2. WakeupSameInv /\ [Next]_vars => WakeupSameInv'
  BY NextWellFormed, NextDelivery, NextUid, NextRecordedForSame, NextWakeup DEF WakeupSameInv, SameInv
<1> QED BY <1>1, <1>2, PTL DEF Spec

\* No lost wakeup, while names are not reused: for any number of workflows, replicas and
\* faults, a running replica that has nothing left to do for a completed workflow finds
\* its completion delivered (PhaseChanged, workflow_controller.go:139-145, never hides one).
THEOREM NoLostWakeup ==
  ASSUME ~NameReuse
  PROVE  Spec => []QuietMeansDelivered
<1>1. WakeupSameInv => QuietMeansDelivered
  <2> SUFFICES ASSUME WakeupSameInv, NEW r \in Replicas, NEW n \in Names,
                      Quiet(r, n), Completed(Current(n).phase)
               PROVE  EventOf(n, Current(n)) \in delivered
    BY DEF QuietMeansDelivered
  <2>1. Current(n) = Cached(r, n)
    BY DEF Quiet, Current, Cached
  <2>2. ~Noticed(r, n)
    <3>1. Len(buffer[r][n]) = 0
      BY DEF Quiet
    <3> QED BY <3>1 DEF Quiet, Noticed
  <2> QED BY <2>1, <2>2 DEF WakeupSameInv, WakeupInv, WakeupAt
<1> QED BY <1>1, AlwaysWakeup, PTL

--------------------------------------------------------------------------------
(* The abstract specification                                                  *)

Occurred == UNION {Completions(n) : n \in Names}
Notes == [n \in Names |-> Current(n).note]

\* A step accepts no event or one completion, and then writes nothing.
LEMMA NextDelivered ==
  ASSUME WellFormed, DeliveryInv, [Next]_vars
  PROVE  \/ UNCHANGED delivered
         \/ UNCHANGED log /\ \E e \in Occurred : delivered' = delivered \cup {e}
<1>1. ASSUME NEW r \in Replicas, NotifySucceeds(r)
      PROVE  UNCHANGED log /\ \E e \in Occurred : delivered' = delivered \cup {e}
  <2>1. pc[r] = "notify" /\ UNCHANGED log /\ delivered' = delivered \cup {EventOfJob(r)}
    BY <1>1 DEF NotifySucceeds, Accept, api
  <2>2. EventOfJob(r) \in Occurred
    BY <2>1, EventOfJobIsCompletion, EventOfJobType DEF Occurred
  <2> QED BY <2>1, <2>2
<1>2. ASSUME NEW e \in inFlight, AcceptLate(e)
      PROVE  UNCHANGED log /\ \E f \in Occurred : delivered' = delivered \cup {f}
  <2>1. UNCHANGED log /\ delivered' = delivered \cup {e}
    BY <1>2 DEF AcceptLate, Accept, api
  <2>2. e.name \in Names
    BY DEF WellFormed, TypeOK, Events
  <2>3. e \in Occurred
    BY <2>2 DEF DeliveryInv, HistoryInv, Occurred
  <2> QED BY <2>1, <2>3
<1>3. ASSUME NEW r \in Replicas, Process(r) \/ Informer(r) PROVE UNCHANGED delivered
  BY <1>3 DEF Process, Elect, Crash, StepDown, Stop, Informer, Relist, Observe, Resync, Dispatch, webhook
<1>4. ASSUME NEW r \in Replicas, Reconcile(r) PROVE UNCHANGED delivered \/ NotifySucceeds(r)
  BY <1>4 DEF Reconcile, Requeue, Start, Get, GetFails, NotifyFails, Patch, PatchFails, webhook
<1>5. ASSUME Network PROVE UNCHANGED delivered \/ \E e \in inFlight : AcceptLate(e)
  BY <1>5 DEF Network, LoseRequest
<1>6. ASSUME (\E n \in Names : Argo(n)) \/ LoseLease \/ UNCHANGED vars PROVE UNCHANGED delivered
  BY <1>6 DEF Argo, Submit, Delete, ChangePhase, ArgoMoves, LoseLease, vars, webhook
<1> QED BY <1>1, <1>2, <1>3, <1>4, <1>5, <1>6 DEF Next

\* The completions of a name after a new version of it.
LEMMA WriteCompletions ==
  ASSUME LogType, NEW n \in Names, NEW obj \in Objects, Write(n, obj)
  PROVE  /\ Completions(n)' = Completions(n) \cup
                (IF Completed(obj.phase) THEN {EventOf(n, obj)} ELSE {})
         /\ Current(n)' = obj
         /\ \A m \in Names \ {n} : Completions(m)' = Completions(m) /\ Current(m)' = Current(m)
<1>1. log[n] \in Seq(Objects) /\ log'[n] = Append(log[n], obj)
  BY DEF LogType, Write
<1>2. \A m \in Names \ {n} : log'[m] = log[m]
  BY DEF LogType, Write
<1>3. /\ Len(log[n]) \in Nat /\ DOMAIN log[n] = 1 .. Len(log[n])
      /\ Len(log'[n]) = Len(log[n]) + 1 /\ DOMAIN log'[n] = 1 .. Len(log[n]) + 1
      /\ \A i \in 1 .. Len(log[n]) : log'[n][i] = log[n][i]
      /\ log'[n][Len(log[n]) + 1] = obj
  BY <1>1
<1>4. Current(n)' = obj
  BY <1>3 DEF Current, Version
<1>5. \A m \in Names \ {n} : Completions(m)' = Completions(m) /\ Current(m)' = Current(m)
  BY <1>2 DEF Completions, Current, Version, EventOf
<1>6. \A e : e \in Completions(n) <=>
          \E i \in 1 .. Len(log[n]) : Completed(log[n][i].phase) /\ e = EventOf(n, log[n][i])
  BY <1>3 DEF Completions
<1>7. \A e : e \in Completions(n)' <=>
          \E i \in 1 .. Len(log[n]) + 1 : Completed(log'[n][i].phase) /\ e = EventOf(n, log'[n][i])
  BY <1>3 DEF Completions, EventOf, Completed
<1>8. \A i \in 1 .. Len(log[n]) + 1 : i \in 1 .. Len(log[n]) \/ i = Len(log[n]) + 1
  BY <1>3
<1>9. Completions(n)' = Completions(n) \cup (IF Completed(obj.phase) THEN {EventOf(n, obj)} ELSE {})
  <2>1. ASSUME NEW e, e \in Completions(n)'
        PROVE  e \in Completions(n) \/ (Completed(obj.phase) /\ e = EventOf(n, obj))
    <3>1. PICK i \in 1 .. Len(log[n]) + 1 :
            Completed(log'[n][i].phase) /\ e = EventOf(n, log'[n][i])
      BY <1>7, <2>1
    <3>2. CASE i \in 1 .. Len(log[n])
      BY <1>3, <1>6, <3>1, <3>2
    <3>3. CASE i = Len(log[n]) + 1
      BY <1>3, <3>1, <3>3
    <3> QED BY <1>8, <3>2, <3>3
  <2>2. ASSUME NEW e, e \in Completions(n) PROVE e \in Completions(n)'
    <3>1. PICK i \in 1 .. Len(log[n]) : Completed(log[n][i].phase) /\ e = EventOf(n, log[n][i])
      BY <1>6, <2>2
    <3>2. i \in 1 .. Len(log[n]) + 1 /\ log'[n][i] = log[n][i]
      BY <1>3
    <3> QED BY <1>7, <3>1, <3>2
  <2>3. Completed(obj.phase) => EventOf(n, obj) \in Completions(n)'
    <3>1. Len(log[n]) + 1 \in 1 .. Len(log[n]) + 1 /\ log'[n][Len(log[n]) + 1] = obj
      BY <1>3
    <3> QED BY <1>7, <3>1
  <2> QED BY <2>1, <2>2, <2>3
<1> QED BY <1>4, <1>5, <1>9

LEMMA NextAbstract ==
  ASSUME WellFormed, DeliveryInv, [Next]_vars
  PROVE  [Abstract!Next]_(Abstract!vars)
<1>1. LogType
  BY DEF WellFormed, TypeOK, LogType
<1>2. CASE UNCHANGED log
  <2>1. Occurred' = Occurred /\ Notes' = Notes
    BY <1>2 DEF Occurred, Notes, Completions, EventOf, Completed, Current, Version
  <2>2. CASE UNCHANGED delivered
    BY <2>1, <2>2 DEF Abstract!vars, Occurred, Notes
  <2>3. ASSUME NEW e \in Occurred, delivered' = delivered \cup {e} PROVE Abstract!Next
    BY <2>1, <2>3 DEF Abstract!Next, Abstract!Deliver, Occurred, Notes
  <2> QED BY <2>2, <2>3, NextDelivered
<1>3. ASSUME NEW n \in Names, NEW obj \in Objects, Write(n, obj), Origin(n, obj), UNCHANGED delivered
      PROVE  Abstract!Next
  <2>1. /\ Completions(n)' = Completions(n) \cup
               (IF Completed(obj.phase) THEN {EventOf(n, obj)} ELSE {})
        /\ Current(n)' = obj
        /\ \A m \in Names \ {n} : Completions(m)' = Completions(m) /\ Current(m)' = Current(m)
    BY <1>1, <1>3, WriteCompletions
  <2>2. Notes' = [Notes EXCEPT ![n] = obj.note]
    BY <2>1 DEF Notes
  <2>3. Occurred \subseteq Occurred'
    BY <2>1 DEF Occurred
  <2>4. ~Completed(obj.phase) \/ EventOf(n, obj) \in Completions(n) => Occurred' = Occurred
    BY <2>1 DEF Occurred
  <2>5. CASE obj.note = NoNote /\ ~Completed(obj.phase)
    <3>1. Abstract!Forget(n)
      BY <1>3, <2>2, <2>4, <2>5 DEF Abstract!Forget, Occurred, Notes
    <3> QED BY <3>1 DEF Abstract!Next
  <2>6. CASE obj.note = Current(n).note
    <3>1. Notes' = Notes
      BY <2>2, <2>6 DEF Notes
    <3>2. Abstract!Occur
      BY <1>3, <2>3, <3>1 DEF Abstract!Occur, Occurred, Notes
    <3> QED BY <3>2 DEF Abstract!Next
  <2>7. ASSUME Present(Current(n)), obj.uid = Current(n).uid, obj.phase = Current(n).phase,
               NEW r \in Replicas, pc[r] = "patch", job[r].name = n, obj.note = EventOfJob(r).phase
        PROVE  Abstract!Next
    <3>1. EventOf(n, obj) \in Completions(n) \/ ~Completed(obj.phase)
      <4> DEFINE i == Len(log[n])
      <4>1. log[n] \in Seq(Objects) /\ i # 0 /\ Current(n) = log[n][i]
        BY <1>1, <2>7 DEF LogType, Present, Current, Version, Absent
      <4>2. i \in DOMAIN log[n]
        BY <4>1
      <4> QED BY <2>7, <4>1, <4>2 DEF Completions, EventOf
    <3>2. EventOfJob(r) \in delivered /\ EventOfJob(r).name = n /\ obj.note \in Phases
      BY <2>7, EventOfJobType DEF DeliveryInv, PatchInv, Events
    <3>3. Abstract!Record(n, obj.note)
      BY <1>3, <2>2, <2>4, <2>7, <3>1, <3>2 DEF Abstract!Record, Occurred, Notes
    <3> QED BY <3>2, <3>3 DEF Abstract!Next
  <2>8. Absent.note = NoNote /\ ~Completed(Absent.phase) /\ ~Completed("Unknown")
    BY AbsentIsObject DEF Completed
  <2> QED BY <1>3, <2>5, <2>6, <2>7, <2>8 DEF Origin
<1> QED BY <1>2, <1>3, NextOriginStep, NextDelivered DEF OriginStep

\* Without caches, queues and processes, the controller delivers completions that occurred, at
\* least once and in any order, and records a phase only after that: whatever is stale,
\* crashes, overlaps or arrives late, each of its steps is one of CompletionNotification.
THEOREM ImplementsNotification == Spec => ImplementsCompletionNotification
<1>1. Init => Abstract!Init
  <2> SUFFICES ASSUME Init PROVE Abstract!Init
    OBVIOUS
  <2>1. ASSUME NEW n \in Names PROVE Completions(n) = {} /\ Current(n) = Absent
    <3>1. log[n] = <<>> /\ Len(log[n]) = 0
      BY DEF Init
    <3>2. DOMAIN log[n] = {}
      BY <3>1
    <3> QED BY <3>1, <3>2 DEF Completions, Current, Version
  <2> QED BY <2>1, AbsentIsObject DEF Init, Abstract!Init
<1> QED BY <1>1, NextAbstract, AlwaysDelivery, PTL DEF Spec, ImplementsCompletionNotification, Abstract!Spec
=================================================================================
