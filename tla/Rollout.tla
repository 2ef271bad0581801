------------------------------- MODULE Rollout -------------------------------
(***************************************************************************)
(* How a ready deployment reaches the workers of its source: the           *)
(* notification and its single-flight task (handlers_admin.go), the        *)
(* deployments table with its pending flag and generation                  *)
(* (model/deployments.go), the rollout under the source lock (deploy.go,   *)
(* manager.go, fleet.go), the fleet reconciler, the operator's resume, and *)
(* the resumption of pending rollouts after a crash.                       *)
(*                                                                         *)
(* One source.  Rollouts and reconciliations hold the source lock, so      *)
(* there is one record roll; each step of it handles one worker under the  *)
(* worker lock.  A deployment recorded while a worker is being replaced    *)
(* touches no worker, so a replacement is one step that ends well, fails   *)
(* before the row is rewritten, or fails after (the row is then pending;   *)
(* module Provisioning has the inside of that step).                       *)
(***************************************************************************)
EXTENDS Naturals, Sequences, FiniteSets, SequencesExt

CONSTANTS
    Workers,      \* workers the source may have
    Managed,      \* the ones the default fleet of the source names
    Versions,     \* pairs of soak and Litestream SHA
    Loads,        \* workload SHAs
    Images,       \* image refs
    Kind,         \* "main", "pr" or "other": what the reconciler does for the source
    Features,     \* of "reconcile", "resume", "roll", "sleep", "destroy", "stop", "build",
                  \* "hold", "respec": what this instance explores
    MaxRows,      \* bound on deployment rows
    MaxRecords,   \* bound on records of ready deployments
    MaxFailures,  \* bound on failing steps and on plain stops
    MaxCrashes,   \* bound on control-plane crashes
    MaxFaults     \* bound on both together

NoVersion == "none"
NoLoad == "none"  \* a record without a workload SHA

ASSUME RolloutAssumption ==
    /\ Managed \subseteq Workers /\ NoVersion \notin Versions /\ NoLoad \notin Loads /\ Kind \in {"main", "pr", "other"}
    /\ MaxRows \in Nat /\ MaxRecords \in Nat /\ MaxFailures \in Nat /\ MaxCrashes \in Nat /\ MaxFaults \in Nat

VARIABLES
    deps,      \* the deployments rows of the source, oldest first
    workers,   \* the workers rows
    tasks,     \* readyTasks: the notification tasks in flight, by key
    resumed,   \* ResumePendingRollouts: what it listed and has not handled
    roll,      \* the operation that holds the source lock
    manual,    \* the operator's resume in flight
    build,     \* the row DeployNewSHA is building, 0 for none
    records,   \* records so far
    last,      \* per row, the number of its last record
    served,    \* per row, the records its last handled rollout had seen at its start
    failures, crashes

vars == <<deps, workers, tasks, resumed, roll, manual, build, records, last, served, failures, crashes>>

Via == IF "build" \in Features THEN {"post", "build"} ELSE {"post"}
Keys == [ver : Versions, wl : Loads \union {NoLoad}, img : Images, via : Via]
Rows == 1..Len(deps)

\* Fails spends one unit of the failure budget; Succeeds spends none.
Fails == failures < MaxFailures /\ failures + crashes < MaxFaults /\ failures' = failures + 1
Succeeds == failures' = failures

-----------------------------------------------------------------------------
(* The deployments table.                                                  *)

\* Rows are inserted with started_at = now, so ORDER BY started_at DESC, id
\* DESC is the order of ids; a later record of a row does not move it.
Newest(S) == CHOOSE i \in S : \A j \in S : j <= i
ReadyRows == {i \in Rows : deps[i].status = "ready"}
GetLatestReadyDeployment == IF ReadyRows = {} THEN 0 ELSE Newest(ReadyRows)

\* latestReadyDeploymentMatches compares image and both SHAs, not the row.
Current(t) ==
    GetLatestReadyDeployment # 0 =>
        LET d == deps[GetLatestReadyDeployment] IN d.img = t.img /\ d.ver = t.ver

\* resolveReadyDeploymentTarget with a version: the newest row of the version,
\* whatever its status and workload SHA, must be ready and carry the image.
OfVersion(v) == {i \in Rows : deps[i].ver = v}
ReadyVersion(v) == OfVersion(v) # {} /\ deps[Newest(OfVersion(v))].status = "ready"
Resolves(t) == ReadyVersion(t.ver) /\ deps[Newest(OfVersion(t.ver))].img = t.img

SameRow(k) == {i \in Rows : deps[i].ver = k.ver /\ deps[i].wl = k.wl}
ReadyRow(k, gen) ==
    [ver |-> k.ver, wl |-> k.wl, img |-> k.img, status |-> "ready", pending |-> TRUE, gen |-> gen]

\* UpsertReadyDeploymentContext, and the row id it leaves in dep.ID.
UpsertedId(k) == IF SameRow(k) = {} THEN Len(deps) + 1 ELSE Newest(SameRow(k))
UpsertKeepingGeneration(k) == \* slip: a second record of the row keeps its generation
    deps' = IF SameRow(k) = {} THEN Append(deps, ReadyRow(k, 1))
            ELSE [deps EXCEPT ![UpsertedId(k)] = ReadyRow(k, @.gen)]
UpsertReadyDeployment(k) ==
    deps' = IF SameRow(k) = {} THEN Append(deps, ReadyRow(k, 1))
            ELSE [deps EXCEPT ![UpsertedId(k)] = ReadyRow(k, @.gen + 1)]

\* ClearRolloutPending: only the row and generation the rollout was recorded at.
\* A reconciliation has no row of its own (id 0) and clears nothing.
ClearedAny(t) == \* slip: the generation is not compared
    IF t.id # 0 THEN [deps EXCEPT ![t.id].pending = FALSE] ELSE deps
Cleared(t) ==
    IF t.id # 0 /\ deps[t.id].gen = t.gen THEN [deps EXCEPT ![t.id].pending = FALSE] ELSE deps

-----------------------------------------------------------------------------
(* The ready notification.                                                 *)

NoTask == [pc |-> "none", id |-> 0, gen |-> 0, began |-> 0]
NoRoll == [pc |-> "free", kind |-> "none", id |-> 0, gen |-> 0, ver |-> NoVersion, img |-> NoVersion,
           todo |-> {}, seen |-> <<>>, errs |-> FALSE, drift |-> 0, began |-> 0]
NoManual == [pc |-> "none", ver |-> NoVersion, img |-> NoVersion, todo |-> {}]

\* deploymentReadyTask: a post that finds a task of its key joins it.
PostReady(k) ==
    /\ k.via = "post" /\ tasks[k].pc = "none" /\ records < MaxRecords
    /\ tasks' = [tasks EXCEPT ![k] = [NoTask EXCEPT !.pc = "recording"]]
    /\ UNCHANGED <<deps, workers, resumed, roll, manual, build, records, last, served, failures, crashes>>

\* recordDeploymentReady: the upsert commits by itself, the event after it may
\* find the database busy (a task records again) or fail (the record ends there).
RoomFor(k) == records < MaxRecords /\ (SameRow(k) # {} \/ Len(deps) < MaxRows)
RecordReadyWithoutId(k) == \* slip: the task does not keep the row the record returned
    /\ tasks[k].pc = "recording" /\ RoomFor(k) /\ UpsertReadyDeployment(k)
    /\ records' = records + 1 /\ last' = [last EXCEPT ![UpsertedId(k)] = records + 1]
    /\ tasks' = [tasks EXCEPT ![k] = [NoTask EXCEPT !.pc = "recorded"]]
    /\ UNCHANGED <<workers, resumed, roll, manual, build, served, failures, crashes>>
RecordReady(k) ==
    /\ tasks[k].pc = "recording" /\ RoomFor(k) /\ UpsertReadyDeployment(k)
    /\ records' = records + 1 /\ last' = [last EXCEPT ![UpsertedId(k)] = records + 1]
    /\ \/ /\ Succeeds
          /\ tasks' = [tasks EXCEPT ![k] = [pc |-> "recorded", id |-> UpsertedId(k), began |-> records + 1,
                                            gen |-> deps'[UpsertedId(k)].gen]]
       \/ Fails /\ k.via = "post" /\ tasks' = tasks
       \/ Fails /\ tasks' = [tasks EXCEPT ![k] = NoTask]
    /\ UNCHANGED <<workers, resumed, roll, manual, build, served, crashes>>

\* The record deadline passes, or the database answers something else than busy.
RecordFails(k) ==
    /\ tasks[k].pc = "recording" /\ Fails
    /\ tasks' = [tasks EXCEPT ![k] = NoTask]
    /\ UNCHANGED <<deps, workers, resumed, roll, manual, build, records, last, served, crashes>>

-----------------------------------------------------------------------------
(* DeployNewSHA: the in-process build.                                     *)

Unbuilt(v) ==
    [ver |-> v, wl |-> NoLoad, img |-> NoVersion, status |-> "building", pending |-> FALSE, gen |-> 0]
KeyOf(d) == [ver |-> d.ver, wl |-> d.wl, img |-> d.img, via |-> "build"]

\* A version whose newest row is ready is not built, only recorded again.
DeployNewSHA(v) ==
    /\ "build" \in Features /\ build = 0
    /\ IF ReadyVersion(v)
       THEN build' = Newest(OfVersion(v)) /\ deps' = deps
       ELSE Len(deps) < MaxRows /\ deps' = Append(deps, Unbuilt(v)) /\ build' = Len(deps) + 1
    /\ UNCHANGED <<workers, tasks, resumed, roll, manual, records, last, served, failures, crashes>>

\* UpdateDeployment: the row becomes ready before its rollout is pending.
BuildFinishes(img) ==
    /\ build # 0 /\ deps[build].status = "building"
    /\ \/ deps' = [deps EXCEPT ![build].status = "ready", ![build].img = img] /\ UNCHANGED build /\ Succeeds
       \/ deps' = [deps EXCEPT ![build].status = "failed"] /\ build' = 0 /\ Fails
    /\ UNCHANGED <<workers, tasks, resumed, roll, manual, records, last, served, crashes>>

\* NotifyDeploymentReady records through the same upsert, outside readyTasks.
BuildNotifies ==
    /\ build # 0 /\ deps[build].status = "ready"
    /\ tasks[KeyOf(deps[build])].pc = "none" /\ records < MaxRecords
    /\ tasks' = [tasks EXCEPT ![KeyOf(deps[build])] = [NoTask EXCEPT !.pc = "recording"]]
    /\ build' = 0
    /\ UNCHANGED <<deps, workers, resumed, roll, manual, records, last, served, failures, crashes>>

-----------------------------------------------------------------------------
(* Taking the source lock.                                                 *)

Take(kind, id, gen, ver, img, began) ==
    [NoRoll EXCEPT !.pc = "ensure", !.kind = kind, !.id = id, !.gen = gen, !.ver = ver,
                   !.img = img, !.began = began]

\* The flag is written when the rollout is over; served remembers for whom.
Handled(t) ==
    /\ deps' = Cleared(t)
    /\ served' = IF t.id # 0 /\ deps[t.id].pending /\ ~deps'[t.id].pending
                 THEN [served EXCEPT ![t.id] = t.began] ELSE served

\* rolloutDeploymentReady up to its first check: a superseded deployment is
\* only marked handled.
BeginReady(t) ==
    IF Current(t) THEN roll' = t /\ UNCHANGED <<deps, served>> ELSE roll' = roll /\ Handled(t)

StartRollout(k) ==
    /\ roll.pc = "free" /\ tasks[k].pc = "recorded"
    /\ BeginReady(Take("ready", tasks[k].id, tasks[k].gen, k.ver, k.img, tasks[k].began))
    /\ tasks' = [tasks EXCEPT ![k] = IF Current(k) THEN [@ EXCEPT !.pc = "rolling"] ELSE NoTask]
    /\ UNCHANGED <<workers, resumed, manual, build, records, last, failures, crashes>>

\* ResumePendingRollouts runs beside the server: it may list late, and then
\* takes its list one by one, oldest row first.
PendingRows == {i \in Rows : deps[i].status = "ready" /\ deps[i].pending}
ListRolloutPending ==
    /\ ~resumed.listed
    /\ LET ids == SetToSortSeq(PendingRows, LAMBDA i, j : i < j) IN
       resumed' = [listed |-> TRUE, rows |-> [n \in DOMAIN ids |->
           Take("ready", ids[n], deps[ids[n]].gen, deps[ids[n]].ver, deps[ids[n]].img, last[ids[n]])]]
    /\ UNCHANGED <<deps, workers, tasks, roll, manual, build, records, last, served, failures, crashes>>
ResumePendingRollouts ==
    /\ roll.pc = "free" /\ resumed.rows # <<>>
    /\ BeginReady(Head(resumed.rows)) /\ resumed' = [resumed EXCEPT !.rows = Tail(@)]
    /\ UNCHANGED <<workers, tasks, manual, build, records, last, failures, crashes>>

\* reconcileSourceFleet for the main fleet, reconcilePRSourceRollout for a pull
\* request that has a worker left: both walk to the latest ready deployment.
Gone(r) == r.st \in {"absent", "stopped"}
ReconcileOnce == \* slip: the reconciler leaves a source alone that has no rollout pending
    /\ "reconcile" \in Features /\ roll.pc = "free" /\ GetLatestReadyDeployment # 0
    /\ deps[GetLatestReadyDeployment].gen = 0
    /\ LET d == deps[GetLatestReadyDeployment] IN roll' = Take("reconcile", 0, 0, d.ver, d.img, records)
    /\ UNCHANGED <<deps, workers, tasks, resumed, manual, build, records, last, served, failures, crashes>>
Reconcile ==
    /\ "reconcile" \in Features /\ roll.pc = "free" /\ GetLatestReadyDeployment # 0
    /\ Kind = "main" \/ (Kind = "pr" /\ \E w \in Workers : ~Gone(workers[w]))
    /\ LET d == deps[GetLatestReadyDeployment] IN
       roll' = [Take("reconcile", 0, 0, d.ver, d.img, records)
                EXCEPT !.pc = IF Kind = "main" THEN "ensure" ELSE "recover"]
    /\ UNCHANGED <<deps, workers, tasks, resumed, manual, build, records, last, served, failures, crashes>>

-----------------------------------------------------------------------------
(* What one step does to one worker row; t is the target of the step.      *)

\* The open provisioning attempt: ready once machine and volume are recorded.
NoAttempt == [ver |-> NoVersion, img |-> NoVersion, ready |-> FALSE]
Open(r) == r.att # NoAttempt
Targets(a, t) == a.ver = t.ver /\ a.img = t.img
Fits(r, t) == r.ver = t.ver /\ ~r.drift

\* createWorker rewrites the row, opens an attempt or continues the open one of
\* the same target, and ends with the worker up and the attempt closed.
Written(r, t) == [r EXCEPT !.st = "pending", !.ver = t.ver, !.drift = FALSE]
Creatable(r, t) == Open(r) => Targets(r.att, t)
Created(r, t) == [Written(r, t) EXCEPT !.st = "active", !.img = t.img, !.att = NoAttempt]
Interrupted(r, t) ==
    {r, Written(r, t)} \union
    {[Written(r, t) EXCEPT !.att = [ver |-> t.ver, img |-> t.img, ready |-> b]] : b \in BOOLEAN}

\* supersededProvisioning: the attempt open now only lacks its completion, is
\* the one of the row r that was read, and has another target than t.
Superseded(r, a, t) ==
    /\ r.st # "pending" /\ a # NoAttempt /\ a.ready /\ a.ver = r.ver /\ ~Targets(a, t)
Unresolved(r, a, t) == (r.st = "pending" \/ a # NoAttempt) /\ ~Superseded(r, a, t)

\* replaceWorkerWithRequest: the failures, and the row it leaves otherwise.
RefusedIfUnresolved(r, t) == \* slip: the hold is checked only when the walk lists its workers
    Unresolved(r, r.att, t)
Refused(r, t) == r.held \/ Unresolved(r, r.att, t)
Abandoned(r) == [r EXCEPT !.att = NoAttempt]
Broken(r, t) == {r} \union Interrupted(Abandoned(r), t)

\* recoverPendingWorker finishes an attempt of the row's own target.
Recoverable(r) == ~Gone(r) /\ r.st # "dormant" /\ ~r.held /\ (r.st = "pending" \/ Open(r))

\* resumeDormantWorkerLocked on the old volume ignores an open attempt; if the
\* machine cannot be created there, or the volume does not fit the spec, the
\* worker is created anew.
Probed(r, t) ==
    {[r EXCEPT !.st = "active", !.ver = t.ver, !.img = t.img, !.drift = FALSE]}
    \union (IF Creatable(r, t) THEN {Created(r, t)} ELSE {})
ProbeBroken(r, t) ==
    {[r EXCEPT !.ver = t.ver, !.img = t.img, !.drift = FALSE]} \union
    (IF Creatable(r, t) THEN Interrupted(r, t) ELSE {r, Written(r, t)})

-----------------------------------------------------------------------------
(* The walks of the operation that holds the source lock.                  *)

RollFrame == UNCHANGED <<deps, tasks, resumed, manual, build, records, last, served, crashes>>

\* The worker is done with; err is collected, not returned at once.
Put(w, r, err) ==
    /\ workers' = [workers EXCEPT ![w] = r]
    /\ roll' = [roll EXCEPT !.todo = @ \ {w}, !.errs = @ \/ err]
Skip(w) == Put(w, workers[w], FALSE) /\ Succeeds
Refuse(w) == Put(w, workers[w], TRUE) /\ Succeeds

Create(w) ==
    LET r == workers[w] IN
    \/ r.held /\ Refuse(w)
    \/ ~r.held /\ Creatable(r, roll) /\ Put(w, Created(r, roll), FALSE) /\ Succeeds
    \/ ~r.held /\ Creatable(r, roll) /\ Fails /\ \E q \in Interrupted(r, roll) : Put(w, q, TRUE)
    \/ ~r.held /\ ~Creatable(r, roll) /\ Put(w, Written(r, roll), TRUE) /\ Succeeds

\* Of the workers that differ in their spec only,
\* maxConfigDriftReplacementsPerCycle are replaced in a walk, counted before
\* the replacement can be refused or fail.
DriftLimit == 1
Deferred(w) == workers[w].ver = roll.ver /\ roll.drift >= DriftLimit
Replace(w) ==
    LET r == workers[w]
        Done(q, err) ==
            /\ workers' = [workers EXCEPT ![w] = q]
            /\ roll' = [roll EXCEPT !.todo = @ \ {w}, !.errs = @ \/ err,
                                    !.drift = IF r.ver = roll.ver THEN @ + 1 ELSE @]
    IN \/ Refused(r, roll) /\ Done(r, TRUE) /\ Succeeds
       \/ ~Refused(r, roll) /\ Done(Created(Abandoned(r), roll), FALSE) /\ Succeeds
       \/ ~Refused(r, roll) /\ Fails /\ \E q \in Broken(r, roll) : Done(q, TRUE)

\* A pending worker without an attempt is recovered at the image of its own
\* version, if that is still ready.
Original(r) == Open(r) \/ r.ver = roll.ver \/ ReadyVersion(r.ver)
RecoveryImage(r) == IF r.ver = roll.ver THEN roll.img ELSE deps[Newest(OfVersion(r.ver))].img
Recovered(r) ==
    [r EXCEPT !.st = "active", !.att = NoAttempt, !.img = IF Open(r) THEN r.att.img ELSE RecoveryImage(r)]
HalfRecovered(r) ==
    {r} \union (IF Open(r) THEN {[r EXCEPT !.att.ready = TRUE]}
                ELSE {[r EXCEPT !.att = [ver |-> r.ver, img |-> RecoveryImage(r), ready |-> b]] : b \in BOOLEAN})
Recover(w) ==
    LET r == workers[w] IN
    \/ ~Recoverable(r) /\ Skip(w)
    \/ Recoverable(r) /\ (~Original(r) \/ (Open(r) /\ r.att.ver # r.ver)) /\ Refuse(w)
    \/ /\ Recoverable(r) /\ Original(r) /\ (Open(r) => r.att.ver = r.ver)
       /\ \/ Put(w, Recovered(r), FALSE) /\ Succeeds
          \/ Fails /\ \E q \in HalfRecovered(r) : Put(w, q, TRUE)

\* EnsureSourceFleet (nothing for a source without a default fleet, an error if
\* the version does not resolve) reads the workers once.
StartEnsure ==
    /\ roll.pc = "ensure"
    /\ IF roll.kind = "ready" /\ (Kind = "other" \/ ~Resolves(roll))
       THEN roll' = [roll EXCEPT !.pc = "update", !.errs = Kind # "other"]
       ELSE roll' = [roll EXCEPT !.pc = "ensuring", !.todo = Managed, !.seen = workers]
    /\ UNCHANGED <<workers, failures>> /\ RollFrame

\* ensureFleetSpec for one desired worker: it decides on the row it listed and
\* on the attempt as it is now; before a replacement it reloads the row.
EnsureWorker(w) ==
    LET r == roll.seen[w]
        listed == ~Gone(r) \/ (r.st # "absent" /\ r.held)
        unresolved == Unresolved(r, workers[w].att, roll)
    IN /\ roll.pc = "ensuring" /\ w \in roll.todo /\ Current(roll)
       /\ \/ ~listed /\ Create(w)
          \/ listed /\ r.held /\ Skip(w)
          \/ listed /\ ~r.held /\ unresolved /\ Recover(w)
          \/ /\ listed /\ ~r.held /\ ~unresolved
             /\ IF r.st = "dormant" \/ Fits(r, roll) \/ Gone(workers[w]) \/ workers[w].st = "dormant"
                   \/ Fits(workers[w], roll) \/ Deferred(w)
                THEN Skip(w) ELSE Replace(w)
       /\ RollFrame

\* The walk ends, or stops at a newer deployment.
EnsureDone ==
    /\ roll.pc = "ensuring" /\ (roll.todo = {} \/ ~Current(roll))
    /\ roll' = [roll EXCEPT !.pc = IF roll.kind = "ready" THEN "update" ELSE "resume",
                            !.todo = {}, !.seen = <<>>, !.drift = 0]
    /\ UNCHANGED <<workers, failures>> /\ RollFrame

\* recoverSourcePendingWorkers, the first part of a pull request's walk.
StartRecover ==
    /\ roll.pc = "recover"
    /\ roll' = [roll EXCEPT !.pc = "recovering", !.seen = workers,
                            !.todo = {w \in Workers : ~Gone(workers[w])}]
    /\ UNCHANGED <<workers, failures>> /\ RollFrame
RecoverWorker(w) ==
    /\ roll.pc = "recovering" /\ w \in roll.todo
    /\ IF Unresolved(roll.seen[w], workers[w].att, roll) THEN Recover(w) ELSE Skip(w)
    /\ RollFrame
RecoverDone ==
    /\ roll.pc = "recovering" /\ roll.todo = {}
    /\ roll' = [roll EXCEPT !.pc = "update", !.seen = <<>>, !.drift = 0]
    /\ UNCHANGED <<workers, failures>> /\ RollFrame

\* rollingUpdateSourceLocked.
StartUpdateOfFleet == \* slip: only the workers of the default fleet are updated
    /\ roll.pc = "update"
    /\ roll' = [roll EXCEPT !.pc = "updating", !.todo = {w \in Managed : Current(roll) /\ ~Gone(workers[w])}]
    /\ UNCHANGED <<workers, failures>> /\ RollFrame
StartUpdate ==
    /\ roll.pc = "update"
    /\ roll' = [roll EXCEPT !.pc = "updating",
                            !.todo = IF Current(roll) THEN {w \in Workers : ~Gone(workers[w])} ELSE {}]
    /\ UNCHANGED <<workers, failures>> /\ RollFrame
Settled(w) ==
    \/ Gone(workers[w]) \/ workers[w].st = "dormant" \/ workers[w].held
    \/ IF w \in Managed THEN Fits(workers[w], roll) \/ Deferred(w) ELSE workers[w].ver = roll.ver
UpdateWorkerUnchecked(w) == \* slip: the worker is replaced without looking for a newer deployment
    /\ roll.pc = "updating" /\ w \in roll.todo
    /\ IF Settled(w) THEN Skip(w) ELSE Replace(w)
    /\ RollFrame
UpdateWorker(w) ==
    /\ roll.pc = "updating" /\ w \in roll.todo
    /\ IF ~Current(roll) \/ Settled(w) THEN Skip(w) ELSE Replace(w)
    /\ RollFrame

\* The operation returns: the lock is free, the task that waited is over.
Return ==
    /\ roll' = NoRoll
    /\ tasks' = [k \in Keys |-> IF tasks[k].pc = "rolling" THEN NoTask ELSE tasks[k]]

\* Between the update and the dormant workers a ready rollout looks once more
\* whether it is superseded; if so it is marked handled whatever failed.
UpdateDone ==
    /\ roll.pc = "updating" /\ roll.todo = {}
    /\ IF roll.kind = "ready" /\ ~Current(roll) THEN Return /\ Handled(roll)
       ELSE roll' = [roll EXCEPT !.pc = "resume"] /\ UNCHANGED <<deps, served, tasks>>
    /\ UNCHANGED <<workers, failures, resumed, manual, build, records, last, crashes>>

\* resumeDeploymentDormantWorkers; a reconciliation resumes outdated ones only.
StartResume ==
    /\ roll.pc = "resume"
    /\ roll' = [roll EXCEPT !.pc = "resuming", !.todo = {w \in Workers : workers[w].st = "dormant"}]
    /\ UNCHANGED <<workers, failures>> /\ RollFrame
ResumeWorker(w) ==
    LET r == workers[w] IN
    /\ roll.pc = "resuming" /\ w \in roll.todo
    /\ IF ~Current(roll) \/ r.st # "dormant" \/ r.held \/ (roll.kind # "ready" /\ r.ver = roll.ver)
       THEN Skip(w)
       ELSE \/ Succeeds /\ \E q \in Probed(r, roll) : Put(w, q, FALSE)
            \/ Fails /\ \E q \in ProbeBroken(r, roll) : Put(w, q, TRUE)
    /\ RollFrame

\* The end: the flag is cleared only if no step failed.
FinishRollout ==
    /\ roll.pc = "resuming" /\ roll.todo = {} /\ Return
    /\ IF roll.errs THEN UNCHANGED <<deps, served>> ELSE Handled(roll)
    /\ UNCHANGED <<workers, failures, resumed, manual, build, records, last, crashes>>

\* The rollout's two hours pass, or a database call fails: it returns with the
\* flag as it is.
RolloutGivesUp ==
    /\ roll.pc # "free" /\ Fails /\ Return
    /\ UNCHANGED <<deps, served, workers, resumed, manual, build, records, last, crashes>>

-----------------------------------------------------------------------------
(* Everything else that moves the workers of the source.                   *)

WorkerFrame == UNCHANGED <<deps, tasks, resumed, roll, build, records, last, served, crashes>>

\* handleResumeDormantWorkers without a version: the latest deployment when the
\* request came, used under each worker lock, without the source lock.
ManualResume ==
    /\ "resume" \in Features /\ manual.pc = "none" /\ GetLatestReadyDeployment # 0
    /\ LET d == deps[GetLatestReadyDeployment]
           dormant == {w \in Workers : workers[w].st = "dormant"} IN
       /\ dormant # {}
       /\ manual' = [pc |-> "resuming", ver |-> d.ver, img |-> d.img, todo |-> dormant]
    /\ UNCHANGED <<workers, failures>> /\ WorkerFrame
ManualResumeWorker(w) ==
    LET r == workers[w] IN
    /\ manual.pc = "resuming" /\ w \in manual.todo
    /\ manual' = IF manual.todo = {w} THEN NoManual ELSE [manual EXCEPT !.todo = @ \ {w}]
    /\ IF r.st # "dormant" \/ r.held THEN UNCHANGED <<workers, failures>>
       ELSE \/ Succeeds /\ \E q \in Probed(r, manual) : workers' = [workers EXCEPT ![w] = q]
            \/ Fails /\ \E q \in ProbeBroken(r, manual) : workers' = [workers EXCEPT ![w] = q]
    /\ WorkerFrame

\* handleRollWorker: one worker to any ready version, under its own lock only.
RollWorker(w, v) ==
    LET r == workers[w]
        t == [ver |-> v, img |-> deps[Newest(OfVersion(v))].img] IN
    /\ "roll" \in Features /\ r.st # "absent"
    /\ ReadyVersion(v) /\ ~Refused(r, t)
    /\ \/ Succeeds /\ workers' = [workers EXCEPT ![w] = Created(Abandoned(r), t)]
       \/ Fails /\ \E q \in Broken(r, t) : workers' = [workers EXCEPT ![w] = q]
    /\ UNCHANGED manual /\ WorkerFrame

\* Dormancy and pauses; a teardown, which closes the attempt; a plain stop,
\* which does not; a heartbeat, which brings a pending row up and leaves the
\* attempt open; the evidence hold.
WorkerMoves(w, r) ==
    /\ workers' = [workers EXCEPT ![w] = r] /\ workers[w].st # "absent"
    /\ UNCHANGED <<manual, failures>> /\ WorkerFrame
DormantWorker(w) ==
    "sleep" \in Features /\ ~Gone(workers[w]) /\ WorkerMoves(w, [workers[w] EXCEPT !.st = "dormant"])
DestroyWorker(w) ==
    "destroy" \in Features /\ ~workers[w].held /\ WorkerMoves(w, [workers[w] EXCEPT !.st = "stopped", !.att = NoAttempt])
StopWorker(w) ==
    /\ "stop" \in Features /\ workers[w].st # "absent" /\ Fails
    /\ workers' = [workers EXCEPT ![w].st = "stopped"] /\ UNCHANGED manual /\ WorkerFrame
Heartbeat(w) ==
    LET r == workers[w] IN
    r.st = "pending" /\ Open(r) /\ WorkerMoves(w, [r EXCEPT !.st = "active", !.img = r.att.img])
HoldEvidence(w, h) ==
    /\ "hold" \in Features /\ workers[w].held # h /\ WorkerMoves(w, [workers[w] EXCEPT !.held = h])

\* Everything in memory is lost; the new process may bring another fleet spec.
Crash(respec) ==
    /\ crashes < MaxCrashes /\ failures + crashes < MaxFaults /\ crashes' = crashes + 1 /\ (respec => "respec" \in Features)
    /\ tasks' = [k \in Keys |-> NoTask] /\ roll' = NoRoll /\ manual' = NoManual /\ build' = 0
    /\ resumed' = [listed |-> FALSE, rows |-> <<>>]
    /\ workers' = [w \in Workers |-> IF respec /\ w \in Managed /\ workers[w].st # "absent"
                                     THEN [workers[w] EXCEPT !.drift = TRUE] ELSE workers[w]]
    /\ UNCHANGED <<deps, records, last, served, failures>>

-----------------------------------------------------------------------------
NoWorker ==
    [st |-> "absent", ver |-> NoVersion, img |-> NoVersion, att |-> NoAttempt, drift |-> FALSE, held |-> FALSE]

\* A worker outside the fleet is one that an earlier fleet spec left.
Init ==
    /\ deps = <<>>
    /\ workers = [w \in Workers |-> IF w \in Managed THEN NoWorker ELSE [NoWorker EXCEPT !.st = "active"]]
    /\ tasks = [k \in Keys |-> NoTask]
    /\ resumed = [listed |-> FALSE, rows |-> <<>>] /\ roll = NoRoll /\ manual = NoManual /\ build = 0
    /\ records = 0 /\ last = [i \in 1..MaxRows |-> 0] /\ served = [i \in 1..MaxRows |-> 0]
    /\ failures = 0 /\ crashes = 0

\* The steps of an operation that has the source lock.
Walk ==
    \/ StartEnsure \/ EnsureDone \/ StartRecover \/ RecoverDone \/ StartUpdate \/ UpdateDone
    \/ StartResume \/ FinishRollout
    \/ \E w \in Workers : EnsureWorker(w) \/ RecoverWorker(w) \/ UpdateWorker(w) \/ ResumeWorker(w)

\* What the control plane does by itself once it has been asked.
Progress ==
    \/ Walk \/ ListRolloutPending \/ ResumePendingRollouts \/ Reconcile
    \/ \E k \in Keys : RecordReady(k) \/ RecordFails(k) \/ StartRollout(k)

Next ==
    \/ Progress \/ RolloutGivesUp
    \/ \E k \in Keys : PostReady(k)
    \/ (\E v \in Versions : DeployNewSHA(v)) \/ (\E img \in Images : BuildFinishes(img)) \/ BuildNotifies
    \/ ManualResume
    \/ \E w \in Workers :
        \/ ManualResumeWorker(w) \/ DormantWorker(w) \/ DestroyWorker(w) \/ StopWorker(w) \/ Heartbeat(w)
        \/ \E v \in Versions : RollWorker(w, v)
        \/ \E h \in BOOLEAN : HoldEvidence(w, h)
    \/ \E respec \in BOOLEAN : Crash(respec)

Spec == Init /\ [][Next]_vars

\* A lock holder runs on, waiting tasks are run, and the reconciler ticks; what
\* operators, workers and the network do is not assumed.
FairSpec == Spec /\ WF_vars(Walk) /\ WF_vars(Progress)

-----------------------------------------------------------------------------
Attempts == [ver : Versions \union {NoVersion}, img : Images \union {NoVersion}, ready : BOOLEAN]
WorkerRows ==
    [st : {"absent", "pending", "active", "dormant", "stopped"}, ver : Versions \union {NoVersion},
     img : Images \union {NoVersion}, att : Attempts, drift : BOOLEAN, held : BOOLEAN]

\* Every row, task and walk is well formed; a task or walk names a row that exists.
TypeOK ==
    /\ Len(deps) <= MaxRows
    /\ \A i \in Rows : /\ deps[i].ver \in Versions /\ deps[i].status \in {"building", "ready", "failed"}
                       /\ deps[i].gen \in 0..MaxRecords /\ (deps[i].pending => deps[i].gen > 0)
    /\ workers \in [Workers -> WorkerRows]
    /\ \A k \in Keys : tasks[k].id \in 0..Len(deps) /\ (tasks[k].pc \in {"recorded", "rolling"} => tasks[k].id # 0)
    /\ roll.id \in 0..Len(deps) /\ roll.todo \subseteq Workers
    /\ records \in 0..MaxRecords /\ failures \in 0..MaxFailures /\ crashes \in 0..MaxCrashes

\* clearRolloutPending's promise: a recorded row is unmarked only for a rollout
\* that stems from its last record, so a record that comes while an older
\* rollout of the row runs, or is resumed after a restart, is never lost.
PendingUntilServed ==
    \A i \in Rows : deps[i].gen > 0 /\ ~deps[i].pending => served[i] = last[i]

\* The mark is not cleared for nothing: once the latest deployment is unmarked,
\* every worker that is up or coming up runs its version, whatever failed,
\* crashed or was superseded on the way.
Converged ==
    LET i == GetLatestReadyDeployment IN
    i # 0 /\ deps[i].gen > 0 /\ ~deps[i].pending =>
        \A w \in Workers : workers[w].st \in {"pending", "active"} => workers[w].ver = deps[i].ver

\* README: "Before each rollout step, the control plane checks whether a newer
\* ready deployment superseded the current one": no step that holds the source
\* lock moves a worker to a version older than the one it has.
Age(v) == IF OfVersion(v) \intersect ReadyRows = {} THEN 0 ELSE Newest(OfVersion(v) \intersect ReadyRows)
NoDowngrade ==
    [][\A w \in Workers : Walk /\ workers'[w].ver # workers[w].ver =>
            Age(workers'[w].ver) >= Age(workers[w].ver)]_vars

\* A worker under evidence hold keeps its version, its machine's image and its
\* attempt through rollouts, resumes and rolls, also when the hold was set after
\* the walk had listed it.
HeldWorkerKept ==
    [][\A w \in Workers : workers[w].held =>
            /\ workers'[w].ver = workers[w].ver /\ workers'[w].att = workers[w].att
            /\ Heartbeat(w) \/ workers'[w].img = workers[w].img]_vars

\* The runbook: "The fleet reconciler rolls any source to its latest ready
\* deployment every 10 minutes regardless": when failures stop, every worker of
\* the fleet is up on the latest deployment and stays there.
FleetConverges ==
    <>[](GetLatestReadyDeployment # 0 =>
            \A w \in Managed :
                workers[w].st = "active" /\ workers[w].ver = deps[GetLatestReadyDeployment].ver)

\* The same sentence for one worker: the walks of the reconciler do not leave a
\* worker pending for ever.
PendingResolved ==
    \A w \in Managed : workers[w].st = "pending" ~> workers[w].st # "pending"
=============================================================================
