---------------------------- MODULE Provisioning ----------------------------
(***************************************************************************)
(* How the control plane gives one worker its Fly machine and volume: the  *)
(* durable provisioning attempts (orchestrator/provisioning.go and         *)
(* model/provisioning.go), the operations that start, resume, replace or   *)
(* tear down an attempt (manager.go, dormancy.go), and what happens around *)
(* them: provider outcomes that never arrive, control-plane crashes, and   *)
(* worker reports, which do not take the worker lock.                      *)
(*                                                                         *)
(* The worker lock (Manager.lockWorker) makes the manager's operations on  *)
(* one worker sequential, so there is one operation record op.  Each step  *)
(* of it is one durable write or one provider call, together with the      *)
(* reads just before it; reports, the stale monitor, the provider and a    *)
(* crash interleave between any two steps.                                 *)
(***************************************************************************)
EXTENDS WorkerRow, Sequences, FiniteSets

CONSTANTS
    Targets,      \* deployment targets (image, git_sha, litestream_sha)
    MaxRuns,      \* bound on run ids: attempts and probes
    MaxMachines,  \* bound on machines ever created
    MaxVolumes,   \* bound on volumes ever created
    MaxCrashes,   \* bound on control-plane crashes
    Ops,          \* the operations this instance explores
    Legacy,       \* may the database predate the attempts table?
    LateCreates,  \* may the provider apply a create after its caller gave up?
    StaleLists,   \* may the fleet reconciler act on a list others have overtaken?
    LateReports   \* may a report arrive after its machine stopped?

ASSUME ProvisioningAssumption ==
    /\ MaxRuns \in Nat \ {0} /\ MaxMachines \in Nat /\ MaxVolumes \in Nat /\ MaxCrashes \in Nat
    /\ Legacy \in BOOLEAN /\ LateCreates \in BOOLEAN /\ StaleLists \in BOOLEAN
    /\ LateReports \in BOOLEAN

VARIABLES
    row,        \* the workers row
    att,        \* worker_provisioning: run id -> phase, target, volume name, vol, mach
    exp,        \* expected_worker_runs: the identity reports must match
    machines,   \* the provider's machines, in creation order
    volumes,    \* the provider's volumes, in creation order
    late,       \* create requests the provider has accepted but not applied
    op,         \* the operation holding the worker lock
    lists,      \* unlocked lists that hold this worker and are still to be acted on
    volPosts,   \* per run, the volume creates the provider did not reject
    machPosts,  \* per run, the machine creates the provider did not reject
    crashes

vars == <<row, att, exp, machines, volumes, late, op, lists, volPosts, machPosts, crashes>>

Runs == 1..MaxRuns
Phases == {"none", "planned", "volume_requested", "volume_ready",
           "machine_requested", "machine_ready", "complete", "abandoned"}
Closed == {"none", "complete", "abandoned"}
NoTarget == "none"

\* The worker_provisioning_open index admits one open attempt per worker.
OpenIds == {i \in Runs : att[i].phase \notin Closed}
ActiveProvisioning == IF OpenIds = {} THEN 0 ELSE CHOOSE i \in OpenIds : TRUE

\* uuid.NewString: an id no attempt, identity or create request has carried.
FreshIds == {i \in Runs : /\ att[i].phase = "none" /\ exp.run # i
                          /\ volPosts[i] = 0 /\ machPosts[i] = 0
                          /\ \A m \in 1..Len(machines) : machines[m].run # i}
FreshId == CHOOSE i \in FreshIds : TRUE

\* Worker statuses for which the attempt statements update the worker row.
Completable == {"pending", "running", "starting", "probing"}
RowClaims(i) == row.target = att[i].target /\ row.status \in Completable

NoRow == [status |-> "absent", mach |-> 0, vol |-> 0]
Seen == [status |-> row.status, mach |-> row.mach, vol |-> row.vol]
NoOp == [pc |-> "idle", t |-> NoTarget, a |-> 0, m |-> 0, v |-> 0, up |-> FALSE,
         probe |-> FALSE, fork |-> FALSE, errs |-> FALSE, w |-> NoRow]
Idle == op.pc = "idle"

AttemptUnchanged == UNCHANGED <<att, exp, volPosts, machPosts>>
FlyUnchanged == UNCHANGED <<machines, volumes, late>>
EnvUnchanged == UNCHANGED <<lists, crashes>>

-----------------------------------------------------------------------------
(* The provider, as internal/flyapi sees it.                               *)

LiveMachines == {m \in 1..Len(machines) : machines[m].state # "destroyed"}
Listed == {v \in 1..Len(volumes) : volumes[v].state # "gone"}
Usable(v) == v \in Listed /\ volumes[v].state = "created"
Attached(v) == \E m \in LiveMachines : machines[m].vol = v
NewMachine(run, t, v, s) ==
    [run |-> run, target |-> t, vol |-> v, state |-> s, booted |-> s = "started", old |-> FALSE]
NewVolume(name) == [name |-> name, state |-> "created"]

StopMachines(S) ==
    [m \in 1..Len(machines) |-> IF m \in S /\ machines[m].state # "destroyed"
                                THEN [machines[m] EXCEPT !.state = "stopped"] ELSE machines[m]]
DestroyMachines(S) ==
    [m \in 1..Len(machines) |-> IF m \in S THEN [machines[m] EXCEPT !.state = "destroyed"]
                                ELSE machines[m]]
DestroyVolumes(S) ==
    [v \in 1..Len(volumes) |-> IF v \in S /\ volumes[v].state = "created"
                               THEN [volumes[v] EXCEPT !.state = "pending_destroy"] ELSE volumes[v]]

\* Calls on a set of resources: without an error all were done, with one any
\* subset was.  A resource that is already gone counts as done.
Outcomes(S) == {o \in [done : SUBSET S, err : BOOLEAN] : o.err \/ o.done = S}
Id(x) == IF x = 0 THEN {} ELSE {x}

\* How a create call whose response never arrived may have ended.
Unanswered == IF LateCreates THEN {"applied", "lost", "late"} ELSE {"applied", "lost"}

FlyStarts(m) ==
    /\ machines[m].state = "created"
    /\ machines' = [machines EXCEPT ![m].state = "started", ![m].booted = TRUE]
    /\ UNCHANGED <<row, op, volumes, late>> /\ AttemptUnchanged /\ EnvUnchanged

FlyReaps(v) ==
    /\ volumes[v].state = "pending_destroy"
    /\ volumes' = [volumes EXCEPT ![v].state = "gone"]
    /\ UNCHANGED <<row, op, machines, late>> /\ AttemptUnchanged /\ EnvUnchanged

FlyAppliesLate(c) ==
    /\ late' = late \ {c}
    /\ IF c.kind = "volume"
       THEN volumes' = Append(volumes, NewVolume(c.name)) /\ machines' = machines
       ELSE /\ machines' = Append(machines, NewMachine(c.run, c.t, c.vol, "created"))
            /\ volumes' = volumes
    /\ UNCHANGED <<row, op>> /\ AttemptUnchanged /\ EnvUnchanged

LateOf(kind) == Cardinality({c \in late : c.kind = kind})
RoomForMachine == Len(machines) + LateOf("machine") < MaxMachines
RoomForVolume == Len(volumes) + LateOf("volume") < MaxVolumes
LateVolume(name) == [kind |-> "volume", name |-> name]
LateMachine(run, t, v) == [kind |-> "machine", run |-> run, t |-> t, vol |-> v]

-----------------------------------------------------------------------------
(* createWorker and the attempt it opens or resumes.                       *)

\* db.CreateWorker, the first durable write of createWorker: created_at moves
\* to now, so machines made earlier no longer qualify for adoption.
CreateRecord(t, o) ==
    /\ FreshIds # {} /\ ~row.held
    /\ row' = CreateWorkerRow(row, t)
    /\ machines' = [m \in 1..Len(machines) |-> [machines[m] EXCEPT !.old = TRUE]]
    /\ op' = [o EXCEPT !.pc = "begin", !.t = t]
    /\ UNCHANGED <<volumes, late, crashes>> /\ AttemptUnchanged

\* ensureFleetSpec lists the workers without a lock...
ListMissing ==
    /\ "create" \in Ops /\ row.status \in {"absent", "stopped", "failed"} /\ ~row.held
    /\ lists' = lists \union {"missing"} /\ "missing" \notin lists
    /\ UNCHANGED <<row, op, crashes>> /\ FlyUnchanged /\ AttemptUnchanged

\* ...and creates the ones it found missing; createWorker looks again at the
\* hold only.  fork: a non-main worker first tries to fork a main volume.
CreateWorker(t, fork) ==
    /\ Idle /\ "missing" \in lists /\ lists' = lists \ {"missing"}
    /\ StaleLists \/ row.status \in {"absent", "stopped", "failed"}
    /\ CreateRecord(t, [NoOp EXCEPT !.fork = fork])

\* What resumeWorkerProvisioning does next, from the phase it finds.
ResumeRequested(o, i, phase) == \* slip: a requested machine is asked for again
    CASE phase = "planned" -> [o EXCEPT !.pc = "claimVolume", !.a = i]
      [] phase = "volume_ready" -> [o EXCEPT !.pc = "claimMachine", !.a = i]
      [] phase = "machine_requested" -> [o EXCEPT !.pc = "register", !.a = i]
      [] OTHER -> NoOp
ResumeFrom(o, i, phase) ==
    CASE phase = "planned" -> [o EXCEPT !.pc = "claimVolume", !.a = i]
      [] phase = "volume_ready" -> [o EXCEPT !.pc = "claimMachine", !.a = i]
      [] OTHER -> NoOp

\* The SELECT feeding the insert: a pending row that still has the target; the
\* insert itself yields to an open attempt or to a reused id.
Inserts(i, t) ==
    row.status = "pending" /\ row.target = t /\ OpenIds = {} /\ att[i].phase = "none"
Planned(t, name) == [phase |-> "planned", target |-> t, name |-> name, vol |-> 0, mach |-> 0]

BeginProvisioning ==
    /\ op.pc = "begin" /\ FreshIds # {}
    /\ \/ /\ Inserts(FreshId, op.t)
          /\ att' = [att EXCEPT ![FreshId] = Planned(op.t, FreshId)]
          /\ op' = ResumeFrom(op, FreshId, "planned")
       \/ /\ ~Inserts(FreshId, op.t) /\ att' = att
          /\ op' = IF OpenIds # {} /\ att[ActiveProvisioning].target = op.t
                   THEN ResumeFrom(op, ActiveProvisioning, att[ActiveProvisioning].phase)
                   ELSE NoOp
    /\ UNCHANGED <<row, exp, volPosts, machPosts>> /\ FlyUnchanged /\ EnvUnchanged

\* AdvanceProvisioning: compare-and-set on the phase the lock holder last saw;
\* COALESCE keeps the ids that are not given.
Advanced(a, to, v, m) ==
    [a EXCEPT !.phase = to, !.vol = IF v = 0 THEN @ ELSE v, !.mach = IF m = 0 THEN @ ELSE m]
AdvanceProvisioning(pc, from, to, v, m, next) ==
    /\ op.pc = pc /\ att[op.a].phase \in from
    /\ att' = [att EXCEPT ![op.a] = Advanced(@, to, v, m)]
    /\ op' = [op EXCEPT !.pc = next]
    /\ UNCHANGED <<row, exp, volPosts, machPosts>> /\ FlyUnchanged /\ EnvUnchanged

ClaimVolumeLater == \* slip: the claim is not durable before the request
    AdvanceProvisioning("claimVolume", {"planned"}, "planned", 0, 0, "postVolume")
ClaimVolume ==
    AdvanceProvisioning("claimVolume", {"planned"}, "volume_requested", 0, 0, "postVolume")
SaveVolume ==
    AdvanceProvisioning("saveVolume", {"volume_requested"}, "volume_ready", op.v, 0,
                        IF op.m = 0 THEN "claimMachine" ELSE "expect")
ClaimMachine ==
    AdvanceProvisioning("claimMachine", {"volume_ready"}, "machine_requested", 0, 0, "register")
SaveMachine ==
    AdvanceProvisioning("saveMachine", Phases \ Closed, "machine_ready", op.v, op.m, "finish")

CountPost(posts, run) == [posts EXCEPT ![run] = IF @ < 2 THEN @ + 1 ELSE @]

\* createWorkerVolume: a fork the provider definitely rejected falls back to a
\* fresh volume; any other failure leaves the attempt for discovery.
CreateWorkerVolume ==
    /\ op.pc = "postVolume"
    /\ \/ /\ op.fork /\ op' = [op EXCEPT !.fork = FALSE]
          /\ UNCHANGED <<volPosts, volumes, late>>
       \/ /\ ~op.fork /\ op' = NoOp \* rejected
          /\ UNCHANGED <<volPosts, volumes, late>>
       \/ /\ RoomForVolume /\ volumes' = Append(volumes, NewVolume(att[op.a].name))
          /\ op' = [op EXCEPT !.pc = "saveVolume", !.v = Len(volumes) + 1, !.fork = FALSE]
          /\ volPosts' = CountPost(volPosts, op.a) /\ late' = late
       \/ \E how \in Unanswered :
          /\ how = "lost" \/ RoomForVolume
          /\ volumes' = IF how = "applied" THEN Append(volumes, NewVolume(att[op.a].name)) ELSE volumes
          /\ late' = IF how = "late" THEN late \union {LateVolume(att[op.a].name)} ELSE late
          /\ op' = NoOp /\ volPosts' = CountPost(volPosts, op.a)
    /\ UNCHANGED <<row, att, exp, machines, machPosts>> /\ EnvUnchanged

\* ExpectProvisioningRun stores the identity only while the worker row still
\* carries the attempt's target and may still start.
ExpectProvisioningRun(pc, m, v, next, failed) ==
    /\ op.pc = pc
    /\ exp' = IF RowClaims(op.a) THEN [run |-> op.a, mach |-> m, vol |-> v] ELSE exp
    /\ op' = IF RowClaims(op.a) THEN [op EXCEPT !.pc = next] ELSE failed
    /\ UNCHANGED <<row, att, volPosts, machPosts>> /\ FlyUnchanged /\ EnvUnchanged

RegisterRun == ExpectProvisioningRun("register", 0, att[op.a].vol, "postMachine", NoOp)
BindRunToRow == \* slip: the volume of the worker row, not the attempt's
    ExpectProvisioningRun("bind", op.m, row.vol, "saveMachine", NoOp)
BindRun == ExpectProvisioningRun("bind", op.m, att[op.a].vol, "saveMachine", NoOp)

\* One CreateMachine call; failed is the operation after an error.
PostMachine(run, v, next, failed) ==
    /\ \/ \E s \in {"created", "started"} :
             /\ RoomForMachine
             /\ machines' = Append(machines, NewMachine(run, op.t, v, s))
             /\ op' = [op EXCEPT !.pc = next, !.m = Len(machines) + 1, !.up = (s = "started")]
             /\ late' = late /\ machPosts' = CountPost(machPosts, run)
       \/ op' = failed /\ UNCHANGED <<machines, late, machPosts>> \* rejected
       \/ \E how \in Unanswered :
             /\ how = "lost" \/ RoomForMachine
             /\ machines' = IF how = "applied"
                            THEN Append(machines, NewMachine(run, op.t, v, "created")) ELSE machines
             /\ late' = IF how = "late" THEN late \union {LateMachine(run, op.t, v)} ELSE late
             /\ op' = failed
             /\ machPosts' = CountPost(machPosts, run)
    /\ UNCHANGED <<row, att, exp, volumes, volPosts>> /\ EnvUnchanged

CreateWorkerMachine ==
    op.pc = "postMachine" /\ PostMachine(op.a, att[op.a].vol, "bind", NoOp)

\* finishWorkerProvisioning: CompleteProvisioning commits the attempt and the
\* worker together or not at all; a machine not yet started is only bound.
FinishWithMachineState == \* slip: the machine's state stored as the worker's status
    /\ op.pc = "finish" /\ RowClaims(op.a)
    /\ att' = [att EXCEPT ![op.a].phase = "complete"]
    /\ row' = [UpdateWorkerMachine(row, att[op.a].mach, att[op.a].vol)
                 EXCEPT !.status = machines[op.m].state]
    /\ op' = NoOp
    /\ UNCHANGED <<exp, volPosts, machPosts>> /\ FlyUnchanged /\ EnvUnchanged
Finishable(i) == att[i].phase = "machine_ready" /\ RowClaims(i)
FinishProvisioning ==
    /\ op.pc = "finish"
    /\ LET bound == UpdateWorkerMachine(row, att[op.a].mach, att[op.a].vol)
       IN /\ att' = IF Finishable(op.a) /\ op.up THEN [att EXCEPT ![op.a].phase = "complete"] ELSE att
          /\ row' = IF ~Finishable(op.a) THEN row
                    ELSE IF op.up THEN UpdateWorkerStatus(bound, "starting", "none") ELSE bound
          /\ op' = IF Finishable(op.a) /\ op.probe THEN [NoOp EXCEPT !.pc = "markProbing"] ELSE NoOp
    /\ UNCHANGED <<exp, volPosts, machPosts>> /\ FlyUnchanged /\ EnvUnchanged

-----------------------------------------------------------------------------
(* recoverPendingWorker: reconcile a pending row or an open attempt with   *)
(* what the provider lists.  Each way out that only records "provisioning  *)
(* unavailable" changes nothing and is the absence of a step.              *)

RecoverablePending == row.status = "pending" /\ ~row.held \* slip: only pending rows are looked at
Recoverable ==
    /\ row.status \notin {"absent", "stopped", "dormant", "failed"} /\ ~row.held
    /\ row.status = "pending" \/ OpenIds # {}

\* Without an attempt, a live machine must carry the expected run.
Confirmed(m) ==
    /\ exp.run # 0 /\ machines[m].run = exp.run /\ ~machines[m].old
    /\ machines[m].target = row.target /\ exp.vol \in {0, machines[m].vol}
RetainedVolume(v) ==
    /\ v = row.vol \/ volumes[v].name = 0
    /\ volumes[v].state = "created" \/ Attached(v)

\* No attempt row: adopt the one confirmed machine, or start an attempt when
\* nothing of the worker is left.
RecoverLegacy ==
    /\ OpenIds = {} /\ \A m \in LiveMachines : Confirmed(m)
    /\ \/ \E m \in LiveMachines :
             /\ LiveMachines = {m} /\ Usable(machines[m].vol)
             /\ op' = [NoOp EXCEPT !.pc = "adopt", !.t = row.target, !.a = exp.run, !.m = m,
                                   !.v = machines[m].vol, !.up = (machines[m].state = "started")]
       \/ /\ LiveMachines = {} /\ FreshIds # {}
          /\ \A v \in Listed : ~RetainedVolume(v)
          /\ op' = [NoOp EXCEPT !.pc = "begin", !.t = row.target]

OwnedVolumes(i) == {v \in Listed : volumes[v].name = att[i].name}
OwnedMachines(i) == {m \in LiveMachines : machines[m].run = i}
VolumeConsistent(i, v) == Usable(v) /\ att[i].vol \in {0, v}
MachineConsistent(i, m) ==
    /\ Usable(machines[m].vol) /\ volumes[machines[m].vol].name = att[i].name
    /\ att[i].vol \in {0, machines[m].vol}
    /\ exp.run = i /\ exp.vol \in {0, machines[m].vol}

\* With an attempt: take over the volume and the machine it asked for, or go on
\* from its phase when that phase asks for nothing yet.  The code saves a volume
\* it finds before it looks at the machines; those checks cannot fail then, since
\* an attempt in volume_requested has not asked for a machine.
RecoverAttempt ==
    /\ OpenIds # {}
    /\ LET i == ActiveProvisioning
           vs == OwnedVolumes(i)
           ms == OwnedMachines(i)
           o == [NoOp EXCEPT !.a = i, !.t = row.target]
           asked == att[i].phase = "volume_requested"
       IN /\ att[i].target = row.target
          /\ \/ vs = {} \/ \E v \in vs : vs = {v} /\ VolumeConsistent(i, v)
          /\ \/ \E m \in ms :
                   /\ ms = {m} /\ MachineConsistent(i, m)
                   /\ op' = [o EXCEPT !.pc = IF asked /\ vs # {} THEN "saveVolume" ELSE "expect",
                                      !.m = m, !.v = machines[m].vol,
                                      !.up = (machines[m].state = "started")]
             \/ /\ ms = {} /\ (att[i].vol = 0 \/ vs # {})
                /\ \A v \in vs : ~Attached(v)
                /\ op' = IF asked /\ vs # {}
                         THEN [o EXCEPT !.pc = "saveVolume", !.v = CHOOSE v \in vs : TRUE]
                         ELSE ResumeFrom(o, i, att[i].phase)

RecoverPendingWorker ==
    /\ "recover" \in Ops /\ Idle /\ Recoverable
    /\ RecoverLegacy \/ RecoverAttempt
    /\ op'.pc # "idle"
    /\ UNCHANGED row /\ FlyUnchanged /\ AttemptUnchanged /\ EnvUnchanged

\* Adoption opens the attempt under the expected run's id, records the
\* resources it found and only then rebinds the identity.
AdoptBegin ==
    /\ op.pc = "adopt"
    /\ att' = IF Inserts(op.a, op.t) THEN [att EXCEPT ![op.a] = Planned(op.t, volumes[op.v].name)]
            ELSE att
    /\ op' = IF Inserts(op.a, op.t) THEN [op EXCEPT !.pc = "adoptSave"] ELSE NoOp
    /\ UNCHANGED <<row, exp, volPosts, machPosts>> /\ FlyUnchanged /\ EnvUnchanged
AdoptSave ==
    AdvanceProvisioning("adoptSave", {"planned"}, "machine_ready", op.v, op.m, "adoptExpect")
AdoptExpect == ExpectProvisioningRun("adoptExpect", op.m, op.v, "finish", NoOp)

\* Recovery of an attempt rebinds the identity first.
RecoverExpect == ExpectProvisioningRun("expect", op.m, op.v, "saveMachine", NoOp)

-----------------------------------------------------------------------------
(* Teardown, stop and pause.                                               *)

StopCall(next, done) ==
    \E o \in Outcomes(Id(row.mach)) :
        /\ machines' = StopMachines(o.done)
        /\ op' = IF done THEN NoOp ELSE [NoOp EXCEPT !.pc = next]
        /\ UNCHANGED <<row, volumes, late>> /\ AttemptUnchanged /\ EnvUnchanged

\* A failed stop is only logged; the ids stay in the row.
StopWorker ==
    /\ "stop" \in Ops /\ Idle /\ row.status # "absent" /\ StopCall("markStopped", FALSE)

DormantWorker ==
    /\ "pause" \in Ops /\ Idle /\ row.status \notin {"absent", "stopped", "failed"}
    /\ StopCall("markDormant", FALSE)

\* retainHeldWorker keeps the resources and stops the machine.
RetainHeldWorker ==
    /\ "destroy" \in Ops /\ Idle /\ row.held
    /\ StopCall("markStopped", row.status = "stopped")

Mark(pc, r) ==
    /\ op.pc = pc /\ row' = r /\ op' = NoOp
    /\ FlyUnchanged /\ AttemptUnchanged /\ EnvUnchanged
MarkStopped == Mark("markStopped", UpdateWorkerStatus(row, "stopped", "none"))
MarkDormant == Mark("markDormant", MarkWorkerDormant(row))
MarkProbing == Mark("markProbing", MarkWorkerProbing(row))

\* destroyWorker goes through every cleanup and remembers whether one failed.
DestroyWorker ==
    /\ "destroy" \in Ops /\ Idle /\ row.status # "absent" /\ ~row.held
    /\ \E o \in Outcomes(Id(row.mach)) :
          /\ machines' = DestroyMachines(o.done)
          /\ op' = [NoOp EXCEPT !.pc = "destroyVolume", !.w = Seen, !.errs = o.err]
    /\ UNCHANGED <<row, volumes, late>> /\ AttemptUnchanged /\ EnvUnchanged

DestroyVolume ==
    /\ op.pc = "destroyVolume"
    /\ \E o \in Outcomes(Id(op.w.vol)) :
          /\ volumes' = DestroyVolumes(o.done)
          /\ op' = [op EXCEPT !.pc = "destroyAttempt", !.errs = @ \/ o.err]
    /\ UNCHANGED <<row, machines, late>> /\ AttemptUnchanged /\ EnvUnchanged

\* destroyProvisioningResources lists and destroys what the open attempt owns,
\* by run id or volume name and by the ids it recorded.  The replica prefix is
\* cleared next; its failure only adds to the errors.
AttemptMachines(i) == {m \in LiveMachines : machines[m].run = i \/ m = att[i].mach}
AttemptVolumes(i) == {v \in Listed : Usable(v) /\ (volumes[v].name = att[i].name \/ v = att[i].vol)}
DestroyProvisioningResources ==
    /\ op.pc = "destroyAttempt"
    /\ \E om \in Outcomes(IF OpenIds = {} THEN {} ELSE AttemptMachines(ActiveProvisioning)),
          ov \in Outcomes(IF OpenIds = {} THEN {} ELSE AttemptVolumes(ActiveProvisioning)) :
          /\ machines' = DestroyMachines(om.done) /\ volumes' = DestroyVolumes(ov.done)
          /\ op' = [op EXCEPT !.a = ActiveProvisioning, !.errs = @ \/ om.err \/ ov.err,
                              !.pc = IF op.errs \/ om.err \/ ov.err THEN "destroyFailed"
                                     ELSE IF OpenIds = {} THEN "markStopped" ELSE "abandon"]
    /\ UNCHANGED <<row, late>> /\ AttemptUnchanged /\ EnvUnchanged

AbandonProvisioning ==
    AdvanceProvisioning("abandon", Phases \ Closed, "abandoned", 0, 0, "markStopped")

\* The status written back is the one read before the cleanup.
DestroyFailed == Mark("destroyFailed", UpdateWorkerStatus(row, op.w.status, "other"))

-----------------------------------------------------------------------------
(* Replacement by a rollout or a targeted roll.                            *)

\* supersededProvisioning: the attempt's machine is the worker's machine and
\* the new deployment is another one.
SupersededUnbound(i, t) == \* slip: the worker row need not name the attempt's resources
    row.status # "pending" /\ att[i].phase = "machine_ready" /\ att[i].target # t
SupersededProvisioning(i, t) ==
    /\ row.status # "pending" /\ att[i].phase = "machine_ready"
    /\ att[i].mach = row.mach /\ att[i].vol = row.vol
    /\ att[i].target = row.target /\ att[i].target # t

\* RollWorker does not look at the status, so a stopped or dormant worker can
\* be replaced as well.
ReplaceLeavingOpen(t) == \* slip: the superseded attempt is not closed
    /\ "replace" \in Ops /\ Idle /\ FreshIds # {}
    /\ row.status \notin {"absent", "pending"} /\ ~row.held
    /\ \A i \in OpenIds : SupersededProvisioning(i, t)
    /\ op' = [NoOp EXCEPT !.pc = "replaceMachine", !.t = t, !.w = Seen]
    /\ UNCHANGED row /\ AttemptUnchanged /\ FlyUnchanged /\ EnvUnchanged
ReplaceWorker(t) ==
    /\ "replace" \in Ops /\ Idle /\ FreshIds # {}
    /\ row.status \notin {"absent", "pending"} /\ ~row.held
    /\ \A i \in OpenIds : SupersededProvisioning(i, t)
    /\ att' = [i \in Runs |-> IF i \in OpenIds THEN [att[i] EXCEPT !.phase = "abandoned"] ELSE att[i]]
    /\ op' = [NoOp EXCEPT !.pc = "replaceMachine", !.t = t, !.w = Seen]
    /\ UNCHANGED <<row, exp, volPosts, machPosts>> /\ FlyUnchanged /\ EnvUnchanged

\* Stop, then destroy; any error but not-found ends the replacement.
ReplaceMachine ==
    /\ op.pc = "replaceMachine"
    /\ \/ /\ machines' = DestroyMachines(Id(op.w.mach))
          /\ op' = [op EXCEPT !.pc = "replaceVolume"]
       \/ /\ op.w.mach # 0 /\ op' = NoOp
          /\ \E o \in Outcomes(Id(op.w.mach)) : machines' = StopMachines(o.done)
    /\ UNCHANGED <<row, volumes, late>> /\ AttemptUnchanged /\ EnvUnchanged

VolumeThenCreate(pc) ==
    /\ op.pc = pc
    /\ \E o \in Outcomes(Id(op.w.vol)) :
          /\ volumes' = DestroyVolumes(o.done)
          /\ op' = IF o.err THEN NoOp ELSE [op EXCEPT !.pc = "create"]
    /\ UNCHANGED <<row, machines, late>> /\ AttemptUnchanged /\ EnvUnchanged
ReplaceVolume == VolumeThenCreate("replaceVolume")

CreateReplacement == op.pc = "create" /\ CreateRecord(op.t, op) /\ UNCHANGED lists

-----------------------------------------------------------------------------
(* resumeDormantWorkerLocked: a probe on the dormant worker's volume.      *)

\* drift: the desired region or volume size changed, so nothing is kept.
ResumeDormantWorker(t, drift) ==
    /\ "resume" \in Ops /\ Idle /\ Cardinality(FreshIds) >= 2 /\ row.status = "dormant" /\ ~row.held
    /\ LET o == [NoOp EXCEPT !.t = t, !.probe = TRUE, !.w = Seen]
       IN \/ drift /\ op' = [o EXCEPT !.pc = "recreateMachine"] /\ row' = row
          \/ /\ ~drift /\ row.vol # 0 /\ row' = row
             /\ op' = [o EXCEPT !.pc = "probeDestroy", !.v = row.vol]
          \/ \* resolveWorkerVolumeID backfills the id from the machine's mount
             /\ ~drift /\ row.vol = 0 /\ row.mach \in LiveMachines
             /\ row' = UpdateWorkerMachine(row, row.mach, machines[row.mach].vol)
             /\ op' = [o EXCEPT !.pc = "probeDestroy", !.v = machines[row.mach].vol]
    /\ FlyUnchanged /\ AttemptUnchanged /\ EnvUnchanged

\* A failure to destroy the old machine is only logged.
ProbeDestroy ==
    /\ op.pc = "probeDestroy"
    /\ \E o \in Outcomes(Id(op.w.mach)) : machines' = DestroyMachines(o.done)
    /\ op' = [op EXCEPT !.pc = "probeRegister", !.a = ActiveProvisioning]
    /\ UNCHANGED <<row, volumes, late>> /\ AttemptUnchanged /\ EnvUnchanged

\* The recreation starts over from the worker as it was read.
Recreate == [NoOp EXCEPT !.pc = "recreateMachine", !.t = op.t, !.probe = op.probe, !.w = op.w]

\* createWorkerMachine for a probe: with an open attempt its run and its claim
\* are used, otherwise a fresh run, stored unconditionally.
ProbeRegisterUnclaimed == \* slip: the open attempt's run is reused without its claim
    /\ op.pc = "probeRegister"
    /\ exp' = [run |-> IF op.a = 0 THEN FreshId ELSE op.a, mach |-> 0, vol |-> op.v]
    /\ op' = [op EXCEPT !.pc = "probePost"]
    /\ UNCHANGED <<row, att, volPosts, machPosts>> /\ FlyUnchanged /\ EnvUnchanged
ProbeRegister ==
    /\ op.pc = "probeRegister" /\ FreshIds # {}
    /\ LET claims == RowClaims(op.a) /\ att[op.a].target = op.t
           run == IF op.a = 0 THEN FreshId ELSE op.a
       IN /\ exp' = IF op.a = 0 \/ claims THEN [run |-> run, mach |-> 0, vol |-> op.v] ELSE exp
          /\ op' = IF op.a = 0 \/ claims THEN [op EXCEPT !.pc = "probePost"] ELSE Recreate
    /\ UNCHANGED <<row, att, volPosts, machPosts>> /\ FlyUnchanged /\ EnvUnchanged

\* Every error, an unanswered request included, leads to recreation.
ProbePost == op.pc = "probePost" /\ PostMachine(exp.run, op.v, "probeBind", Recreate)

ProbeBind ==
    /\ op.pc = "probeBind"
    /\ exp' = IF op.a = 0 \/ RowClaims(op.a) THEN [exp EXCEPT !.mach = op.m] ELSE exp
    /\ op' = IF op.a = 0 \/ RowClaims(op.a) THEN [op EXCEPT !.pc = "probeSave"] ELSE Recreate
    /\ UNCHANGED <<row, att, volPosts, machPosts>> /\ FlyUnchanged /\ EnvUnchanged

ProbeSave ==
    /\ op.pc = "probeSave"
    /\ row' = [UpdateWorkerMachine(row, op.m, op.v) EXCEPT !.target = op.t]
    /\ op' = [NoOp EXCEPT !.pc = "markProbing"]
    /\ FlyUnchanged /\ AttemptUnchanged /\ EnvUnchanged

\* recreateDormantWorkerForProbeLocked: an error here ends the resume.
RecreateMachine ==
    /\ op.pc = "recreateMachine"
    /\ \E o \in Outcomes(Id(op.w.mach)) :
          /\ machines' = DestroyMachines(o.done)
          /\ op' = IF o.err THEN NoOp ELSE [op EXCEPT !.pc = "recreateVolume"]
    /\ UNCHANGED <<row, volumes, late>> /\ AttemptUnchanged /\ EnvUnchanged
RecreateVolume == VolumeThenCreate("recreateVolume")

-----------------------------------------------------------------------------
(* Worker reports.  ReportAttribution quarantines every report whose run   *)
(* and machine are not the expected ones; a quarantined report leaves the  *)
(* worker alone.                                                           *)

Reports(m) ==
    /\ machines[m].booted /\ (machines[m].state = "started" \/ LateReports)
    /\ exp.run = machines[m].run /\ exp.mach = m

ReportStep(r) ==
    /\ row' = r /\ r # row
    /\ UNCHANGED op /\ FlyUnchanged /\ AttemptUnchanged /\ EnvUnchanged

Heartbeat(m, s) ==
    /\ "report" \in Ops /\ Reports(m)
    /\ ReportStep(UpsertReported(row, m, machines[m].target, s))

\* A failed event, and the two disk-full events, which degrade the worker.
WorkerEvent(m, full) ==
    /\ "report" \in Ops /\ Reports(m)
    /\ ReportStep(IF full
                  THEN UpdateVerificationState(UpsertReported(row, m, machines[m].target, "running"), FALSE)
                  ELSE UpsertFailed(row, m, machines[m].target))

\* handleVerification holds the worker lock; a failed probe returns the worker
\* to dormancy under it.
Verification(m, result) ==
    /\ "report" \in Ops /\ Idle /\ Reports(m)
    /\ LET before == UpsertReported(row, m, machines[m].target, "running")
           demote == before.status = "probing" /\ result = "failed"
       IN /\ row' = IF result = "inconclusive" THEN before
                    ELSE UpdateVerificationState(before, result = "passed")
          /\ row' # row \/ demote
          /\ op' = IF demote THEN [NoOp EXCEPT !.pc = "markDormant"] ELSE op
          /\ \E o \in Outcomes(IF demote THEN {m} ELSE {}) : machines' = StopMachines(o.done)
    /\ UNCHANGED <<volumes, late>> /\ AttemptUnchanged /\ EnvUnchanged

\* checkStaleWorkers lists without the worker lock and writes afterwards.
ListStale ==
    /\ "stale" \in Ops /\ StaleCandidate(row) /\ "stale" \notin lists
    /\ lists' = lists \union {"stale"}
    /\ UNCHANGED <<row, op, crashes>> /\ FlyUnchanged /\ AttemptUnchanged
WriteStale ==
    /\ "stale" \in lists /\ lists' = lists \ {"stale"}
    /\ row' = MarkStale(row)
    /\ UNCHANGED <<op, crashes>> /\ FlyUnchanged /\ AttemptUnchanged

HoldEvidenceUnlocked(h) == \* slip: the hold does not take the worker lock
    /\ "hold" \in Ops /\ row.status # "absent" /\ row.held # h
    /\ row' = SetEvidenceHold(row, h)
    /\ UNCHANGED op /\ FlyUnchanged /\ AttemptUnchanged /\ EnvUnchanged
HoldEvidence(h) ==
    /\ "hold" \in Ops /\ Idle /\ row.status # "absent" /\ row.held # h
    /\ row' = SetEvidenceHold(row, h)
    /\ UNCHANGED op /\ FlyUnchanged /\ AttemptUnchanged /\ EnvUnchanged

\* The control plane stops; nothing but the database survives.
Crash ==
    /\ crashes < MaxCrashes /\ (~Idle \/ lists # {})
    /\ crashes' = crashes + 1 /\ op' = NoOp /\ lists' = {}
    /\ UNCHANGED row /\ FlyUnchanged /\ AttemptUnchanged

-----------------------------------------------------------------------------
NoAttempt == [phase |-> "none", target |-> NoTarget, name |-> 0, vol |-> 0, mach |-> 0]
NoRun == [run |-> 0, mach |-> 0, vol |-> 0]

EmptyDatabase ==
    /\ row = AbsentRow(NoTarget) /\ exp = NoRun /\ machines = <<>> /\ volumes = <<>>

\* A row the previous release left pending, its machine created and its run
\* registered: recovery adopts it.
PendingDatabase(t) ==
    /\ Legacy
    /\ row = CreateWorkerRow(AbsentRow(NoTarget), t) /\ exp = [run |-> 1, mach |-> 0, vol |-> 1]
    /\ machines = <<NewMachine(1, t, 1, "started")>> /\ volumes = <<NewVolume(0)>>

Init ==
    /\ EmptyDatabase \/ \E t \in Targets : PendingDatabase(t)
    /\ att = [i \in Runs |-> NoAttempt]
    /\ volPosts = [i \in Runs |-> 0] /\ machPosts = [i \in Runs |-> 0]
    /\ late = {} /\ op = NoOp /\ lists = {} /\ crashes = 0

Creation ==
    \/ ListMissing \/ \E t \in Targets, fork \in BOOLEAN : CreateWorker(t, fork)
    \/ BeginProvisioning \/ ClaimVolume \/ CreateWorkerVolume \/ SaveVolume
    \/ ClaimMachine \/ RegisterRun \/ CreateWorkerMachine \/ BindRun \/ SaveMachine
    \/ FinishProvisioning
Recovery ==
    RecoverPendingWorker \/ AdoptBegin \/ AdoptSave \/ AdoptExpect \/ RecoverExpect
Teardown ==
    \/ StopWorker \/ DormantWorker \/ RetainHeldWorker \/ MarkStopped \/ MarkDormant
    \/ DestroyWorker \/ DestroyVolume \/ DestroyProvisioningResources
    \/ AbandonProvisioning \/ DestroyFailed
Replacement ==
    \/ \E t \in Targets : ReplaceWorker(t)
    \/ ReplaceMachine \/ ReplaceVolume \/ CreateReplacement
Resumption ==
    \/ \E t \in Targets, drift \in BOOLEAN : ResumeDormantWorker(t, drift)
    \/ ProbeDestroy \/ ProbeRegister \/ ProbePost \/ ProbeBind \/ ProbeSave
    \/ RecreateMachine \/ RecreateVolume \/ MarkProbing
Reporting ==
    \E m \in 1..Len(machines) :
        \/ \E s \in {"running", "starting"} : Heartbeat(m, s)
        \/ \E full \in BOOLEAN : WorkerEvent(m, full)
        \/ \E result \in {"passed", "failed", "inconclusive"} : Verification(m, result)
Monitor == ListStale \/ WriteStale
Operator == \E h \in BOOLEAN : HoldEvidence(h)
Provider ==
    \/ \E m \in 1..Len(machines) : FlyStarts(m)
    \/ \E v \in 1..Len(volumes) : FlyReaps(v)
    \/ \E c \in late : FlyAppliesLate(c)

Next == \/ Creation \/ Recovery \/ Teardown \/ Replacement \/ Resumption
        \/ Reporting \/ Monitor \/ Operator \/ Provider \/ Crash
Spec == Init /\ [][Next]_vars

\* The goroutine that holds the worker lock takes its next step.
Continue ==
    /\ ~Idle
    /\ Creation \/ Recovery \/ Teardown \/ Replacement \/ Resumption
    /\ op' # op

\* The goroutine goes on, the fleet reconciler comes round every ten minutes,
\* and the provider starts the machines it has accepted.
Started == \E m \in 1..Len(machines) : FlyStarts(m)

-----------------------------------------------------------------------------
Steps == {"idle", "begin", "claimVolume", "postVolume", "saveVolume", "claimMachine",
          "register", "postMachine", "bind", "saveMachine", "finish", "adopt", "adoptSave",
          "adoptExpect", "expect", "markStopped", "markDormant", "markProbing",
          "destroyVolume", "destroyAttempt", "abandon", "destroyFailed", "replaceMachine",
          "replaceVolume", "create", "probeDestroy", "probeRegister", "probePost",
          "probeBind", "probeSave", "recreateMachine", "recreateVolume"}
Target == Targets \union {NoTarget}
Machine == [run : Runs, target : Target, vol : Nat,
            state : {"created", "started", "stopped", "destroyed"}, booted : BOOLEAN, old : BOOLEAN]
Volume == [name : {0} \union Runs, state : {"created", "pending_destroy", "gone"}]
LateCreate ==
    [kind : {"volume"}, name : {0} \union Runs]
    \union [kind : {"machine"}, run : Runs, t : Target, vol : Nat]

Row == [status : Statuses, target : Target, mach : Nat, vol : Nat,
        err : {"none", "missed", "other"}, hb : BOOLEAN, dormantAt : BOOLEAN, held : BOOLEAN]
Attempt == [phase : Phases, target : Target, name : {0} \union Runs, vol : Nat, mach : Nat]
Identity == [run : {0} \union Runs, mach : Nat, vol : Nat]
Operation == [pc : Steps, t : Target, a : {0} \union Runs, m : Nat, v : Nat, up : BOOLEAN,
              probe : BOOLEAN, fork : BOOLEAN, errs : BOOLEAN,
              w : [status : Statuses, mach : Nat, vol : Nat]]

AttOK == att \in [Runs -> Attempt] /\ exp \in Identity
PostsOK == volPosts \in [Runs -> 0..2] /\ machPosts \in [Runs -> 0..2]
FlyOK == machines \in Seq(Machine) /\ volumes \in Seq(Volume) /\ late \subseteq LateCreate
EnvOK == lists \subseteq {"missing", "stale"} /\ crashes \in Nat

\* An operation working on an attempt names its run, and an adoption a volume.
AttemptSteps == {"claimVolume", "postVolume", "saveVolume", "claimMachine", "register",
                 "postMachine", "bind", "saveMachine", "finish", "adopt", "adoptSave",
                 "adoptExpect", "expect", "abandon"}
OpNames == /\ op.pc \in AttemptSteps => op.a \in Runs
           /\ op.pc = "adopt" => op.v \in 1..Len(volumes)
           /\ op.pc = "probePost" => exp.run \in Runs

\* Every variable keeps the shape the code gives it.
TypeOK == row \in Row /\ op \in Operation /\ AttOK /\ PostsOK /\ FlyOK /\ EnvOK /\ OpNames

\* However crashes, unanswered or late-applied requests, recoveries and retries
\* interleave, an attempt sends at most one volume create that the provider did
\* not reject: volume_requested is written before the call and nothing leads
\* back from it.
AtMostOneVolume == \A i \in Runs : volPosts[i] <= 1

\* Why: the phase records a volume request before it is sent, and the lock
\* holder about to send one is the one that recorded it.
VolumeClaims ==
    /\ \A i \in Runs : volPosts[i] <= 1 /\ (volPosts[i] = 1 => att[i].phase \notin {"none", "planned"})
    /\ op.pc = "postVolume" => att[op.a].phase = "volume_requested" /\ volPosts[op.a] = 0

\* The same of the machine create, probes of a dormant worker included: a probe
\* never reuses a run that already asked for a machine.
AtMostOneMachine == \A i \in Runs : machPosts[i] <= 1

\* The attempts as entries of the abstract ledger.
LedgerState(phase) == IF phase = "none" THEN "new" ELSE IF phase \in Closed THEN "closed" ELSE "open"
LedgerView == [i \in Runs |-> [state |-> LedgerState(att[i].phase),
                               volumes |-> volPosts[i], machines |-> machPosts[i]]]
Ledger == INSTANCE AttemptLedger WITH ledger <- LedgerView

\* The attempts keep the ledger's promise: one open attempt at a time, requests
\* only while it is open and at most one of each kind, no way back from closed.
KeepsLedger == Ledger!LedgerSpec

\* Why: machine_requested is written before the request, the holder of the lock
\* registers and sends it at most once, and inserts wait for closed attempts.
Asked == {"machine_requested", "machine_ready", "complete", "abandoned"}
MachineClaims ==
    /\ \A i \in Runs : machPosts[i] <= 1 /\ (machPosts[i] = 1 => att[i].phase \in Asked)
    /\ op.pc \in {"register", "postMachine"} =>
          att[op.a].phase = "machine_requested" /\ machPosts[op.a] = 0
OneOpen == \A i, j \in OpenIds : i = j

\* The expected identity, once bound, is that of a machine with the run and the
\* volume it names, so an accepted report comes from the machine the control
\* plane registered.
IdentityCoherent ==
    exp.mach # 0 => /\ exp.mach <= Len(machines) /\ machines[exp.mach].run = exp.run
                    /\ machines[exp.mach].vol = exp.vol

\* The steps between the decision to replace a worker and its new record.
ReplaceSteps == {"replaceMachine", "replaceVolume", "recreateMachine", "recreateVolume", "create"}

\* Why: whoever is about to bind the identity to a machine has created or found
\* it under the run and the volume it binds, and a machine keeps both for life.
Carries(m, run, v) ==
    m \in 1..Len(machines) /\ machines[m].run = run /\ machines[m].vol = v
IdentityClaims ==
    /\ exp.mach # 0 => Carries(exp.mach, exp.run, exp.vol)
    /\ op.pc = "bind" => Carries(op.m, op.a, att[op.a].vol)
    /\ op.pc \in {"adopt", "adoptSave", "adoptExpect", "expect"} => Carries(op.m, op.a, op.v)
    /\ op.pc = "saveVolume" /\ op.m # 0 => Carries(op.m, op.a, op.v)
    /\ op.pc \in {"begin", "claimVolume", "postVolume"} \union ReplaceSteps => op.m = 0
    /\ op.pc = "probePost" => exp.vol = op.v
    /\ op.pc = "probeBind" => Carries(op.m, exp.run, exp.vol)

\* What the worker row or the operation in progress still names.
Named(m) == m \in {row.mach, op.w.mach, op.m}
NamedVolume(v) == v \in {row.vol, op.w.vol, op.v}

\* A resource an attempt created is never lost from sight: while it exists the
\* attempt is open (and its teardown finds it by run id or volume name) or the
\* worker row names it.  (An adopted attempt carries the volume name of the
\* release before attempts existed, which other volumes may share.)
NothingLost ==
    \A i \in Runs \ OpenIds : att[i].name = i =>
        /\ \A m \in OwnedMachines(i) : Named(m)
        /\ \A v \in OwnedVolumes(i) : Usable(v) => NamedVolume(v)

\* Why, to begin with: a replacement goes on once no attempt is open.
ReplacementAlone == op.pc \in {"replaceMachine", "replaceVolume", "create"} => OpenIds = {}

\* Next, attempts, machines and volumes tell where they come from.  A run
\* that carries its own volume name has asked for its machine and its volume
\* itself, there is at most one of each, and its record names no others.
Own(i) == i \in Runs /\ att[i].name = i
Holds(i, v) == v \in 1..Len(volumes) /\ volumes[v].name = i
Provenance ==
    /\ \A i \in Runs : att[i].name \in {0, i} /\ (att[i].phase = "none" => att[i].name = 0)
    /\ \A m \in 1..Len(machines) :
          IF att[machines[m].run].phase = "none" THEN Holds(0, machines[m].vol)
          ELSE Own(machines[m].run) => machPosts[machines[m].run] = 1
    /\ \A v \in 1..Len(volumes) :
          volumes[v].name # 0 => Own(volumes[v].name) /\ volPosts[volumes[v].name] = 1
    /\ \A m, n \in 1..Len(machines) :
          machines[m].run = machines[n].run /\ Own(machines[m].run) => m = n
    /\ \A v, w \in 1..Len(volumes) :
          volumes[v].name = volumes[w].name /\ volumes[v].name # 0 => v = w
Recorded ==
    \A i \in Runs : Own(i) =>
        /\ att[i].vol # 0 => Holds(i, att[i].vol)
        /\ att[i].phase \in {"volume_ready", "machine_requested", "machine_ready"} => att[i].vol # 0
        /\ att[i].phase = "machine_ready" => exp.run = i /\ exp.mach # 0 /\ att[i].mach = exp.mach
VolumeSteps == {"saveVolume", "claimMachine", "register", "postMachine", "bind", "expect", "saveMachine"}
HolderInformed ==
    /\ op.pc \in VolumeSteps /\ Own(op.a) => op.v = 0 \/ Holds(op.a, op.v)
    /\ op.pc \in {"begin", "replaceMachine", "replaceVolume", "create"} => op.v = 0
    /\ op.pc \in {"saveVolume", "expect"} /\ Own(op.a) => op.v # 0
    /\ op.pc \in {"expect", "adoptExpect"} => op.a \in OpenIds
    /\ op.pc \in {"adoptSave", "adoptExpect"} => att[op.a].name = 0
    /\ op.pc = "claimMachine" => att[op.a].phase = "volume_ready"
    /\ op.pc = "bind" => att[op.a].phase = "machine_requested"
    /\ op.pc = "saveMachine" /\ Own(op.a) => op.v # 0 \/ att[op.a].vol # 0
    /\ op.pc \in {"saveMachine", "finish"} => exp.run = op.a /\ exp.mach = op.m /\ op.m # 0
    /\ op.pc \in {"adoptExpect", "finish"} => att[op.a].mach = op.m

\* Then: what closed attempts left behind is what the worker row names, and
\* nothing is left where a new attempt may begin.
ClosedOwn(i) == Own(i) /\ i \notin OpenIds
Survivors == {m \in LiveMachines : ClosedOwn(machines[m].run)}
VolumesLeft == {v \in 1..Len(volumes) : volumes[v].state = "created" /\ ClosedOwn(volumes[v].name)}
Clear == Survivors = {} /\ VolumesLeft = {}
Vacant(status) ==
    /\ status \in {"absent", "stopped", "failed", "pending"} => Clear
    /\ status \in {"absent", "stopped", "failed"} => OpenIds = {}
Tenancy ==
    /\ late = {} /\ ~row.held
    /\ Survivors \subseteq {row.mach} /\ VolumesLeft \subseteq {row.vol}
    /\ exp.mach \in {0, row.mach} \/ Survivors = {}
    /\ OpenIds # {} => Clear
    /\ Vacant(row.status)

\* Last: a teardown or a replacement only gets to the next record once it has
\* destroyed what was left.
Cleanup ==
    /\ op.pc \in {"destroyVolume", "destroyAttempt", "destroyFailed"} => Vacant(op.w.status)
    /\ op.pc \in {"destroyVolume", "replaceMachine", "replaceVolume"} => VolumesLeft \subseteq {op.w.vol}
    /\ op.pc = "destroyVolume" /\ ~op.errs => Survivors = {}
    /\ op.pc = "destroyAttempt" /\ ~op.errs => Clear
    /\ op.pc = "abandon" =>
          /\ OpenIds = {op.a} /\ \A m \in LiveMachines : machines[m].run # op.a
          /\ \A v \in 1..Len(volumes) : volumes[v].state = "created" => volumes[v].name # op.a
    /\ op.pc = "markStopped" => Clear /\ OpenIds = {}
    /\ op.pc = "create" => Clear
    /\ op.pc = "replaceMachine" => Survivors \subseteq {op.w.mach}
    /\ op.pc = "replaceVolume" => Survivors = {}

\* "While the hold is set, no control-plane path destroys them": no step taken
\* while the worker is held destroys one of its machines or volumes.
HeldEvidenceKept ==
    [][row.held =>
        /\ \A m \in LiveMachines : machines'[m].state # "destroyed"
        /\ \A v \in 1..Len(volumes) : volumes[v].state = "created" => volumes'[v].state = "created"]_vars

\* "Reconciliation does not delete volumes": the volume of an attempt that stays
\* open is destroyed by a teardown of the worker and by nothing else.
OpenVolumeKept ==
    [][\A i \in OpenIds, v \in 1..Len(volumes) :
        (Usable(v) /\ volumes[v].name = att[i].name /\ volumes'[v].state # "created")
            => op.pc \in {"destroyVolume", "destroyAttempt"}]_vars

\* Reports of a stopped worker leave "an observable heartbeat trail without
\* resurrecting the row": only a new creation takes the row out of stopped.
NoResurrection == [][row.status = "stopped" => row'.status \in {"stopped", "pending"}]_vars

\* "A heartbeat arriving first does not prevent later completion of the
\* attempt": an attempt whose machine the control plane knows completes, unless
\* a failure report takes the worker out of the statuses that may complete.
Readied(i) == att[i].phase = "machine_ready"
CompletedOrGone(i) == att[i].phase = "complete" \/ row.status \notin Completable
=============================================================================
