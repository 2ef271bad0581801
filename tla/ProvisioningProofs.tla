-------------------------- MODULE ProvisioningProofs --------------------------
(***************************************************************************)
(* Proofs about Provisioning, for any number of runs, machines, volumes    *)
(* and crashes and any choice of operations.                               *)
(***************************************************************************)
EXTENDS Provisioning, TLAPS

USE ProvisioningAssumption DEF NoTarget

-----------------------------------------------------------------------------
(* Type correctness.                                                       *)

\* The SQL statements map rows to rows.
LEMMA RowStatements ==
    /\ \A r \in Row, t \in Target : CreateWorkerRow(r, t) \in Row
    /\ \A r \in Row, s \in Statuses, e \in {"none", "missed", "other"} : UpdateWorkerStatus(r, s, e) \in Row
    /\ \A r \in Row, m \in Nat, t \in Target, s \in Statuses : UpsertReported(r, m, t, s) \in Row
    /\ \A r \in Row, m \in Nat, t \in Target : UpsertFailed(r, m, t) \in Row
    /\ \A r \in Row, h \in BOOLEAN : UpdateVerificationState(r, h) \in Row
    /\ \A r \in Row : MarkWorkerDormant(r) \in Row
    /\ \A r \in Row : MarkWorkerProbing(r) \in Row
    /\ \A r \in Row, m \in Nat, v \in Nat : UpdateWorkerMachine(r, m, v) \in Row
    /\ \A r \in Row, h \in BOOLEAN : SetEvidenceHold(r, h) \in Row
    /\ \A r \in Row : MarkStale(r) \in Row
<1>1. ASSUME NEW r \in Row, NEW t \in Target PROVE CreateWorkerRow(r, t) \in Row
  BY DEF Row, Statuses, CreateWorkerRow
<1>2. ASSUME NEW r \in Row, NEW s \in Statuses, NEW e \in {"none", "missed", "other"} PROVE UpdateWorkerStatus(r, s, e) \in Row
  BY DEF Row, Statuses, UpdateWorkerStatus
<1>3. ASSUME NEW r \in Row, NEW m \in Nat, NEW t \in Target, NEW s \in Statuses PROVE UpsertReported(r, m, t, s) \in Row
  BY DEF Row, Statuses, UpsertReported, Promotable
<1>4. ASSUME NEW r \in Row, NEW m \in Nat, NEW t \in Target PROVE UpsertFailed(r, m, t) \in Row
  BY DEF Row, Statuses, UpsertFailed
<1>5. ASSUME NEW r \in Row, NEW h \in BOOLEAN PROVE UpdateVerificationState(r, h) \in Row
  BY DEF Row, Statuses, UpdateVerificationState
<1>6. ASSUME NEW r \in Row PROVE MarkWorkerDormant(r) \in Row
  BY DEF Row, Statuses, MarkWorkerDormant
<1>7. ASSUME NEW r \in Row PROVE MarkWorkerProbing(r) \in Row
  BY DEF Row, Statuses, MarkWorkerProbing
<1>8. ASSUME NEW r \in Row, NEW m \in Nat, NEW v \in Nat PROVE UpdateWorkerMachine(r, m, v) \in Row
  BY DEF Row, Statuses, UpdateWorkerMachine
<1>9. ASSUME NEW r \in Row, NEW h \in BOOLEAN PROVE SetEvidenceHold(r, h) \in Row
  BY DEF Row, Statuses, SetEvidenceHold
<1>10. ASSUME NEW r \in Row PROVE MarkStale(r) \in Row
  BY DEF Row, Statuses, MarkStale, UpdateWorkerStatus
<1> QED  BY <1>1, <1>2, <1>3, <1>4, <1>5, <1>6, <1>7, <1>8, <1>9, <1>10

\* A function on the indices of a sequence is a sequence.
LEMMA SeqOnIndices ==
    ASSUME NEW S, NEW T, NEW q \in Seq(T), NEW f \in [1..Len(q) -> S]
    PROVE  f \in Seq(S) /\ Len(f) = Len(q)
  OBVIOUS

\* The provider's calls keep the shape of its inventory.
LEMMA ProviderCalls ==
    ASSUME FlyOK, NEW S
    PROVE  /\ StopMachines(S) \in Seq(Machine) /\ Len(StopMachines(S)) = Len(machines)
           /\ DestroyMachines(S) \in Seq(Machine) /\ Len(DestroyMachines(S)) = Len(machines)
           /\ DestroyVolumes(S) \in Seq(Volume) /\ Len(DestroyVolumes(S)) = Len(volumes)
<1>m. \A m \in 1..Len(machines), x \in {"stopped", "destroyed"} :
          machines[m] \in Machine /\ [machines[m] EXCEPT !.state = x] \in Machine
  <2>1. \A m \in 1..Len(machines) : machines[m] \in Machine
    BY DEF FlyOK
  <2> QED  BY <2>1 DEF Machine
<1>v. \A v \in 1..Len(volumes) :
          volumes[v] \in Volume /\ [volumes[v] EXCEPT !.state = "pending_destroy"] \in Volume
  <2>1. \A v \in 1..Len(volumes) : volumes[v] \in Volume
    BY DEF FlyOK
  <2> QED  BY <2>1 DEF Volume
<1>1. StopMachines(S) \in [1..Len(machines) -> Machine]
  BY <1>m DEF StopMachines
<1>2. DestroyMachines(S) \in [1..Len(machines) -> Machine]
  BY <1>m DEF DestroyMachines
<1>3. DestroyVolumes(S) \in [1..Len(volumes) -> Volume]
  BY <1>v DEF DestroyVolumes
<1> QED  BY <1>1, <1>2, <1>3, SeqOnIndices DEF FlyOK

\* The free worker lock is an operation like any other.
LEMMA NoOpType == NoOp \in Operation /\ "none" \in Target
  BY DEF NoOp, NoRow, Operation, Steps, Target, Runs, Statuses

\* A recreation carries the worker it was told to recreate and nothing else.
LEMMA RecreateType ==
    ASSUME op \in Operation
    PROVE  /\ Recreate \in Operation /\ Recreate.pc = "recreateMachine"
           /\ Recreate.m = 0 /\ Recreate.w = op.w
<1>1. /\ op.t \in Target /\ op.probe \in BOOLEAN
      /\ op.w \in [status : Statuses, mach : Nat, vol : Nat] /\ "recreateMachine" \in Steps
  BY DEF Operation, Steps
<1>2. Recreate \in Operation
  BY <1>1, NoOpType, Zenon DEF Recreate, Operation
<1>3. Recreate.pc = "recreateMachine" /\ Recreate.m = NoOp.m /\ Recreate.w = op.w
  BY NoOpType DEF Recreate, Operation
<1> QED  BY <1>2, <1>3 DEF NoOp

\* The ids the operations take are runs.
LEMMA Ids ==
    /\ ActiveProvisioning \in {0} \union Runs /\ (OpenIds # {} => ActiveProvisioning \in OpenIds)
    /\ FreshIds # {} => FreshId \in FreshIds
  BY DEF ActiveProvisioning, OpenIds, FreshId, FreshIds

\* What a resumed attempt does next, and that only claims can follow.
LEMMA ResumeType ==
    ASSUME NEW o \in Operation, NEW i \in Runs, NEW phase
    PROVE  /\ ResumeFrom(o, i, phase) \in Operation
           /\ ResumeFrom(o, i, phase).pc \in {"claimVolume", "claimMachine", "idle"}
           /\ ResumeFrom(o, i, phase).pc # "idle" => ResumeFrom(o, i, phase).a = i
<1>1. CASE phase = "planned"
  BY <1>1 DEF ResumeFrom, Operation, Steps
<1>2. CASE phase = "volume_ready"
  BY <1>2 DEF ResumeFrom, Operation, Steps
<1>3. CASE phase \notin {"planned", "volume_ready"}
  BY <1>3, NoOpType DEF ResumeFrom, NoOp
<1> QED  BY <1>1, <1>2, <1>3

\* After the insert the lock holder claims the volume or the machine, or is done.
LEMMA BeginNext ==
    ASSUME op \in Operation, BeginProvisioning
    PROVE  /\ op'.pc \in {"claimVolume", "claimMachine", "idle"}
           /\ op'.pc # "idle" => op'.a \in Runs
<1>1. FreshId \in Runs /\ (OpenIds # {} => ActiveProvisioning \in Runs)
  BY Ids DEF BeginProvisioning, FreshIds, OpenIds
<1>2. \/ op' = ResumeFrom(op, FreshId, "planned") \/ op' = NoOp
      \/ OpenIds # {} /\ op' = ResumeFrom(op, ActiveProvisioning, att[ActiveProvisioning].phase)
  BY DEF BeginProvisioning
<1>3. CASE op' = ResumeFrom(op, FreshId, "planned")
  BY <1>1, <1>3, ResumeType
<1>4. CASE op' = NoOp
  BY <1>4 DEF NoOp
<1>5. CASE OpenIds # {} /\ op' = ResumeFrom(op, ActiveProvisioning, att[ActiveProvisioning].phase)
  BY <1>1, <1>5, ResumeType
<1> QED  BY <1>2, <1>3, <1>4, <1>5

\* Advancing an attempt keeps its shape.
LEMMA AdvancedType ==
    ASSUME NEW a \in Attempt, NEW to \in Phases, NEW v \in Nat, NEW m \in Nat
    PROVE  Advanced(a, to, v, m) \in Attempt
  BY DEF Advanced, Attempt

\* Machines and volumes the provider lists have the type of its inventory.
LEMMA Inventory ==
    ASSUME FlyOK
    PROVE  /\ Len(machines) \in Nat /\ Len(volumes) \in Nat
           /\ \A m \in 1..Len(machines) : machines[m] \in Machine
           /\ \A v \in 1..Len(volumes) : volumes[v] \in Volume
  BY DEF FlyOK

\* Moving created_at forward only ages the machines.
LEMMA Aged ==
    ASSUME FlyOK
    PROVE  [m \in 1..Len(machines) |-> [machines[m] EXCEPT !.old = TRUE]] \in Seq(Machine)
<1>1. \A m \in 1..Len(machines) : [machines[m] EXCEPT !.old = TRUE] \in Machine
  BY Inventory DEF Machine
<1> QED  BY <1>1, SeqOnIndices DEF FlyOK

\* What a create call adds.
LEMMA Created ==
    /\ \A run \in Runs, t \in Target, v \in Nat, x \in {"created", "started"} :
          /\ NewMachine(run, t, v, x) \in Machine /\ LateMachine(run, t, v) \in LateCreate
    /\ \A name \in {0} \union Runs : NewVolume(name) \in Volume /\ LateVolume(name) \in LateCreate
  BY DEF NewMachine, Machine, LateMachine, LateCreate, NewVolume, Volume, LateVolume

\* Appending keeps a sequence.
LEMMA AppendType == \A S : \A q \in Seq(S), e \in S : Append(q, e) \in Seq(S) /\ Len(q) + 1 \in Nat
  OBVIOUS

\* The outcome of a call on a set of resources concerns that set.
LEMMA OutcomeType == \A S : \A o \in Outcomes(S) : o.err \in BOOLEAN /\ o.done \subseteq S
  BY DEF Outcomes

\* A machine create call, whatever its outcome.
LEMMA PostStep ==
    ASSUME TypeOK, NEW run \in Runs, NEW v \in Nat, NEW next \in Steps, NEW failed \in Operation,
           PostMachine(run, v, next, failed)
    PROVE  /\ machines' \in Seq(Machine) /\ late' \subseteq LateCreate /\ PostsOK'
           /\ op' \in Operation
           /\ \/ op'.pc = next /\ op'.a = op.a
              \/ op'.pc = failed.pc /\ op'.a = failed.a
           /\ UNCHANGED <<row, att, exp, volumes, lists, crashes>>
<1>0. /\ op.t \in Target /\ op \in Operation /\ Len(machines) + 1 \in Nat
      /\ machines \in Seq(Machine) /\ late \subseteq LateCreate
  BY DEF TypeOK, Operation, FlyOK
<1>1. UNCHANGED <<row, att, exp, volumes, volPosts, lists, crashes>>
  BY DEF PostMachine, EnvUnchanged
<1>2. machPosts' \in {machPosts, CountPost(machPosts, run)}
  BY DEF PostMachine
<1>3. PostsOK'
  BY <1>1, <1>2 DEF TypeOK, PostsOK, CountPost
<1>4. machines' = machines \/ \E x \in {"created", "started"} :
                                  machines' = Append(machines, NewMachine(run, op.t, v, x))
  BY DEF PostMachine
<1>5. machines' \in Seq(Machine)
  BY <1>0, <1>4, Created, AppendType
<1>6. late' = late \/ late' = late \union {LateMachine(run, op.t, v)}
  BY DEF PostMachine
<1>7. late' \subseteq LateCreate
  BY <1>0, <1>6, Created
<1>8. \/ \E b \in BOOLEAN : op' = [op EXCEPT !.pc = next, !.m = Len(machines) + 1, !.up = b]
      \/ op' = failed
  BY DEF PostMachine
<1>9. CASE \E b \in BOOLEAN : op' = [op EXCEPT !.pc = next, !.m = Len(machines) + 1, !.up = b]
  <2>0. PICK b \in BOOLEAN : op' = [op EXCEPT !.pc = next, !.m = Len(machines) + 1, !.up = b]
    BY <1>9
  <2>1. op' \in Operation /\ op'.pc = next /\ op'.a = op.a
    BY <1>0, <2>0, Zenon DEF Operation
  <2> QED  BY <1>1, <1>3, <1>5, <1>7, <2>1
<1> QED  BY <1>1, <1>3, <1>5, <1>7, <1>8, <1>9

\* Every step keeps the types.
LEMMA TypeStep == TypeOK /\ [Next]_vars => TypeOK'
<1> SUFFICES ASSUME TypeOK, [Next]_vars PROVE TypeOK'
  OBVIOUS
<1> USE DEF TypeOK
<1>1. ASSUME ListMissing PROVE TypeOK'
  <2>1. EnvOK'
    BY <1>1 DEF ListMissing, EnvOK
  <2>2. UNCHANGED <<row, op, att, exp, volPosts, machPosts, machines, volumes, late>>
    BY <1>1 DEF ListMissing, AttemptUnchanged, FlyUnchanged, EnvUnchanged
  <2> QED  BY <2>1, <2>2 DEF AttOK, PostsOK, FlyOK, EnvOK, OpNames
<1>2. ASSUME NEW t \in Targets, NEW fork \in BOOLEAN, CreateWorker(t, fork) PROVE TypeOK'
  <2>1. row' \in Row
    BY <1>2, RowStatements DEF CreateWorker, CreateRecord, Target
  <2>2. machines' \in Seq(Machine)
    BY <1>2, Aged DEF CreateWorker, CreateRecord
  <2>3. EnvOK'
    BY <1>2 DEF CreateWorker, EnvOK, CreateRecord
  <2>a. op' = [[NoOp EXCEPT !.fork = fork] EXCEPT !.pc = "begin", !.t = t]
    BY <1>2 DEF CreateWorker, CreateRecord
  <2>b. [NoOp EXCEPT !.fork = fork] \in Operation
    BY NoOpType, Zenon DEF Operation
  <2>c. "begin" \in Steps /\ t \in Target
    BY DEF Steps, Target
  <2>4. op' \in Operation
    BY <2>a, <2>b, <2>c, Zenon DEF Operation
  <2>5. OpNames'
    <3>1. op'.pc = "begin"
      BY <2>a, <2>b DEF Operation
    <3> QED  BY <3>1 DEF OpNames, AttemptSteps
  <2>6. UNCHANGED <<att, exp, volPosts, machPosts, volumes, late>>
    BY <1>2 DEF CreateWorker, CreateRecord, AttemptUnchanged, FlyUnchanged, EnvUnchanged
  <2> QED  BY <2>1, <2>2, <2>3, <2>4, <2>5, <2>6 DEF AttOK, PostsOK, FlyOK, EnvOK
<1>3. ASSUME BeginProvisioning PROVE TypeOK'
  <2>1. att' \in [Runs -> Attempt]
    BY <1>3, Ids DEF BeginProvisioning, Planned, AttOK, Attempt, Phases, FreshIds, Operation
  <2>2. op' \in Operation
    BY <1>3, Ids, NoOpType, ResumeType DEF BeginProvisioning, OpenIds, FreshIds
  <2>3. OpNames'
    <3>1. op'.pc \in {"claimVolume", "claimMachine", "idle"} /\ (op'.pc # "idle" => op'.a \in Runs)
      BY <1>3, BeginNext
    <3> QED  BY <3>1 DEF OpNames, AttemptSteps
  <2>4. UNCHANGED <<row, exp, volPosts, machPosts, machines, volumes, late, lists, crashes>>
    BY <1>3 DEF BeginProvisioning, AttemptUnchanged, FlyUnchanged, EnvUnchanged
  <2> QED  BY <2>1, <2>2, <2>3, <2>4 DEF AttOK, PostsOK, FlyOK, EnvOK
<1>4. ASSUME ClaimVolume PROVE TypeOK'
  <2>1. att' \in [Runs -> Attempt]
    BY <1>4, AdvancedType DEF ClaimVolume, AdvanceProvisioning, AttOK, Phases, Closed, Operation, OpNames, AttemptSteps
  <2>2. op' \in Operation
    BY <1>4 DEF ClaimVolume, AdvanceProvisioning, Operation, Steps
  <2>3. OpNames'
    BY <1>4 DEF ClaimVolume, AdvanceProvisioning, OpNames, AttemptSteps, Operation
  <2>4. UNCHANGED <<row, exp, volPosts, machPosts, machines, volumes, late, lists, crashes>>
    BY <1>4 DEF ClaimVolume, AdvanceProvisioning, AttemptUnchanged, FlyUnchanged, EnvUnchanged
  <2> QED  BY <2>1, <2>2, <2>3, <2>4 DEF AttOK, PostsOK, FlyOK, EnvOK
<1>5. ASSUME CreateWorkerVolume PROVE TypeOK'
  <2>a. att[op.a].name \in {0} \union Runs
    BY <1>5 DEF CreateWorkerVolume, AttOK, Attempt, OpNames, AttemptSteps, Operation
  <2>1. PostsOK'
    BY <1>5 DEF CreateWorkerVolume, CountPost, PostsOK
  <2>2. volumes' \in Seq(Volume)
    BY <1>5, Created, AppendType, <2>a DEF CreateWorkerVolume, FlyOK
  <2>3. late' \subseteq LateCreate
    BY <1>5, Created, <2>a DEF CreateWorkerVolume, FlyOK
  <2>4. op' \in Operation
    <3>0. Len(volumes) + 1 \in Nat
      BY Inventory
    <3>1. \/ op' = [op EXCEPT !.fork = FALSE] \/ op' = NoOp
          \/ \E n \in Nat : op' = [op EXCEPT !.pc = "saveVolume", !.v = n, !.fork = FALSE]
      BY <1>5, <3>0 DEF CreateWorkerVolume
    <3>2. [op EXCEPT !.fork = FALSE] \in Operation /\ "saveVolume" \in Steps /\ FALSE \in BOOLEAN
      BY DEF Operation, Steps
    <3>3. ASSUME NEW n \in Nat, op' = [op EXCEPT !.pc = "saveVolume", !.v = n, !.fork = FALSE]
          PROVE  op' \in Operation
      BY <3>3, Zenon DEF Operation, Steps
    <3> QED  BY <3>1, <3>2, <3>3, NoOpType
  <2>5. OpNames'
    <3>1. op'.pc \in {"postVolume", "idle", "saveVolume"} /\ (op'.pc # "idle" => op'.a = op.a)
      <4>1. \/ op' = [op EXCEPT !.fork = FALSE] \/ op' = NoOp
            \/ op' = [op EXCEPT !.pc = "saveVolume", !.v = Len(volumes) + 1, !.fork = FALSE]
        BY <1>5 DEF CreateWorkerVolume
      <4>2. op.pc = "postVolume"
        BY <1>5 DEF CreateWorkerVolume
      <4>3. CASE op' = [op EXCEPT !.pc = "saveVolume", !.v = Len(volumes) + 1, !.fork = FALSE]
        BY <4>3 DEF Operation
      <4> QED  BY <4>1, <4>2, <4>3 DEF NoOp, Operation
    <3>2. op.a \in Runs
      BY <1>5 DEF CreateWorkerVolume, OpNames, AttemptSteps
    <3> QED  BY <3>1, <3>2 DEF OpNames, AttemptSteps
  <2>6. UNCHANGED <<row, att, exp, machines, lists, crashes>>
    BY <1>5 DEF CreateWorkerVolume, AttemptUnchanged, FlyUnchanged, EnvUnchanged
  <2> QED  BY <2>1, <2>2, <2>3, <2>4, <2>5, <2>6 DEF AttOK, PostsOK, FlyOK, EnvOK
<1>6. ASSUME SaveVolume PROVE TypeOK'
  <2>1. att' \in [Runs -> Attempt]
    BY <1>6, AdvancedType DEF SaveVolume, AdvanceProvisioning, AttOK, Phases, Closed, Operation, OpNames, AttemptSteps
  <2>2. op' \in Operation
    BY <1>6 DEF SaveVolume, AdvanceProvisioning, Operation, Steps
  <2>3. OpNames'
    BY <1>6 DEF SaveVolume, AdvanceProvisioning, OpNames, AttemptSteps, Operation
  <2>4. UNCHANGED <<row, exp, volPosts, machPosts, machines, volumes, late, lists, crashes>>
    BY <1>6 DEF SaveVolume, AdvanceProvisioning, AttemptUnchanged, FlyUnchanged, EnvUnchanged
  <2> QED  BY <2>1, <2>2, <2>3, <2>4 DEF AttOK, PostsOK, FlyOK, EnvOK
<1>7. ASSUME ClaimMachine PROVE TypeOK'
  <2>1. att' \in [Runs -> Attempt]
    BY <1>7, AdvancedType DEF ClaimMachine, AdvanceProvisioning, AttOK, Phases, Closed, Operation, OpNames, AttemptSteps
  <2>2. op' \in Operation
    BY <1>7 DEF ClaimMachine, AdvanceProvisioning, Operation, Steps
  <2>3. OpNames'
    BY <1>7 DEF ClaimMachine, AdvanceProvisioning, OpNames, AttemptSteps, Operation
  <2>4. UNCHANGED <<row, exp, volPosts, machPosts, machines, volumes, late, lists, crashes>>
    BY <1>7 DEF ClaimMachine, AdvanceProvisioning, AttemptUnchanged, FlyUnchanged, EnvUnchanged
  <2> QED  BY <2>1, <2>2, <2>3, <2>4 DEF AttOK, PostsOK, FlyOK, EnvOK
<1>8. ASSUME RegisterRun PROVE TypeOK'
  <2>1. exp' \in Identity
    BY <1>8 DEF RegisterRun, ExpectProvisioningRun, AttOK, Attempt, Identity, OpNames, AttemptSteps, Operation
  <2>2. op' \in Operation
    BY <1>8, NoOpType DEF RegisterRun, ExpectProvisioningRun, Operation, Steps
  <2>3. OpNames'
    BY <1>8 DEF RegisterRun, ExpectProvisioningRun, NoOp, OpNames, AttemptSteps, Operation
  <2>4. UNCHANGED <<row, att, volPosts, machPosts, machines, volumes, late, lists, crashes>>
    BY <1>8 DEF RegisterRun, ExpectProvisioningRun, AttemptUnchanged, FlyUnchanged, EnvUnchanged
  <2> QED  BY <2>1, <2>2, <2>3, <2>4 DEF AttOK, PostsOK, FlyOK, EnvOK
<1>9. ASSUME CreateWorkerMachine PROVE TypeOK'
  <2>1. op.a \in Runs /\ att[op.a].vol \in Nat /\ op.pc = "postMachine"
    BY <1>9 DEF CreateWorkerMachine, AttOK, Attempt, OpNames, AttemptSteps
  <2>2. PostMachine(op.a, att[op.a].vol, "bind", NoOp) /\ "bind" \in Steps
    BY <1>9 DEF CreateWorkerMachine, Steps
  <2>3. /\ machines' \in Seq(Machine) /\ late' \subseteq LateCreate /\ PostsOK' /\ op' \in Operation
        /\ (op'.pc = "bind" /\ op'.a = op.a) \/ op'.pc = "idle"
        /\ UNCHANGED <<row, att, exp, volumes, lists, crashes>>
    BY <2>1, <2>2, NoOpType, PostStep DEF NoOp
  <2>4. OpNames'
    BY <2>1, <2>3 DEF OpNames, AttemptSteps
  <2> QED  BY <2>3, <2>4 DEF AttOK, FlyOK, EnvOK
<1>10. ASSUME BindRun PROVE TypeOK'
  <2>1. exp' \in Identity
    BY <1>10 DEF BindRun, ExpectProvisioningRun, AttOK, Attempt, Identity, OpNames, AttemptSteps, Operation
  <2>2. op' \in Operation
    BY <1>10, NoOpType DEF BindRun, ExpectProvisioningRun, Operation, Steps
  <2>3. OpNames'
    BY <1>10 DEF BindRun, ExpectProvisioningRun, NoOp, OpNames, AttemptSteps, Operation
  <2>4. UNCHANGED <<row, att, volPosts, machPosts, machines, volumes, late, lists, crashes>>
    BY <1>10 DEF BindRun, ExpectProvisioningRun, AttemptUnchanged, FlyUnchanged, EnvUnchanged
  <2> QED  BY <2>1, <2>2, <2>3, <2>4 DEF AttOK, PostsOK, FlyOK, EnvOK
<1>11. ASSUME SaveMachine PROVE TypeOK'
  <2>1. att' \in [Runs -> Attempt]
    BY <1>11, AdvancedType DEF SaveMachine, AdvanceProvisioning, AttOK, Phases, Closed, Operation, OpNames, AttemptSteps
  <2>2. op' \in Operation
    BY <1>11 DEF SaveMachine, AdvanceProvisioning, Operation, Steps
  <2>3. OpNames'
    BY <1>11 DEF SaveMachine, AdvanceProvisioning, OpNames, AttemptSteps, Operation
  <2>4. UNCHANGED <<row, exp, volPosts, machPosts, machines, volumes, late, lists, crashes>>
    BY <1>11 DEF SaveMachine, AdvanceProvisioning, AttemptUnchanged, FlyUnchanged, EnvUnchanged
  <2> QED  BY <2>1, <2>2, <2>3, <2>4 DEF AttOK, PostsOK, FlyOK, EnvOK
<1>12. ASSUME FinishProvisioning PROVE TypeOK'
  <2>1. att' \in [Runs -> Attempt]
    BY <1>12 DEF FinishProvisioning, AttOK, Attempt, Phases, OpNames, AttemptSteps, Operation
  <2>2. row' \in Row
    BY <1>12, RowStatements DEF FinishProvisioning, AttOK, Attempt, Statuses, OpNames, AttemptSteps, Operation
  <2>3. op' \in Operation
    BY <1>12, NoOpType DEF FinishProvisioning, Operation, Steps
  <2>4. OpNames'
    BY <1>12, NoOpType DEF FinishProvisioning, NoOp, OpNames, AttemptSteps, Operation
  <2>5. UNCHANGED <<exp, volPosts, machPosts, machines, volumes, late, lists, crashes>>
    BY <1>12 DEF FinishProvisioning, AttemptUnchanged, FlyUnchanged, EnvUnchanged
  <2> QED  BY <2>1, <2>2, <2>3, <2>4, <2>5 DEF AttOK, PostsOK, FlyOK, EnvOK
<1>13. ASSUME RecoverPendingWorker PROVE TypeOK'
  <2>1. op' \in Operation /\ OpNames'
    <3>1. UNCHANGED <<volumes, exp>> /\ row.target \in Target
      BY <1>13 DEF RecoverPendingWorker, FlyUnchanged, AttemptUnchanged, Row
    <3>2. CASE RecoverLegacy
      <4>1. ASSUME NEW m \in LiveMachines, Confirmed(m), Usable(machines[m].vol),
                   op' = [NoOp EXCEPT !.pc = "adopt", !.t = row.target, !.a = exp.run, !.m = m,
                                      !.v = machines[m].vol, !.up = (machines[m].state = "started")]
            PROVE  op' \in Operation /\ OpNames'
        <5>1. m \in Nat /\ machines[m].vol \in 1..Len(volumes) /\ exp.run \in Runs /\ Len(volumes) \in Nat
          BY <4>1, Inventory DEF LiveMachines, Usable, Listed, Confirmed, AttOK, Identity
        <5>2. op' \in Operation
          <6>1. PICK a \in Runs, n \in Nat, v \in Nat, b \in BOOLEAN :
                   op' = [NoOp EXCEPT !.pc = "adopt", !.t = row.target, !.a = a, !.m = n, !.v = v, !.up = b]
            <7>1. (machines[m].state = "started") \in BOOLEAN
              OBVIOUS
            <7>2. machines[m].vol \in Nat
              BY <5>1
            <7> QED  BY <4>1, <5>1, <7>1, <7>2
          <6> QED  BY <3>1, <6>1, NoOpType, Zenon DEF Operation, Steps
        <5>3. op'.pc = "adopt" /\ op'.a \in Runs /\ op'.v \in 1..Len(volumes)
          BY <4>1, <5>1, NoOpType DEF Operation
        <5> QED  BY <3>1, <5>2, <5>3 DEF OpNames
      <4>2. ASSUME op' = [NoOp EXCEPT !.pc = "begin", !.t = row.target]
            PROVE  op' \in Operation /\ OpNames'
        BY <3>1, <4>2, NoOpType DEF Operation, Steps, OpNames, AttemptSteps
      <4> QED  BY <3>2, <4>1, <4>2 DEF RecoverLegacy
    <3>3. CASE RecoverAttempt
      <4> DEFINE i == ActiveProvisioning
                 o == [NoOp EXCEPT !.a = i, !.t = row.target]
      <4>1. i \in Runs /\ o \in Operation /\ o.a = i
        BY <3>1, <3>3, Ids, NoOpType DEF RecoverAttempt, OpenIds, Operation
      <4>2. ASSUME NEW m \in OwnedMachines(i), NEW pc \in {"saveVolume", "expect"}, MachineConsistent(i, m),
                   op' = [o EXCEPT !.pc = pc, !.m = m, !.v = machines[m].vol,
                                   !.up = (machines[m].state = "started")]
            PROVE  op' \in Operation /\ OpNames'
        <5>1. m \in Nat /\ machines[m].vol \in Nat
          BY Inventory DEF OwnedMachines, LiveMachines, Machine
        <5>s. pc \in Steps /\ (machines[m].state = "started") \in BOOLEAN
          BY DEF Steps
        <5>2. op' \in Operation /\ op'.pc = pc /\ op'.a \in Runs
          <6> HIDE DEF o
          <6>1. op' \in Operation
            BY <4>1, <4>2, <5>1, <5>s, Zenon DEF Operation
          <6>2. op'.pc = pc /\ op'.a = o.a
            BY <4>1, <4>2 DEF Operation
          <6> QED  BY <4>1, <6>1, <6>2
        <5> QED  BY <5>2 DEF OpNames
      <4>3. ASSUME OwnedVolumes(i) # {},
                   op' = [o EXCEPT !.pc = "saveVolume", !.v = CHOOSE v \in OwnedVolumes(i) : TRUE]
            PROVE  op' \in Operation /\ OpNames'
        <5>1. (CHOOSE v \in OwnedVolumes(i) : TRUE) \in Nat
          BY <4>3, Inventory DEF OwnedVolumes, Listed
        <5>2. op' \in Operation /\ op'.pc = "saveVolume" /\ op'.a \in Runs
          BY <4>1, <4>3, <5>1 DEF Operation, Steps
        <5> QED  BY <5>2 DEF OpNames
      <4>4. ASSUME NEW phase, op' = ResumeFrom(o, i, phase)
            PROVE  op' \in Operation /\ OpNames'
        BY <4>1, <4>4, ResumeType DEF OpNames, AttemptSteps
      <4> HIDE DEF i, o
      <4> QED  BY <3>3, <4>2, <4>3, <4>4 DEF RecoverAttempt, i, o
    <3> QED  BY <1>13, <3>2, <3>3 DEF RecoverPendingWorker
  <2>2. UNCHANGED <<row, att, exp, volPosts, machPosts, machines, volumes, late, lists, crashes>>
    BY <1>13 DEF RecoverPendingWorker, AttemptUnchanged, FlyUnchanged, EnvUnchanged
  <2> QED  BY <2>1, <2>2 DEF AttOK, PostsOK, FlyOK, EnvOK
<1>14. ASSUME AdoptBegin PROVE TypeOK'
  <2>1. att' \in [Runs -> Attempt]
    BY <1>14, Inventory DEF AdoptBegin, Planned, AttOK, Attempt, Phases, Volume, OpNames, AttemptSteps, Operation
  <2>2. op' \in Operation
    BY <1>14, NoOpType DEF AdoptBegin, Operation, Steps
  <2>3. OpNames'
    BY <1>14 DEF AdoptBegin, NoOp, OpNames, AttemptSteps, Operation
  <2>4. UNCHANGED <<row, exp, volPosts, machPosts, machines, volumes, late, lists, crashes>>
    BY <1>14 DEF AdoptBegin, AttemptUnchanged, FlyUnchanged, EnvUnchanged
  <2> QED  BY <2>1, <2>2, <2>3, <2>4 DEF AttOK, PostsOK, FlyOK, EnvOK
<1>15. ASSUME AdoptSave PROVE TypeOK'
  <2>1. att' \in [Runs -> Attempt]
    BY <1>15, AdvancedType DEF AdoptSave, AdvanceProvisioning, AttOK, Phases, Closed, Operation, OpNames, AttemptSteps
  <2>2. op' \in Operation
    BY <1>15 DEF AdoptSave, AdvanceProvisioning, Operation, Steps
  <2>3. OpNames'
    BY <1>15 DEF AdoptSave, AdvanceProvisioning, OpNames, AttemptSteps, Operation
  <2>4. UNCHANGED <<row, exp, volPosts, machPosts, machines, volumes, late, lists, crashes>>
    BY <1>15 DEF AdoptSave, AdvanceProvisioning, AttemptUnchanged, FlyUnchanged, EnvUnchanged
  <2> QED  BY <2>1, <2>2, <2>3, <2>4 DEF AttOK, PostsOK, FlyOK, EnvOK
<1>16. ASSUME AdoptExpect PROVE TypeOK'
  <2>1. exp' \in Identity
    BY <1>16 DEF AdoptExpect, ExpectProvisioningRun, AttOK, Attempt, Identity, OpNames, AttemptSteps, Operation
  <2>2. op' \in Operation
    BY <1>16, NoOpType DEF AdoptExpect, ExpectProvisioningRun, Operation, Steps
  <2>3. OpNames'
    BY <1>16 DEF AdoptExpect, ExpectProvisioningRun, NoOp, OpNames, AttemptSteps, Operation
  <2>4. UNCHANGED <<row, att, volPosts, machPosts, machines, volumes, late, lists, crashes>>
    BY <1>16 DEF AdoptExpect, ExpectProvisioningRun, AttemptUnchanged, FlyUnchanged, EnvUnchanged
  <2> QED  BY <2>1, <2>2, <2>3, <2>4 DEF AttOK, PostsOK, FlyOK, EnvOK
<1>17. ASSUME RecoverExpect PROVE TypeOK'
  <2>1. exp' \in Identity
    BY <1>17 DEF RecoverExpect, ExpectProvisioningRun, AttOK, Attempt, Identity, OpNames, AttemptSteps, Operation
  <2>2. op' \in Operation
    BY <1>17, NoOpType DEF RecoverExpect, ExpectProvisioningRun, Operation, Steps
  <2>3. OpNames'
    BY <1>17 DEF RecoverExpect, ExpectProvisioningRun, NoOp, OpNames, AttemptSteps, Operation
  <2>4. UNCHANGED <<row, att, volPosts, machPosts, machines, volumes, late, lists, crashes>>
    BY <1>17 DEF RecoverExpect, ExpectProvisioningRun, AttemptUnchanged, FlyUnchanged, EnvUnchanged
  <2> QED  BY <2>1, <2>2, <2>3, <2>4 DEF AttOK, PostsOK, FlyOK, EnvOK
<1>18. ASSUME StopWorker PROVE TypeOK'
  <2>1. machines' \in Seq(Machine)
    BY <1>18, ProviderCalls DEF StopWorker, StopCall
  <2>2. op' \in Operation
    BY <1>18, NoOpType DEF StopWorker, StopCall, Operation, Steps
  <2>3. OpNames'
    BY <1>18, NoOpType DEF StopWorker, StopCall, NoOp, OpNames, AttemptSteps, Operation
  <2>4. UNCHANGED <<row, att, exp, volPosts, machPosts, volumes, late, lists, crashes>>
    BY <1>18 DEF StopWorker, StopCall, AttemptUnchanged, FlyUnchanged, EnvUnchanged
  <2> QED  BY <2>1, <2>2, <2>3, <2>4 DEF AttOK, PostsOK, FlyOK, EnvOK
<1>19. ASSUME DormantWorker PROVE TypeOK'
  <2>1. machines' \in Seq(Machine)
    BY <1>19, ProviderCalls DEF DormantWorker, StopCall
  <2>2. op' \in Operation
    BY <1>19, NoOpType DEF DormantWorker, StopCall, Operation, Steps
  <2>3. OpNames'
    BY <1>19, NoOpType DEF DormantWorker, StopCall, NoOp, OpNames, AttemptSteps, Operation
  <2>4. UNCHANGED <<row, att, exp, volPosts, machPosts, volumes, late, lists, crashes>>
    BY <1>19 DEF DormantWorker, StopCall, AttemptUnchanged, FlyUnchanged, EnvUnchanged
  <2> QED  BY <2>1, <2>2, <2>3, <2>4 DEF AttOK, PostsOK, FlyOK, EnvOK
<1>20. ASSUME RetainHeldWorker PROVE TypeOK'
  <2>1. machines' \in Seq(Machine)
    BY <1>20, ProviderCalls DEF RetainHeldWorker, StopCall
  <2>2. op' \in Operation
    BY <1>20, NoOpType DEF RetainHeldWorker, StopCall, Operation, Steps
  <2>3. OpNames'
    BY <1>20, NoOpType DEF RetainHeldWorker, StopCall, NoOp, OpNames, AttemptSteps, Operation
  <2>4. UNCHANGED <<row, att, exp, volPosts, machPosts, volumes, late, lists, crashes>>
    BY <1>20 DEF RetainHeldWorker, StopCall, AttemptUnchanged, FlyUnchanged, EnvUnchanged
  <2> QED  BY <2>1, <2>2, <2>3, <2>4 DEF AttOK, PostsOK, FlyOK, EnvOK
<1>21. ASSUME MarkStopped PROVE TypeOK'
  <2>1. row' \in Row
    BY <1>21, RowStatements DEF MarkStopped, Mark, Statuses
  <2>2. op' \in Operation
    BY <1>21, NoOpType DEF MarkStopped, Mark
  <2>3. OpNames'
    BY <1>21 DEF MarkStopped, Mark, NoOp, OpNames, AttemptSteps, Operation
  <2>4. UNCHANGED <<att, exp, volPosts, machPosts, machines, volumes, late, lists, crashes>>
    BY <1>21 DEF MarkStopped, Mark, AttemptUnchanged, FlyUnchanged, EnvUnchanged
  <2> QED  BY <2>1, <2>2, <2>3, <2>4 DEF AttOK, PostsOK, FlyOK, EnvOK
<1>22. ASSUME MarkDormant PROVE TypeOK'
  <2>1. row' \in Row
    BY <1>22, RowStatements DEF MarkDormant, Mark
  <2>2. op' \in Operation
    BY <1>22, NoOpType DEF MarkDormant, Mark
  <2>3. OpNames'
    BY <1>22 DEF MarkDormant, Mark, NoOp, OpNames, AttemptSteps, Operation
  <2>4. UNCHANGED <<att, exp, volPosts, machPosts, machines, volumes, late, lists, crashes>>
    BY <1>22 DEF MarkDormant, Mark, AttemptUnchanged, FlyUnchanged, EnvUnchanged
  <2> QED  BY <2>1, <2>2, <2>3, <2>4 DEF AttOK, PostsOK, FlyOK, EnvOK
<1>23. ASSUME MarkProbing PROVE TypeOK'
  <2>1. row' \in Row
    BY <1>23, RowStatements DEF MarkProbing, Mark
  <2>2. op' \in Operation
    BY <1>23, NoOpType DEF MarkProbing, Mark
  <2>3. OpNames'
    BY <1>23 DEF MarkProbing, Mark, NoOp, OpNames, AttemptSteps, Operation
  <2>4. UNCHANGED <<att, exp, volPosts, machPosts, machines, volumes, late, lists, crashes>>
    BY <1>23 DEF MarkProbing, Mark, AttemptUnchanged, FlyUnchanged, EnvUnchanged
  <2> QED  BY <2>1, <2>2, <2>3, <2>4 DEF AttOK, PostsOK, FlyOK, EnvOK
<1>24. ASSUME DestroyWorker PROVE TypeOK'
  <2>1. machines' \in Seq(Machine)
    BY <1>24, ProviderCalls DEF DestroyWorker
  <2>2. op' \in Operation
    <3>1. PICK b \in BOOLEAN : op' = [NoOp EXCEPT !.pc = "destroyVolume", !.w = Seen, !.errs = b]
      BY <1>24, OutcomeType DEF DestroyWorker
    <3>2. Seen \in [status : Statuses, mach : Nat, vol : Nat]
      BY DEF Seen, Row
    <3> QED  BY <3>1, <3>2, NoOpType, Zenon DEF Operation, Steps
  <2>3. OpNames'
    BY <1>24, NoOpType DEF DestroyWorker, OpNames, AttemptSteps, Operation
  <2>4. UNCHANGED <<row, att, exp, volPosts, machPosts, volumes, late, lists, crashes>>
    BY <1>24 DEF DestroyWorker, AttemptUnchanged, FlyUnchanged, EnvUnchanged
  <2> QED  BY <2>1, <2>2, <2>3, <2>4 DEF AttOK, PostsOK, FlyOK, EnvOK
<1>25. ASSUME DestroyVolume PROVE TypeOK'
  <2>1. volumes' \in Seq(Volume)
    BY <1>25, ProviderCalls DEF DestroyVolume
  <2>2. op' \in Operation
    <3>1. PICK b \in BOOLEAN : op' = [op EXCEPT !.pc = "destroyAttempt", !.errs = b]
      BY <1>25, OutcomeType DEF DestroyVolume, Operation
    <3> QED  BY <3>1, Zenon DEF Operation, Steps
  <2>3. OpNames'
    BY <1>25 DEF DestroyVolume, OpNames, AttemptSteps, Operation
  <2>4. UNCHANGED <<row, att, exp, volPosts, machPosts, machines, late, lists, crashes>>
    BY <1>25 DEF DestroyVolume, AttemptUnchanged, FlyUnchanged, EnvUnchanged
  <2> QED  BY <2>1, <2>2, <2>3, <2>4 DEF AttOK, PostsOK, FlyOK, EnvOK
<1>26. ASSUME DestroyProvisioningResources PROVE TypeOK'
  <2>1. machines' \in Seq(Machine)
    BY <1>26, ProviderCalls DEF DestroyProvisioningResources
  <2>2. volumes' \in Seq(Volume)
    BY <1>26, ProviderCalls DEF DestroyProvisioningResources
  <2>3. op' \in Operation
    <3>1. PICK b \in BOOLEAN, pc \in {"destroyFailed", "markStopped", "abandon"} :
             op' = [op EXCEPT !.a = ActiveProvisioning, !.errs = b, !.pc = pc]
      BY <1>26, OutcomeType DEF DestroyProvisioningResources, Operation
    <3>2. pc \in Steps /\ ActiveProvisioning \in {0} \union Runs
      BY Ids DEF Steps
    <3> QED  BY <3>1, <3>2, Zenon DEF Operation
  <2>4. OpNames'
    BY <1>26, Ids DEF DestroyProvisioningResources, OpenIds, OpNames, AttemptSteps, Operation
  <2>5. UNCHANGED <<row, att, exp, volPosts, machPosts, late, lists, crashes>>
    BY <1>26 DEF DestroyProvisioningResources, AttemptUnchanged, FlyUnchanged, EnvUnchanged
  <2> QED  BY <2>1, <2>2, <2>3, <2>4, <2>5 DEF AttOK, PostsOK, FlyOK, EnvOK
<1>27. ASSUME AbandonProvisioning PROVE TypeOK'
  <2>1. att' \in [Runs -> Attempt]
    BY <1>27, AdvancedType DEF AbandonProvisioning, AdvanceProvisioning, AttOK, Phases, Closed, Operation, OpNames, AttemptSteps
  <2>2. op' \in Operation
    BY <1>27 DEF AbandonProvisioning, AdvanceProvisioning, Operation, Steps
  <2>3. OpNames'
    BY <1>27 DEF AbandonProvisioning, AdvanceProvisioning, OpNames, AttemptSteps, Operation
  <2>4. UNCHANGED <<row, exp, volPosts, machPosts, machines, volumes, late, lists, crashes>>
    BY <1>27 DEF AbandonProvisioning, AdvanceProvisioning, AttemptUnchanged, FlyUnchanged, EnvUnchanged
  <2> QED  BY <2>1, <2>2, <2>3, <2>4 DEF AttOK, PostsOK, FlyOK, EnvOK
<1>28. ASSUME DestroyFailed PROVE TypeOK'
  <2>1. row' \in Row
    BY <1>28, RowStatements DEF DestroyFailed, Mark, Operation
  <2>2. op' \in Operation
    BY <1>28, NoOpType DEF DestroyFailed, Mark
  <2>3. OpNames'
    BY <1>28 DEF DestroyFailed, Mark, NoOp, OpNames, AttemptSteps, Operation
  <2>4. UNCHANGED <<att, exp, volPosts, machPosts, machines, volumes, late, lists, crashes>>
    BY <1>28 DEF DestroyFailed, Mark, AttemptUnchanged, FlyUnchanged, EnvUnchanged
  <2> QED  BY <2>1, <2>2, <2>3, <2>4 DEF AttOK, PostsOK, FlyOK, EnvOK
<1>29. ASSUME NEW t \in Targets, ReplaceWorker(t) PROVE TypeOK'
  <2>1. att' \in [Runs -> Attempt]
    BY <1>29 DEF ReplaceWorker, AttOK, Attempt, Phases
  <2>2. op' \in Operation
    BY <1>29, NoOpType DEF ReplaceWorker, Seen, Row, Target, Operation, Steps
  <2>3. OpNames'
    BY <1>29, NoOpType DEF ReplaceWorker, OpNames, AttemptSteps, Operation
  <2>4. UNCHANGED <<row, exp, volPosts, machPosts, machines, volumes, late, lists, crashes>>
    BY <1>29 DEF ReplaceWorker, AttemptUnchanged, FlyUnchanged, EnvUnchanged
  <2> QED  BY <2>1, <2>2, <2>3, <2>4 DEF AttOK, PostsOK, FlyOK, EnvOK
<1>30. ASSUME ReplaceMachine PROVE TypeOK'
  <2>1. machines' \in Seq(Machine)
    BY <1>30, ProviderCalls DEF ReplaceMachine
  <2>2. op' \in Operation
    BY <1>30, NoOpType DEF ReplaceMachine, Operation, Steps
  <2>3. OpNames'
    BY <1>30 DEF ReplaceMachine, NoOp, OpNames, AttemptSteps, Operation
  <2>4. UNCHANGED <<row, att, exp, volPosts, machPosts, volumes, late, lists, crashes>>
    BY <1>30 DEF ReplaceMachine, AttemptUnchanged, FlyUnchanged, EnvUnchanged
  <2> QED  BY <2>1, <2>2, <2>3, <2>4 DEF AttOK, PostsOK, FlyOK, EnvOK
<1>31. ASSUME ReplaceVolume PROVE TypeOK'
  <2>1. volumes' \in Seq(Volume)
    BY <1>31, ProviderCalls DEF ReplaceVolume, VolumeThenCreate
  <2>2. op' \in Operation
    BY <1>31, NoOpType DEF ReplaceVolume, VolumeThenCreate, Operation, Steps
  <2>3. OpNames'
    BY <1>31 DEF ReplaceVolume, VolumeThenCreate, NoOp, OpNames, AttemptSteps, Operation
  <2>4. UNCHANGED <<row, att, exp, volPosts, machPosts, machines, late, lists, crashes>>
    BY <1>31 DEF ReplaceVolume, VolumeThenCreate, AttemptUnchanged, FlyUnchanged, EnvUnchanged
  <2> QED  BY <2>1, <2>2, <2>3, <2>4 DEF AttOK, PostsOK, FlyOK, EnvOK
<1>32. ASSUME CreateReplacement PROVE TypeOK'
  <2>1. row' \in Row
    BY <1>32, RowStatements DEF CreateReplacement, CreateRecord, Operation
  <2>2. machines' \in Seq(Machine)
    BY <1>32, Aged DEF CreateReplacement, CreateRecord
  <2>3. op' \in Operation
    BY <1>32 DEF CreateReplacement, CreateRecord, Operation, Steps
  <2>4. OpNames'
    BY <1>32 DEF CreateReplacement, CreateRecord, OpNames, AttemptSteps, Operation
  <2>5. UNCHANGED <<att, exp, volPosts, machPosts, volumes, late, lists, crashes>>
    BY <1>32 DEF CreateReplacement, CreateRecord, AttemptUnchanged, FlyUnchanged, EnvUnchanged
  <2> QED  BY <2>1, <2>2, <2>3, <2>4, <2>5 DEF AttOK, PostsOK, FlyOK, EnvOK
<1>33. ASSUME NEW t \in Targets, NEW drift \in BOOLEAN, ResumeDormantWorker(t, drift) PROVE TypeOK'
  <2>1. row' \in Row
    BY <1>33, RowStatements, Inventory DEF ResumeDormantWorker, Machine, LiveMachines, Row
  <2>2. Seen \in [status : Statuses, mach : Nat, vol : Nat] /\ t \in Target
    BY DEF Seen, Row, Target
  <2> DEFINE o == [NoOp EXCEPT !.t = t, !.probe = TRUE, !.w = Seen]
  <2>3. o \in Operation /\ {"recreateMachine", "probeDestroy"} \subseteq Steps
    <3>1. o \in Operation
      BY <2>2, NoOpType, Zenon DEF Operation
    <3>2. {"recreateMachine", "probeDestroy"} \subseteq Steps
      BY DEF Steps
    <3> QED  BY <3>1, <3>2
  <2>4. op' \in Operation /\ op'.pc \in {"recreateMachine", "probeDestroy"}
    <3>1. row.vol \in Nat
      BY DEF Row
    <3>2. row.mach \in LiveMachines => machines[row.mach].vol \in Nat
      BY Inventory DEF LiveMachines, Machine
    <3>3. \/ op' = [o EXCEPT !.pc = "recreateMachine"]
          \/ \E v \in Nat : op' = [o EXCEPT !.pc = "probeDestroy", !.v = v]
      BY <1>33, <3>1, <3>2 DEF ResumeDormantWorker
    <3> HIDE DEF o
    <3>4. op' \in Operation
      <4>1. CASE op' = [o EXCEPT !.pc = "recreateMachine"]
        BY <2>3, <4>1, Zenon DEF Operation, Steps
      <4>2. ASSUME NEW v \in Nat, op' = [o EXCEPT !.pc = "probeDestroy", !.v = v] PROVE op' \in Operation
        BY <2>3, <4>2, Zenon DEF Operation, Steps
      <4> QED  BY <3>3, <4>1, <4>2
    <3>5. op'.pc \in {"recreateMachine", "probeDestroy"}
      BY <2>3, <3>3 DEF Operation
    <3> QED  BY <3>4, <3>5
  <2>5. OpNames'
    BY <2>4 DEF OpNames, AttemptSteps
  <2>6. UNCHANGED <<att, exp, volPosts, machPosts, machines, volumes, late, lists, crashes>>
    BY <1>33 DEF ResumeDormantWorker, AttemptUnchanged, FlyUnchanged, EnvUnchanged
  <2> QED  BY <2>1, <2>4, <2>5, <2>6 DEF AttOK, PostsOK, FlyOK, EnvOK
<1>34. ASSUME ProbeDestroy PROVE TypeOK'
  <2>1. machines' \in Seq(Machine)
    BY <1>34, ProviderCalls DEF ProbeDestroy
  <2>2. op' \in Operation
    BY <1>34, Ids DEF ProbeDestroy, Operation, Steps
  <2>3. OpNames'
    BY <1>34 DEF ProbeDestroy, OpNames, AttemptSteps, Operation
  <2>4. UNCHANGED <<row, att, exp, volPosts, machPosts, volumes, late, lists, crashes>>
    BY <1>34 DEF ProbeDestroy, AttemptUnchanged, FlyUnchanged, EnvUnchanged
  <2> QED  BY <2>1, <2>2, <2>3, <2>4 DEF AttOK, PostsOK, FlyOK, EnvOK
<1>35. ASSUME ProbeRegister PROVE TypeOK'
  <2>1. exp' \in Identity
    BY <1>35, Ids DEF ProbeRegister, AttOK, Identity, FreshIds, Operation
  <2>2. op' \in Operation
    BY <1>35, RecreateType DEF ProbeRegister, Operation, Steps
  <2>3. OpNames'
    BY <1>35, Ids, RecreateType DEF ProbeRegister, FreshIds, AttOK, Identity, OpNames, AttemptSteps, Operation
  <2>4. UNCHANGED <<row, att, volPosts, machPosts, machines, volumes, late, lists, crashes>>
    BY <1>35 DEF ProbeRegister, AttemptUnchanged, FlyUnchanged, EnvUnchanged
  <2> QED  BY <2>1, <2>2, <2>3, <2>4 DEF AttOK, PostsOK, FlyOK, EnvOK
<1>36. ASSUME ProbePost PROVE TypeOK'
  <2>1. exp.run \in Runs /\ op.v \in Nat /\ op.pc = "probePost"
    BY <1>36 DEF ProbePost, Operation, OpNames, AttemptSteps
  <2>2. PostMachine(exp.run, op.v, "probeBind", Recreate) /\ "probeBind" \in Steps
    BY <1>36 DEF ProbePost, Steps
  <2>3. Recreate \in Operation /\ Recreate.pc = "recreateMachine"
    BY RecreateType
  <2>4. /\ machines' \in Seq(Machine) /\ late' \subseteq LateCreate /\ PostsOK' /\ op' \in Operation
        /\ op'.pc \in {"probeBind", "recreateMachine"}
        /\ UNCHANGED <<row, att, exp, volumes, lists, crashes>>
    BY <2>1, <2>2, <2>3, PostStep
  <2>5. OpNames'
    BY <2>4 DEF OpNames, AttemptSteps
  <2> QED  BY <2>4, <2>5 DEF AttOK, FlyOK, EnvOK
<1>37. ASSUME ProbeBind PROVE TypeOK'
  <2>1. exp' \in Identity
    BY <1>37 DEF ProbeBind, AttOK, Identity, Operation
  <2>2. op' \in Operation
    BY <1>37, RecreateType DEF ProbeBind, Operation, Steps
  <2>3. OpNames'
    BY <1>37, RecreateType DEF ProbeBind, OpNames, AttemptSteps, Operation
  <2>4. UNCHANGED <<row, att, volPosts, machPosts, machines, volumes, late, lists, crashes>>
    BY <1>37 DEF ProbeBind, AttemptUnchanged, FlyUnchanged, EnvUnchanged
  <2> QED  BY <2>1, <2>2, <2>3, <2>4 DEF AttOK, PostsOK, FlyOK, EnvOK
<1>38. ASSUME ProbeSave PROVE TypeOK'
  <2>1. row' \in Row
    BY <1>38 DEF ProbeSave, Row, Operation, UpdateWorkerMachine
  <2>2. op' \in Operation
    BY <1>38, NoOpType DEF ProbeSave, Operation, Steps
  <2>3. OpNames'
    BY <1>38, NoOpType DEF ProbeSave, OpNames, AttemptSteps, Operation
  <2>4. UNCHANGED <<att, exp, volPosts, machPosts, machines, volumes, late, lists, crashes>>
    BY <1>38 DEF ProbeSave, AttemptUnchanged, FlyUnchanged, EnvUnchanged
  <2> QED  BY <2>1, <2>2, <2>3, <2>4 DEF AttOK, PostsOK, FlyOK, EnvOK
<1>39. ASSUME RecreateMachine PROVE TypeOK'
  <2>1. machines' \in Seq(Machine)
    BY <1>39, ProviderCalls DEF RecreateMachine
  <2>2. op' \in Operation
    BY <1>39, NoOpType DEF RecreateMachine, Operation, Steps
  <2>3. OpNames'
    BY <1>39 DEF RecreateMachine, NoOp, OpNames, AttemptSteps, Operation
  <2>4. UNCHANGED <<row, att, exp, volPosts, machPosts, volumes, late, lists, crashes>>
    BY <1>39 DEF RecreateMachine, AttemptUnchanged, FlyUnchanged, EnvUnchanged
  <2> QED  BY <2>1, <2>2, <2>3, <2>4 DEF AttOK, PostsOK, FlyOK, EnvOK
<1>40. ASSUME RecreateVolume PROVE TypeOK'
  <2>1. volumes' \in Seq(Volume)
    BY <1>40, ProviderCalls DEF RecreateVolume, VolumeThenCreate
  <2>2. op' \in Operation
    BY <1>40, NoOpType DEF RecreateVolume, VolumeThenCreate, Operation, Steps
  <2>3. OpNames'
    BY <1>40 DEF RecreateVolume, VolumeThenCreate, NoOp, OpNames, AttemptSteps, Operation
  <2>4. UNCHANGED <<row, att, exp, volPosts, machPosts, machines, late, lists, crashes>>
    BY <1>40 DEF RecreateVolume, VolumeThenCreate, AttemptUnchanged, FlyUnchanged, EnvUnchanged
  <2> QED  BY <2>1, <2>2, <2>3, <2>4 DEF AttOK, PostsOK, FlyOK, EnvOK
<1>41. ASSUME NEW m \in 1..Len(machines), NEW s \in {"running", "starting"}, Heartbeat(m, s) PROVE TypeOK'
  <2>1. row' \in Row
    <3>1. m \in Nat /\ machines[m].target \in Target /\ s \in Statuses
      BY Inventory DEF Machine, Statuses
    <3> QED  BY <1>41, <3>1, RowStatements DEF Heartbeat, ReportStep
  <2>2. UNCHANGED <<op, att, exp, volPosts, machPosts, machines, volumes, late, lists, crashes>>
    BY <1>41 DEF Heartbeat, ReportStep, AttemptUnchanged, FlyUnchanged, EnvUnchanged
  <2> QED  BY <2>1, <2>2 DEF AttOK, PostsOK, FlyOK, EnvOK, OpNames
<1>42. ASSUME NEW m \in 1..Len(machines), NEW full \in BOOLEAN, WorkerEvent(m, full) PROVE TypeOK'
  <2>1. row' \in Row
    <3>1. m \in Nat /\ machines[m].target \in Target /\ "running" \in Statuses
      BY Inventory DEF Machine, Statuses
    <3> QED  BY <1>42, <3>1, RowStatements DEF WorkerEvent, ReportStep
  <2>2. UNCHANGED <<op, att, exp, volPosts, machPosts, machines, volumes, late, lists, crashes>>
    BY <1>42 DEF WorkerEvent, ReportStep, AttemptUnchanged, FlyUnchanged, EnvUnchanged
  <2> QED  BY <2>1, <2>2 DEF AttOK, PostsOK, FlyOK, EnvOK, OpNames
<1>43. ASSUME NEW m \in 1..Len(machines), NEW result \in {"passed", "failed", "inconclusive"}, Verification(m, result) PROVE TypeOK'
  <2>1. row' \in Row
    <3>1. m \in Nat /\ machines[m].target \in Target /\ "running" \in Statuses
      BY Inventory DEF Machine, Statuses
    <3>2. UpsertReported(row, m, machines[m].target, "running") \in Row
      BY <3>1, RowStatements
    <3> QED  BY <1>43, <3>2, RowStatements DEF Verification
  <2>2. machines' \in Seq(Machine)
    BY <1>43, ProviderCalls DEF Verification
  <2>3. op' \in Operation
    BY <1>43, NoOpType DEF Verification, Operation, Steps
  <2>4. OpNames'
    <3>1. op'.pc \in {"idle", "markDormant"}
      BY <1>43, NoOpType DEF Verification, Idle, Operation
    <3> QED  BY <3>1 DEF OpNames, AttemptSteps
  <2>5. UNCHANGED <<att, exp, volPosts, machPosts, volumes, late, lists, crashes>>
    BY <1>43 DEF Verification, AttemptUnchanged, FlyUnchanged, EnvUnchanged
  <2> QED  BY <2>1, <2>2, <2>3, <2>4, <2>5 DEF AttOK, PostsOK, FlyOK, EnvOK
<1>44. ASSUME ListStale PROVE TypeOK'
  <2>1. EnvOK'
    BY <1>44 DEF ListStale, EnvOK
  <2>2. UNCHANGED <<row, op, att, exp, volPosts, machPosts, machines, volumes, late>>
    BY <1>44 DEF ListStale, AttemptUnchanged, FlyUnchanged, EnvUnchanged
  <2> QED  BY <2>1, <2>2 DEF AttOK, PostsOK, FlyOK, EnvOK, OpNames
<1>45. ASSUME WriteStale PROVE TypeOK'
  <2>1. row' \in Row
    BY <1>45, RowStatements DEF WriteStale
  <2>2. EnvOK'
    BY <1>45 DEF WriteStale, EnvOK
  <2>3. UNCHANGED <<op, att, exp, volPosts, machPosts, machines, volumes, late>>
    BY <1>45 DEF WriteStale, AttemptUnchanged, FlyUnchanged, EnvUnchanged
  <2> QED  BY <2>1, <2>2, <2>3 DEF AttOK, PostsOK, FlyOK, EnvOK, OpNames
<1>46. ASSUME NEW h \in BOOLEAN, HoldEvidence(h) PROVE TypeOK'
  <2>1. row' \in Row
    BY <1>46, RowStatements DEF HoldEvidence
  <2>2. UNCHANGED <<op, att, exp, volPosts, machPosts, machines, volumes, late, lists, crashes>>
    BY <1>46 DEF HoldEvidence, AttemptUnchanged, FlyUnchanged, EnvUnchanged
  <2> QED  BY <2>1, <2>2 DEF AttOK, PostsOK, FlyOK, EnvOK, OpNames
<1>47. ASSUME NEW m \in 1..Len(machines), FlyStarts(m) PROVE TypeOK'
  <2>1. machines' \in Seq(Machine)
    <3>1. machines' \in [1..Len(machines) -> Machine]
      <4>1. machines[m] \in Machine /\ machines \in [1..Len(machines) -> Machine]
        BY DEF FlyOK
      <4>2. [[machines[m] EXCEPT !.state = "started"] EXCEPT !.booted = TRUE] \in Machine
        BY <4>1 DEF Machine
      <4>3. machines' = [machines EXCEPT ![m] = [[@ EXCEPT !.state = "started"] EXCEPT !.booted = TRUE]]
        BY <1>47 DEF FlyStarts
      <4> QED  BY <4>1, <4>2, <4>3
    <3> QED  BY <3>1, SeqOnIndices DEF FlyOK
  <2>2. UNCHANGED <<row, op, att, exp, volPosts, machPosts, volumes, late, lists, crashes>>
    BY <1>47 DEF FlyStarts, AttemptUnchanged, FlyUnchanged, EnvUnchanged
  <2> QED  BY <2>1, <2>2 DEF AttOK, PostsOK, FlyOK, EnvOK, OpNames
<1>48. ASSUME NEW v \in 1..Len(volumes), FlyReaps(v) PROVE TypeOK'
  <2>1. volumes' \in [1..Len(volumes) -> Volume]
    <3>1. volumes[v] \in Volume /\ volumes \in [1..Len(volumes) -> Volume]
      BY DEF FlyOK
    <3>2. [volumes[v] EXCEPT !.state = "gone"] \in Volume
      BY <3>1 DEF Volume
    <3>3. volumes' = [volumes EXCEPT ![v] = [@ EXCEPT !.state = "gone"]]
      BY <1>48 DEF FlyReaps
    <3> QED  BY <3>1, <3>2, <3>3
  <2>2. volumes' \in Seq(Volume) /\ Len(volumes') = Len(volumes)
    BY <2>1, SeqOnIndices DEF FlyOK
  <2>3. UNCHANGED <<row, op, att, exp, volPosts, machPosts, machines, late, lists, crashes>>
    BY <1>48 DEF FlyReaps, AttemptUnchanged, FlyUnchanged, EnvUnchanged
  <2> QED  BY <2>2, <2>3 DEF AttOK, PostsOK, FlyOK, EnvOK, OpNames
<1>49. ASSUME NEW c \in late, FlyAppliesLate(c) PROVE TypeOK'
  <2>1. UNCHANGED <<row, op, att, exp, volPosts, machPosts, lists, crashes>> /\ late' \subseteq LateCreate
    BY <1>49 DEF FlyAppliesLate, AttemptUnchanged, EnvUnchanged, FlyOK
  <2>2. c \in LateCreate
    BY DEF FlyOK
  <2>3. CASE c.kind = "volume"
    <3>1. c.name \in {0} \union Runs
      BY <2>2, <2>3 DEF LateCreate
    <3>2. volumes' = Append(volumes, NewVolume(c.name)) /\ machines' = machines
      BY <1>49, <2>3 DEF FlyAppliesLate
    <3>3. NewVolume(c.name) \in Volume /\ volumes \in Seq(Volume)
      BY <3>1, Created DEF FlyOK
    <3>4. volumes' \in Seq(Volume) /\ Len(volumes') = Len(volumes) + 1 /\ Len(volumes) \in Nat
      BY <3>2, <3>3
    <3> QED  BY <2>1, <3>2, <3>4 DEF AttOK, PostsOK, FlyOK, EnvOK, OpNames
  <2>4. CASE c.kind # "volume"
    <3>1. c.run \in Runs /\ c.t \in Target /\ c.vol \in Nat
      BY <2>2, <2>4 DEF LateCreate
    <3>2. machines' = Append(machines, NewMachine(c.run, c.t, c.vol, "created")) /\ volumes' = volumes
      BY <1>49, <2>4 DEF FlyAppliesLate
    <3>3. machines' \in Seq(Machine)
      BY <3>1, <3>2, Created, AppendType DEF FlyOK
    <3> QED  BY <2>1, <3>2, <3>3 DEF AttOK, PostsOK, FlyOK, EnvOK, OpNames
  <2> QED  BY <2>3, <2>4
<1>50. ASSUME Crash PROVE TypeOK'
  <2>1. op' \in Operation
    BY <1>50, NoOpType DEF Crash
  <2>2. EnvOK'
    BY <1>50 DEF Crash, EnvOK
  <2>3. OpNames'
    BY <1>50 DEF Crash, NoOp, OpNames, AttemptSteps, Operation
  <2>4. UNCHANGED <<row, att, exp, volPosts, machPosts, machines, volumes, late>>
    BY <1>50 DEF Crash, AttemptUnchanged, FlyUnchanged, EnvUnchanged
  <2> QED  BY <2>1, <2>2, <2>3, <2>4 DEF AttOK, PostsOK, FlyOK, EnvOK
<1>51. CASE UNCHANGED vars
  BY <1>51 DEF vars, AttOK, PostsOK, FlyOK, EnvOK, OpNames
<1> QED
  BY <1>1, <1>2, <1>3, <1>4, <1>5, <1>6, <1>7, <1>8, <1>9, <1>10, <1>11, <1>12, <1>13, <1>14, <1>15, <1>16, <1>17, <1>18, <1>19, <1>20, <1>21, <1>22, <1>23, <1>24, <1>25, <1>26, <1>27, <1>28, <1>29, <1>30, <1>31, <1>32, <1>33, <1>34, <1>35, <1>36, <1>37, <1>38, <1>39, <1>40, <1>41, <1>42, <1>43, <1>44, <1>45, <1>46, <1>47, <1>48, <1>49, <1>50, <1>51
     DEF Next, Creation, Recovery, Teardown, Replacement, Resumption, Reporting, Monitor,
         Operator, Provider

\* The empty database and the one an older release left have the right types.
LEMMA InitType == Init => TypeOK
<1> SUFFICES ASSUME Init PROVE TypeOK
  OBVIOUS
<1>1. AbsentRow("none") \in Row /\ \A t \in Targets : CreateWorkerRow(AbsentRow("none"), t) \in Row
  BY DEF AbsentRow, CreateWorkerRow, Row, Statuses, Target
<1>2. op \in Operation /\ OpNames /\ EnvOK /\ PostsOK
  BY NoOpType DEF Init, NoOp, OpNames, AttemptSteps, EnvOK, PostsOK
<1>3. AttOK
  <2>1. NoAttempt \in Attempt
    BY DEF NoAttempt, Attempt, Phases, Target
  <2>2. exp = NoRun \/ exp = [run |-> 1, mach |-> 0, vol |-> 1]
    BY DEF Init, EmptyDatabase, PendingDatabase
  <2>3. exp \in Identity
    BY <2>2 DEF NoRun, Identity, Runs
  <2> QED  BY <2>1, <2>3 DEF Init, AttOK
<1>4. row \in Row
  BY <1>1 DEF Init, EmptyDatabase, PendingDatabase
<1>5. FlyOK
  <2>1. ASSUME NEW t \in Targets PROVE NewMachine(1, t, 1, "started") \in Machine /\ NewVolume(0) \in Volume
    BY Created DEF Runs, Target
  <2>2. CASE EmptyDatabase
    BY <2>2 DEF EmptyDatabase, FlyOK, Init
  <2>3. ASSUME NEW t \in Targets, PendingDatabase(t) PROVE FlyOK
    BY <2>1, <2>3 DEF PendingDatabase, FlyOK, Init
  <2> QED  BY <2>2, <2>3 DEF Init
<1> QED  BY <1>2, <1>3, <1>4, <1>5 DEF TypeOK

\* Every variable keeps the shape the code gives it, in every behaviour.
THEOREM TypeCorrect == Spec => []TypeOK
<1>1. Init => TypeOK
  BY InitType
<1>2. TypeOK /\ [Next]_vars => TypeOK'
  BY TypeStep
<1> QED  BY <1>1, <1>2, PTL DEF Spec

-----------------------------------------------------------------------------
(* At most one volume and one machine per attempt.                         *)

\* The steps that move an attempt or send a create request.
AttemptMove ==
    \/ BeginProvisioning \/ ClaimVolume \/ CreateWorkerVolume \/ SaveVolume \/ ClaimMachine
    \/ RegisterRun \/ CreateWorkerMachine \/ SaveMachine \/ FinishProvisioning \/ AdoptBegin
    \/ AdoptSave \/ AbandonProvisioning \/ (\E t \in Targets : ReplaceWorker(t)) \/ ProbePost

\* All others leave the attempts alone and start no request; only the resume
\* of a dormant worker starts a probe.
ProbeSteps == {"probeDestroy", "probeRegister", "probePost", "probeBind", "probeSave",
               "recreateMachine", "recreateVolume"}
Neutral ==
    /\ UNCHANGED <<att, volPosts, machPosts>>
    /\ op'.pc \in {"postVolume", "register", "postMachine"} => op' = op
    /\ op'.pc \in ProbeSteps => op.pc \in ProbeSteps \/ "resume" \in Ops

\* Every step moves an attempt or is neutral to all of them.
LEMMA MoveOrNeutral == TypeOK /\ [Next]_vars => AttemptMove \/ Neutral
<1> SUFFICES ASSUME TypeOK, [Next]_vars, ~AttemptMove PROVE Neutral
  OBVIOUS
<1>0. op \in Operation
  BY DEF TypeOK
<1>1. ASSUME ListMissing PROVE Neutral
  BY <1>0, <1>1, NoOpType DEF ListMissing, Neutral, ProbeSteps, AttemptUnchanged, Operation
<1>2. ASSUME NEW t \in Targets, NEW fork \in BOOLEAN, CreateWorker(t, fork) PROVE Neutral
  BY <1>0, <1>2, NoOpType DEF CreateWorker, Neutral, ProbeSteps, AttemptUnchanged, Operation, CreateRecord
<1>3. ASSUME BindRun PROVE Neutral
  BY <1>0, <1>3, NoOpType DEF BindRun, Neutral, ProbeSteps, AttemptUnchanged, Operation, ExpectProvisioningRun, NoOp
<1>4. ASSUME RecoverPendingWorker PROVE Neutral
  <2>1. ASSUME RecoverLegacy PROVE op'.pc \in {"adopt", "begin"}
    BY <2>1, NoOpType DEF RecoverLegacy, Operation
  <2>2. ASSUME RecoverAttempt PROVE op'.pc \in {"saveVolume", "expect", "claimVolume", "claimMachine", "idle"}
    <3> DEFINE i == ActiveProvisioning
               o == [NoOp EXCEPT !.a = i, !.t = row.target]
    <3>1. i \in Runs /\ o \in Operation
      <4>1. i \in Runs /\ row.target \in Target
        BY <2>2, Ids DEF RecoverAttempt, OpenIds, TypeOK, Row
      <4> QED  BY <4>1, NoOpType, Zenon DEF Operation
    <3>2. ASSUME NEW m, NEW pc \in {"saveVolume", "expect"},
                 op' = [o EXCEPT !.pc = pc, !.m = m, !.v = machines[m].vol,
                                 !.up = (machines[m].state = "started")]
          PROVE  op'.pc = pc
      BY <3>1, <3>2 DEF Operation
    <3>3. ASSUME op' = [o EXCEPT !.pc = "saveVolume", !.v = CHOOSE v \in OwnedVolumes(i) : TRUE]
          PROVE  op'.pc = "saveVolume"
      BY <3>1, <3>3 DEF Operation
    <3>4. ASSUME NEW phase, op' = ResumeFrom(o, i, phase)
          PROVE  op'.pc \in {"claimVolume", "claimMachine", "idle"}
      BY <3>1, <3>4, ResumeType
    <3> HIDE DEF i, o
    <3> QED  BY <2>2, <3>2, <3>3, <3>4 DEF RecoverAttempt, i, o
  <2> QED  BY <1>4, <2>1, <2>2 DEF RecoverPendingWorker, AttemptUnchanged, Neutral, ProbeSteps
<1>5. ASSUME AdoptExpect PROVE Neutral
  BY <1>0, <1>5, NoOpType DEF AdoptExpect, Neutral, ProbeSteps, AttemptUnchanged, Operation, ExpectProvisioningRun, NoOp
<1>6. ASSUME RecoverExpect PROVE Neutral
  BY <1>0, <1>6, NoOpType DEF RecoverExpect, Neutral, ProbeSteps, AttemptUnchanged, Operation, ExpectProvisioningRun, NoOp
<1>7. ASSUME StopWorker PROVE Neutral
  BY <1>0, <1>7, NoOpType DEF StopWorker, Neutral, ProbeSteps, AttemptUnchanged, Operation, StopCall, NoOp
<1>8. ASSUME DormantWorker PROVE Neutral
  BY <1>0, <1>8, NoOpType DEF DormantWorker, Neutral, ProbeSteps, AttemptUnchanged, Operation, StopCall, NoOp
<1>9. ASSUME RetainHeldWorker PROVE Neutral
  BY <1>0, <1>9, NoOpType DEF RetainHeldWorker, Neutral, ProbeSteps, AttemptUnchanged, Operation, StopCall, NoOp
<1>10. ASSUME MarkStopped PROVE Neutral
  BY <1>0, <1>10, NoOpType DEF MarkStopped, Neutral, ProbeSteps, AttemptUnchanged, Operation, Mark, NoOp
<1>11. ASSUME MarkDormant PROVE Neutral
  BY <1>0, <1>11, NoOpType DEF MarkDormant, Neutral, ProbeSteps, AttemptUnchanged, Operation, Mark, NoOp
<1>12. ASSUME MarkProbing PROVE Neutral
  BY <1>0, <1>12, NoOpType DEF MarkProbing, Neutral, ProbeSteps, AttemptUnchanged, Operation, Mark, NoOp
<1>13. ASSUME DestroyWorker PROVE Neutral
  BY <1>0, <1>13, NoOpType DEF DestroyWorker, Neutral, ProbeSteps, AttemptUnchanged, Operation
<1>14. ASSUME DestroyVolume PROVE Neutral
  BY <1>0, <1>14, NoOpType DEF DestroyVolume, Neutral, ProbeSteps, AttemptUnchanged, Operation
<1>15. ASSUME DestroyProvisioningResources PROVE Neutral
  BY <1>0, <1>15, NoOpType DEF DestroyProvisioningResources, Neutral, ProbeSteps, AttemptUnchanged, Operation
<1>16. ASSUME DestroyFailed PROVE Neutral
  BY <1>0, <1>16, NoOpType DEF DestroyFailed, Neutral, ProbeSteps, AttemptUnchanged, Operation, Mark, NoOp
<1>17. ASSUME ReplaceMachine PROVE Neutral
  BY <1>0, <1>17, NoOpType DEF ReplaceMachine, Neutral, ProbeSteps, AttemptUnchanged, Operation, NoOp
<1>18. ASSUME ReplaceVolume PROVE Neutral
  BY <1>0, <1>18, NoOpType DEF ReplaceVolume, Neutral, ProbeSteps, AttemptUnchanged, Operation, VolumeThenCreate, NoOp
<1>19. ASSUME CreateReplacement PROVE Neutral
  BY <1>0, <1>19, NoOpType DEF CreateReplacement, Neutral, ProbeSteps, AttemptUnchanged, Operation, CreateRecord
<1>20. ASSUME NEW t \in Targets, NEW drift \in BOOLEAN, ResumeDormantWorker(t, drift) PROVE Neutral
  <2>1. UNCHANGED <<att, volPosts, machPosts>> /\ "resume" \in Ops
    BY <1>20 DEF ResumeDormantWorker, AttemptUnchanged
  <2>2. op'.pc \in {"recreateMachine", "probeDestroy"}
    BY <1>20, NoOpType DEF ResumeDormantWorker, Operation
  <2> QED  BY <2>1, <2>2 DEF Neutral, ProbeSteps
<1>21. ASSUME ProbeDestroy PROVE Neutral
  BY <1>0, <1>21, NoOpType DEF ProbeDestroy, Neutral, ProbeSteps, AttemptUnchanged, Operation
<1>22. ASSUME ProbeRegister PROVE Neutral
  BY <1>0, <1>22, RecreateType DEF ProbeRegister, Neutral, ProbeSteps, AttemptUnchanged, Operation
<1>23. ASSUME ProbeBind PROVE Neutral
  BY <1>0, <1>23, RecreateType DEF ProbeBind, Neutral, ProbeSteps, AttemptUnchanged, Operation
<1>24. ASSUME ProbeSave PROVE Neutral
  BY <1>0, <1>24, NoOpType DEF ProbeSave, Neutral, ProbeSteps, AttemptUnchanged, Operation
<1>25. ASSUME RecreateMachine PROVE Neutral
  BY <1>0, <1>25, NoOpType DEF RecreateMachine, Neutral, ProbeSteps, AttemptUnchanged, Operation, NoOp
<1>26. ASSUME RecreateVolume PROVE Neutral
  BY <1>0, <1>26, NoOpType DEF RecreateVolume, Neutral, ProbeSteps, AttemptUnchanged, Operation, VolumeThenCreate, NoOp
<1>27. ASSUME NEW m, NEW s, Heartbeat(m, s) PROVE Neutral
  BY <1>0, <1>27, NoOpType DEF Heartbeat, Neutral, ProbeSteps, AttemptUnchanged, Operation, ReportStep
<1>28. ASSUME NEW m, NEW full, WorkerEvent(m, full) PROVE Neutral
  BY <1>0, <1>28, NoOpType DEF WorkerEvent, Neutral, ProbeSteps, AttemptUnchanged, Operation, ReportStep
<1>29. ASSUME NEW m, NEW result, Verification(m, result) PROVE Neutral
  BY <1>0, <1>29, NoOpType DEF Verification, Neutral, ProbeSteps, AttemptUnchanged, Operation
<1>30. ASSUME ListStale PROVE Neutral
  BY <1>0, <1>30, NoOpType DEF ListStale, Neutral, ProbeSteps, AttemptUnchanged, Operation
<1>31. ASSUME WriteStale PROVE Neutral
  BY <1>0, <1>31, NoOpType DEF WriteStale, Neutral, ProbeSteps, AttemptUnchanged, Operation
<1>32. ASSUME NEW h, HoldEvidence(h) PROVE Neutral
  BY <1>0, <1>32, NoOpType DEF HoldEvidence, Neutral, ProbeSteps, AttemptUnchanged, Operation
<1>33. ASSUME NEW m, FlyStarts(m) PROVE Neutral
  BY <1>0, <1>33, NoOpType DEF FlyStarts, Neutral, ProbeSteps, AttemptUnchanged, Operation
<1>34. ASSUME NEW v, FlyReaps(v) PROVE Neutral
  BY <1>0, <1>34, NoOpType DEF FlyReaps, Neutral, ProbeSteps, AttemptUnchanged, Operation
<1>35. ASSUME NEW c, FlyAppliesLate(c) PROVE Neutral
  BY <1>0, <1>35, NoOpType DEF FlyAppliesLate, Neutral, ProbeSteps, AttemptUnchanged, Operation
<1>36. ASSUME Crash PROVE Neutral
  BY <1>0, <1>36, NoOpType DEF Crash, Neutral, ProbeSteps, AttemptUnchanged, Operation, NoOp
<1>37. CASE UNCHANGED vars
  BY <1>37 DEF vars, Neutral, ProbeSteps
<1> QED
  BY <1>1, <1>2, <1>3, <1>4, <1>5, <1>6, <1>7, <1>8, <1>9, <1>10, <1>11, <1>12, <1>13, <1>14, <1>15, <1>16, <1>17, <1>18, <1>19, <1>20, <1>21, <1>22, <1>23, <1>24, <1>25, <1>26, <1>27, <1>28, <1>29, <1>30, <1>31, <1>32, <1>33, <1>34, <1>35, <1>36, <1>37
     DEF Next, Creation, Recovery, Teardown, Replacement, Resumption, Reporting, Monitor,
         Operator, Provider, AttemptMove

\* Every step keeps the claim behind AtMostOneVolume.
LEMMA VolumeStep == TypeOK /\ VolumeClaims /\ [Next]_vars => VolumeClaims'
<1> SUFFICES ASSUME TypeOK, VolumeClaims, [Next]_vars PROVE VolumeClaims'
  OBVIOUS
<1>0. /\ op \in Operation /\ att \in [Runs -> Attempt] /\ volPosts \in [Runs -> 0..2]
      /\ op.pc \in AttemptSteps => op.a \in Runs
  BY DEF TypeOK, AttOK, PostsOK, OpNames
<1>1. CASE Neutral
  BY <1>1 DEF VolumeClaims, Neutral
<1>2. CASE BeginProvisioning
  <2>a. op'.pc # "postVolume"
    BY <1>0, <1>2, BeginNext
  <2>1. volPosts' = volPosts /\ op'.pc # "postVolume"
    BY <1>2, <2>a DEF BeginProvisioning
  <2>2. att' = att \/ (FreshId \in Runs /\ att[FreshId].phase = "none"
                       /\ att' = [att EXCEPT ![FreshId] = Planned(op.t, FreshId)])
    BY <1>2, Ids DEF BeginProvisioning, FreshIds
  <2> QED  BY <1>0, <2>1, <2>2 DEF VolumeClaims, Planned, Attempt
<1>3. CASE ClaimVolume
  <2>1. /\ op.a \in Runs /\ att[op.a].phase = "planned" /\ volPosts' = volPosts
        /\ att' = [att EXCEPT ![op.a] = Advanced(@, "volume_requested", 0, 0)] /\ op' = [op EXCEPT !.pc = "postVolume"]
    BY <1>0, <1>3 DEF ClaimVolume, AdvanceProvisioning, AttemptSteps
  <2>2. op'.a = op.a /\ att'[op.a].phase = "volume_requested" /\ volPosts[op.a] = 0
    BY <1>0, <2>1 DEF Operation, Advanced, Attempt, VolumeClaims
  <2> QED  BY <1>0, <2>1, <2>2 DEF VolumeClaims
<1>4. CASE CreateWorkerVolume
  <2>1. /\ op.a \in Runs /\ op.pc = "postVolume" /\ att' = att
        /\ volPosts[op.a] = 0 /\ att[op.a].phase = "volume_requested"
    BY <1>0, <1>4 DEF CreateWorkerVolume, AttemptSteps, VolumeClaims
  <2>2. \/ volPosts' = volPosts /\ op'.a = op.a
        \/ volPosts' = volPosts /\ op'.pc # "postVolume"
        \/ volPosts' = [volPosts EXCEPT ![op.a] = 1] /\ op'.pc # "postVolume"
    <3>1. CountPost(volPosts, op.a) = [volPosts EXCEPT ![op.a] = 1]
      BY <1>0, <2>1 DEF CountPost
    <3>2. \/ op' = [op EXCEPT !.fork = FALSE] /\ volPosts' = volPosts
          \/ op' = NoOp /\ volPosts' = volPosts
          \/ /\ op' = [op EXCEPT !.pc = "saveVolume", !.v = Len(volumes) + 1, !.fork = FALSE]
             /\ volPosts' = [volPosts EXCEPT ![op.a] = 1]
          \/ op' = NoOp /\ volPosts' = [volPosts EXCEPT ![op.a] = 1]
      BY <1>4, <3>1 DEF CreateWorkerVolume
    <3>3. CASE op' = [op EXCEPT !.fork = FALSE] /\ volPosts' = volPosts
      BY <1>0, <3>3 DEF Operation
    <3>4. CASE op' = NoOp
      BY <3>2, <3>4, NoOpType DEF NoOp
    <3>5. CASE op' = [op EXCEPT !.pc = "saveVolume", !.v = Len(volumes) + 1, !.fork = FALSE]
               /\ volPosts' = [volPosts EXCEPT ![op.a] = 1]
      <4>1. op'.pc = "saveVolume"
        BY <1>0, <3>5 DEF Operation
      <4> QED  BY <3>5, <4>1
    <3> QED  BY <3>2, <3>3, <3>4, <3>5
  <2> QED  BY <1>0, <2>1, <2>2 DEF VolumeClaims
<1>5. ASSUME SaveVolume \/ ClaimMachine \/ SaveMachine \/ AdoptSave \/ AbandonProvisioning PROVE VolumeClaims'
  <2>1. PICK to \in {"volume_ready", "machine_requested", "machine_ready", "abandoned"}, v \in Nat, m \in Nat :
           att' = [att EXCEPT ![op.a] = Advanced(@, to, v, m)]
    BY <1>0, <1>5 DEF SaveVolume, ClaimMachine, SaveMachine, AdoptSave, AbandonProvisioning, AdvanceProvisioning, Operation
  <2>2. volPosts' = volPosts /\ op'.pc # "postVolume" /\ op.a \in Runs
    BY <1>0, <1>5 DEF SaveVolume, ClaimMachine, SaveMachine, AdoptSave, AbandonProvisioning, AdvanceProvisioning,
       Operation, AttemptSteps
  <2>3. \A i \in Runs : att'[i] = att[i] \/ att'[i].phase = to
    BY <1>0, <2>1, <2>2 DEF Advanced, Attempt
  <2> QED  BY <1>0, <2>2, <2>3 DEF VolumeClaims
<1>6. CASE RegisterRun
  BY <1>0, <1>6 DEF RegisterRun, ExpectProvisioningRun, VolumeClaims, Operation, NoOp
<1>7. ASSUME CreateWorkerMachine \/ ProbePost PROVE VolumeClaims'
  <2>1. UNCHANGED <<att, volPosts>>
    BY <1>7 DEF CreateWorkerMachine, ProbePost, PostMachine
  <2>2. op'.pc # "postVolume"
    <3>1. CASE \E next \in {"bind", "probeBind"}, s \in {"created", "started"} :
                 op' = [op EXCEPT !.pc = next, !.m = Len(machines) + 1, !.up = (s = "started")]
      <4>1. PICK next \in {"bind", "probeBind"}, s \in {"created", "started"} :
                 op' = [op EXCEPT !.pc = next, !.m = Len(machines) + 1, !.up = (s = "started")]
        BY <3>1
      <4> QED  BY <1>0, <4>1 DEF Operation
    <3>2. CASE \E f \in {NoOp, Recreate} : op' = f
      <4>1. PICK f \in {NoOp, Recreate} : op' = f
        BY <3>2
      <4>2. op'.pc = f.pc
        BY <4>1
      <4>3. f.pc \in {"idle", "recreateMachine"}
        BY <1>0, RecreateType DEF NoOp
      <4> QED  BY <4>2, <4>3
    <3> QED  BY <1>7, <3>1, <3>2 DEF CreateWorkerMachine, ProbePost, PostMachine
  <2> QED  BY <2>1, <2>2 DEF VolumeClaims
<1>8. CASE FinishProvisioning
  <2>0. op' = NoOp \/ op' = [NoOp EXCEPT !.pc = "markProbing"]
    BY <1>8 DEF FinishProvisioning
  <2>1. /\ volPosts' = volPosts /\ op'.pc # "postVolume" /\ op.a \in Runs
        /\ att' = att \/ att' = [att EXCEPT ![op.a].phase = "complete"]
    BY <1>0, <1>8, <2>0 DEF FinishProvisioning, NoOp, AttemptSteps
  <2>2. \A i \in Runs : att'[i] = att[i] \/ att'[i].phase = "complete"
    BY <1>0, <2>1 DEF Attempt
  <2> QED  BY <1>0, <2>1, <2>2 DEF VolumeClaims
<1>9. CASE AdoptBegin
  <2>1. /\ volPosts' = volPosts /\ op'.pc # "postVolume" /\ op.a \in Runs
        /\ att' = att \/ (att[op.a].phase = "none" /\ att' = [att EXCEPT ![op.a] = Planned(op.t, volumes[op.v].name)])
    BY <1>0, <1>9 DEF AdoptBegin, NoOp, Operation, AttemptSteps, Inserts
  <2> QED  BY <1>0, <2>1 DEF VolumeClaims, Planned, Attempt
<1>10. ASSUME NEW t \in Targets, ReplaceWorker(t) PROVE VolumeClaims'
  <2>1. volPosts' = volPosts /\ op'.pc # "postVolume"
    BY <1>10, NoOpType DEF ReplaceWorker, Operation
  <2>2. \A i \in Runs : att'[i] = att[i] \/ att'[i].phase = "abandoned"
    BY <1>0, <1>10 DEF ReplaceWorker, Attempt
  <2> QED  BY <1>0, <2>1, <2>2 DEF VolumeClaims
<1> QED
  BY <1>1, <1>2, <1>3, <1>4, <1>5, <1>6, <1>7, <1>8, <1>9, <1>10, MoveOrNeutral DEF AttemptMove

\* AtMostOneVolume holds whatever the bounds and the operations: crashes,
\* unanswered and late creates, recoveries, replacements, probes and holds.
THEOREM VolumeAskedOnce == Spec => []AtMostOneVolume
<1>1. Init => VolumeClaims
  BY DEF Init, VolumeClaims, NoOp
<1>2. TypeOK /\ VolumeClaims /\ [Next]_vars => VolumeClaims'
  BY VolumeStep
<1>3. VolumeClaims => AtMostOneVolume
  BY DEF VolumeClaims, AtMostOneVolume
<1> QED  BY <1>1, <1>2, <1>3, TypeCorrect, PTL DEF Spec

\* What a step does to the phases and to the counts of requests.
PostsKept == UNCHANGED <<volPosts, machPosts>>
Moves(i, from, to) ==
    /\ i \in Runs /\ att[i].phase \in from /\ att'[i].phase \in to
    /\ \A j \in Runs \ {i} : att'[j] = att[j]
Opens == \E i \in Runs : Moves(i, {"none"}, {"planned"}) /\ OpenIds = {} /\ PostsKept
Shut == \E i \in Runs : Moves(i, Phases \ Closed, {"complete", "abandoned"}) /\ PostsKept
Grows == \E i \in Runs : Moves(i, Phases \ Closed, Phases \ Closed) /\ PostsKept
                         /\ (att[i].phase \in Asked => att'[i].phase \in Asked)
AsksVolume == /\ att' = att /\ machPosts' = machPosts /\ op.a \in Runs
              /\ att[op.a].phase = "volume_requested" /\ volPosts[op.a] = 0
              /\ volPosts' = [volPosts EXCEPT ![op.a] = 1]
AsksMachine == /\ att' = att /\ volPosts' = volPosts /\ op.pc = "postMachine" /\ op.a \in Runs
               /\ machPosts' = CountPost(machPosts, op.a)
Still == att' = att /\ PostsKept
Sends == {"register", "postMachine"}

\* Without the resume of dormant workers, every step is one of these, and only
\* the claim of the machine leads to its request.
Moved ==
    /\ Opens \/ Shut \/ Grows \/ AsksVolume \/ AsksMachine \/ Still
    /\ op'.pc \notin ProbeSteps
    /\ op'.pc \in Sends =>
          \/ op.pc \in Sends /\ op'.a = op.a /\ Still
          \/ op'.a \in Runs /\ Moves(op'.a, {"volume_ready"}, {"machine_requested"}) /\ PostsKept

\* Without resumes every step is one of these moves.
LEMMA MachineMoves ==
    ASSUME "resume" \notin Ops, TypeOK, VolumeClaims, OneOpen, op.pc \notin ProbeSteps, [Next]_vars
    PROVE  Moved
<1>0. /\ op \in Operation /\ att \in [Runs -> Attempt] /\ volPosts \in [Runs -> 0..2]
      /\ machPosts \in [Runs -> 0..2] /\ (op.pc \in AttemptSteps => op.a \in Runs)
  BY DEF TypeOK, AttOK, PostsOK, OpNames
<1>1. CASE Neutral
  BY <1>0, <1>1 DEF Neutral, Moved, Still, PostsKept, Sends
<1>2. CASE BeginProvisioning
  <2>1. PostsKept
    BY <1>2 DEF BeginProvisioning, PostsKept
  <2>2. op'.pc \in {"claimVolume", "claimMachine", "idle"}
    BY <1>0, <1>2, BeginNext
  <2>3. Still \/ Opens
    <3>1. CASE att' = att
      BY <2>1, <3>1 DEF Still
    <3>2. CASE att' # att
      <4>1. /\ FreshId \in Runs /\ att[FreshId].phase = "none" /\ OpenIds = {}
            /\ att' = [att EXCEPT ![FreshId] = Planned(op.t, FreshId)]
        BY <1>2, <3>2, Ids DEF BeginProvisioning, FreshIds, Inserts
      <4>2. Moves(FreshId, {"none"}, {"planned"})
        BY <1>0, <4>1 DEF Moves, Planned, Attempt
      <4> QED  BY <2>1, <4>1, <4>2 DEF Opens
    <3> QED  BY <3>1, <3>2
  <2> QED  BY <2>2, <2>3 DEF Moved, ProbeSteps, Sends
<1>3. ASSUME NEW to \in Phases \ Closed, NEW v \in Nat, NEW m \in Nat, NEW next \in Steps \ ProbeSteps,
             op.a \in Runs, att[op.a].phase \in Phases \ Closed,
             att[op.a].phase \in Asked => to \in Asked,
             next \in Sends => att[op.a].phase = "volume_ready" /\ to = "machine_requested",
             att' = [att EXCEPT ![op.a] = Advanced(@, to, v, m)], op' = [op EXCEPT !.pc = next], PostsKept
      PROVE  Moved
  <2>1. att'[op.a].phase = to /\ \A j \in Runs \ {op.a} : att'[j] = att[j]
    BY <1>0, <1>3 DEF Advanced, Attempt
  <2>2. op'.pc = next /\ op'.a = op.a
    BY <1>0, <1>3 DEF Operation
  <2>3. Grows
    BY <1>3, <2>1 DEF Grows, Moves
  <2>4. next \in Sends => Moves(op.a, {"volume_ready"}, {"machine_requested"})
    BY <1>3, <2>1 DEF Moves
  <2> QED  BY <1>3, <2>2, <2>3, <2>4 DEF Moved
<1> USE DEF AdvanceProvisioning, PostsKept
<1>4. CASE ClaimVolume
  BY <1>0, <1>3, <1>4 DEF ClaimVolume, Phases, Closed, Asked, Steps, ProbeSteps, AttemptSteps, Sends
<1>5. CASE SaveVolume
  <2>1. op.v \in Nat
    BY <1>0 DEF Operation
  <2> QED  BY <1>0, <1>3, <1>5, <2>1 DEF SaveVolume, Phases, Closed, Asked, Steps, ProbeSteps, AttemptSteps, Sends
<1>6. CASE ClaimMachine
  BY <1>0, <1>3, <1>6 DEF ClaimMachine, Phases, Closed, Asked, Steps, ProbeSteps, AttemptSteps, Sends
<1>7. CASE SaveMachine
  <2>1. op.v \in Nat /\ op.m \in Nat
    BY <1>0 DEF Operation
  <2> QED  BY <1>0, <1>3, <1>7, <2>1 DEF SaveMachine, Phases, Closed, Asked, Steps, ProbeSteps, AttemptSteps, Sends
<1>8. CASE AdoptSave
  <2>1. op.v \in Nat /\ op.m \in Nat
    BY <1>0 DEF Operation
  <2> QED  BY <1>0, <1>3, <1>8, <2>1 DEF AdoptSave, Phases, Closed, Asked, Steps, ProbeSteps, AttemptSteps, Sends
<1>9. CASE AbandonProvisioning
  <2>1. /\ op.a \in Runs /\ att[op.a].phase \in Phases \ Closed /\ PostsKept
        /\ att' = [att EXCEPT ![op.a] = Advanced(@, "abandoned", 0, 0)] /\ op' = [op EXCEPT !.pc = "markStopped"]
    BY <1>0, <1>9 DEF AbandonProvisioning, AttemptSteps
  <2>2. att'[op.a].phase = "abandoned" /\ \A j \in Runs \ {op.a} : att'[j] = att[j]
    BY <1>0, <2>1 DEF Advanced, Attempt
  <2>3. op'.pc = "markStopped"
    BY <1>0, <2>1 DEF Operation
  <2> QED  BY <2>1, <2>2, <2>3 DEF Moved, Shut, Moves, ProbeSteps, Sends
<1>10. CASE FinishProvisioning
  <2>1. op' = NoOp \/ op' = [NoOp EXCEPT !.pc = "markProbing"]
    BY <1>10 DEF FinishProvisioning
  <2>2. op'.pc \in {"idle", "markProbing"}
    BY <2>1 DEF NoOp
  <2>3. Still \/ Shut
    <3>1. CASE att' = att
      BY <1>10, <3>1 DEF FinishProvisioning, Still
    <3>2. CASE att' # att
      <4>1. /\ att' = [att EXCEPT ![op.a].phase = "complete"] /\ PostsKept /\ op.a \in Runs
            /\ att[op.a].phase = "machine_ready"
        BY <1>0, <1>10, <3>2 DEF FinishProvisioning, Finishable, AttemptSteps
      <4>2. Moves(op.a, Phases \ Closed, {"complete", "abandoned"})
        BY <1>0, <4>1 DEF Moves, Attempt, Phases, Closed
      <4> QED  BY <4>1, <4>2 DEF Shut
    <3> QED  BY <3>1, <3>2
  <2> QED  BY <2>2, <2>3 DEF Moved, ProbeSteps, Sends
<1>11. CASE AdoptBegin
  <2>1. op' = NoOp \/ op' = [op EXCEPT !.pc = "adoptSave"]
    BY <1>11 DEF AdoptBegin
  <2>2. op'.pc \in {"idle", "adoptSave"}
    BY <1>0, <2>1 DEF NoOp, Operation
  <2>3. Still \/ Opens
    <3>1. CASE att' = att
      BY <1>11, <3>1 DEF AdoptBegin, Still
    <3>2. CASE att' # att
      <4>1. /\ op.a \in Runs /\ att[op.a].phase = "none" /\ OpenIds = {} /\ PostsKept
            /\ att' = [att EXCEPT ![op.a] = Planned(op.t, volumes[op.v].name)]
        BY <1>0, <1>11, <3>2 DEF AdoptBegin, Inserts, AttemptSteps
      <4>2. Moves(op.a, {"none"}, {"planned"})
        BY <1>0, <4>1 DEF Moves, Planned, Attempt
      <4> QED  BY <4>1, <4>2 DEF Opens
    <3> QED  BY <3>1, <3>2
  <2> QED  BY <2>2, <2>3 DEF Moved, ProbeSteps, Sends
<1>12. ASSUME NEW t \in Targets, ReplaceWorker(t) PROVE Moved
  <2>1. op'.pc = "replaceMachine"
    BY <1>12, NoOpType DEF ReplaceWorker, Operation
  <2>2. Still \/ Shut
    <3>1. CASE OpenIds = {}
      BY <1>0, <1>12, <3>1 DEF ReplaceWorker, Still
    <3>2. ASSUME NEW i \in OpenIds PROVE Shut
      <4>1. OpenIds = {i} /\ i \in Runs /\ att[i].phase \in Phases \ Closed
        BY <1>0, <3>2 DEF OneOpen, OpenIds, Attempt
      <4>2. /\ att'[i].phase = "abandoned" /\ \A j \in Runs \ {i} : att'[j] = att[j]
            /\ PostsKept
        BY <1>0, <1>12, <4>1 DEF ReplaceWorker, Attempt
      <4> QED  BY <4>1, <4>2 DEF Shut, Moves
    <3> QED  BY <3>1, <3>2
  <2> QED  BY <2>1, <2>2 DEF Moved, ProbeSteps, Sends
<1>13. CASE RegisterRun
  <2>1. Still /\ (op' = NoOp \/ op' = [op EXCEPT !.pc = "postMachine"]) /\ op.pc = "register"
    BY <1>13 DEF RegisterRun, ExpectProvisioningRun, Still
  <2>2. op'.pc = "idle" \/ (op'.pc = "postMachine" /\ op'.a = op.a)
    BY <1>0, <2>1 DEF NoOp, Operation
  <2> QED  BY <2>1, <2>2 DEF Moved, ProbeSteps, Sends
<1>14. CASE CreateWorkerVolume
  <2>1. /\ op.a \in Runs /\ att' = att /\ machPosts' = machPosts /\ op.pc = "postVolume"
        /\ volPosts[op.a] = 0 /\ att[op.a].phase = "volume_requested"
    BY <1>0, <1>14 DEF CreateWorkerVolume, AttemptSteps, VolumeClaims
  <2>2. volPosts' = volPosts \/ volPosts' = [volPosts EXCEPT ![op.a] = 1]
    BY <1>0, <1>14, <2>1 DEF CreateWorkerVolume, CountPost
  <2>3. op'.pc \in {"postVolume", "idle", "saveVolume"}
    <3>1. \/ op' = [op EXCEPT !.fork = FALSE] \/ op' = NoOp
          \/ op' = [op EXCEPT !.pc = "saveVolume", !.v = Len(volumes) + 1, !.fork = FALSE]
      BY <1>14 DEF CreateWorkerVolume
    <3>2. CASE op' = NoOp
      BY <3>2 DEF NoOp
    <3>3. CASE op' = [op EXCEPT !.fork = FALSE]
      BY <1>0, <2>1, <3>3 DEF Operation
    <3>4. CASE op' = [op EXCEPT !.pc = "saveVolume", !.v = Len(volumes) + 1, !.fork = FALSE]
      BY <1>0, <3>4 DEF Operation
    <3> QED  BY <3>1, <3>2, <3>3, <3>4
  <2> QED  BY <2>1, <2>2, <2>3 DEF Moved, AsksVolume, Still, ProbeSteps, Sends
<1>15. CASE CreateWorkerMachine
  <2>1. op.pc = "postMachine" /\ op.a \in Runs
    BY <1>0, <1>15 DEF CreateWorkerMachine, AttemptSteps
  <2>2. Still \/ AsksMachine
    BY <1>15, <2>1 DEF CreateWorkerMachine, PostMachine, Still, AsksMachine
  <2>3. op'.pc \in {"bind", "idle"}
    <3>1. CASE \E s \in {"created", "started"} :
                 op' = [op EXCEPT !.pc = "bind", !.m = Len(machines) + 1, !.up = (s = "started")]
      <4>1. PICK s \in {"created", "started"} :
                 op' = [op EXCEPT !.pc = "bind", !.m = Len(machines) + 1, !.up = (s = "started")]
        BY <3>1
      <4> QED  BY <1>0, <4>1 DEF Operation
    <3>2. CASE op' = NoOp
      BY <3>2 DEF NoOp
    <3> QED  BY <1>15, <3>1, <3>2 DEF CreateWorkerMachine, PostMachine
  <2> QED  BY <2>2, <2>3 DEF Moved, ProbeSteps, Sends
<1>16. CASE ProbePost
  BY <1>16 DEF ProbePost, ProbeSteps
<1> QED
  BY <1>1, <1>2, <1>4, <1>5, <1>6, <1>7, <1>8, <1>9, <1>10, <1>11, <1>12, <1>13, <1>14, <1>15,
     <1>16, MoveOrNeutral DEF AttemptMove

\* The inductive invariant behind the refinement of the ledger.
LedgerInv == VolumeClaims /\ MachineClaims /\ OneOpen /\ op.pc \notin ProbeSteps

\* Without the resume of dormant workers, every step keeps that invariant.
LEMMA LedgerInvStep ==
    ASSUME "resume" \notin Ops, TypeOK, LedgerInv, [Next]_vars
    PROVE  LedgerInv'
<1>0. /\ att \in [Runs -> Attempt] /\ volPosts \in [Runs -> 0..2] /\ machPosts \in [Runs -> 0..2]
      /\ (op.pc \in Sends => op.a \in Runs)
  BY DEF TypeOK, AttOK, PostsOK, OpNames, AttemptSteps, Sends
<1>1. Moved
  BY MachineMoves DEF LedgerInv
<1>2. VolumeClaims'
  BY VolumeStep DEF LedgerInv
<1>3. \A i \in Runs : machPosts'[i] <= 1 /\ (machPosts'[i] = 1 => att'[i].phase \in Asked)
  <2>1. \A i \in Runs : machPosts[i] <= 1 /\ (machPosts[i] = 1 => att[i].phase \in Asked)
    BY DEF LedgerInv, MachineClaims
  <2>2. CASE Opens
    BY <2>1, <2>2 DEF Opens, Moves, PostsKept, Asked
  <2>3. CASE Shut
    BY <2>1, <2>3 DEF Shut, Moves, PostsKept, Asked
  <2>4. CASE Grows
    BY <2>1, <2>4 DEF Grows, Moves, PostsKept
  <2>5. CASE AsksVolume \/ Still
    BY <2>1, <2>5 DEF AsksVolume, Still, PostsKept
  <2>6. CASE AsksMachine
    <3>1. op.a \in Runs /\ att[op.a].phase \in Asked /\ machPosts[op.a] = 0
      BY <2>6 DEF AsksMachine, LedgerInv, MachineClaims, Asked
    <3>2. machPosts' = [machPosts EXCEPT ![op.a] = 1] /\ att' = att
      BY <1>0, <2>6, <3>1 DEF AsksMachine, CountPost
    <3> QED  BY <1>0, <2>1, <3>1, <3>2
  <2> QED  BY <1>1, <2>2, <2>3, <2>4, <2>5, <2>6 DEF Moved
<1>4. op'.pc \in Sends => att'[op'.a].phase = "machine_requested" /\ machPosts'[op'.a] = 0
  <2> SUFFICES ASSUME op'.pc \in Sends
               PROVE  att'[op'.a].phase = "machine_requested" /\ machPosts'[op'.a] = 0
    OBVIOUS
  <2>1. CASE op.pc \in Sends /\ op'.a = op.a /\ Still
    BY <2>1 DEF LedgerInv, MachineClaims, Sends, Still, PostsKept
  <2>2. CASE op'.a \in Runs /\ Moves(op'.a, {"volume_ready"}, {"machine_requested"}) /\ PostsKept
    <3>1. machPosts[op'.a] = 0
      BY <1>0, <2>2 DEF LedgerInv, MachineClaims, Moves, Asked
    <3> QED  BY <2>2, <3>1 DEF Moves, PostsKept
  <2> QED  BY <1>1, <2>1, <2>2 DEF Moved
<1>5. OneOpen'
  <2>1. CASE Opens
    BY <2>1 DEF Opens, Moves, OneOpen, OpenIds
  <2>2. CASE Shut
    BY <2>2 DEF Shut, Moves, LedgerInv, OneOpen, OpenIds, Closed
  <2>3. CASE Grows
    BY <2>3 DEF Grows, Moves, LedgerInv, OneOpen, OpenIds
  <2>4. CASE AsksVolume \/ AsksMachine \/ Still
    BY <2>4 DEF AsksVolume, AsksMachine, Still, LedgerInv, OneOpen, OpenIds
  <2> QED  BY <1>1, <2>1, <2>2, <2>3, <2>4 DEF Moved
<1> QED  BY <1>1, <1>2, <1>3, <1>4, <1>5 DEF LedgerInv, MachineClaims, Sends, Moved

\* Every step of the code is a step of the ledger or leaves it alone.
LEMMA LedgerStep ==
    ASSUME "resume" \notin Ops, TypeOK, LedgerInv, [Next]_vars
    PROVE  [Ledger!LedgerNext]_LedgerView
<1>0. /\ att \in [Runs -> Attempt] /\ volPosts \in [Runs -> 0..2] /\ machPosts \in [Runs -> 0..2]
  BY DEF TypeOK, AttOK, PostsOK
<1>1. Moved
  BY MachineMoves DEF LedgerInv
<1>2. CASE Still \/ Grows
  <2>1. \A i \in Runs : /\ LedgerState(att'[i].phase) = LedgerState(att[i].phase)
                        /\ volPosts'[i] = volPosts[i] /\ machPosts'[i] = machPosts[i]
    BY <1>2 DEF Still, Grows, Moves, PostsKept, LedgerState, Closed
  <2> QED  BY <2>1 DEF LedgerView
<1>3. CASE Opens
  <2>1. PICK i \in Runs : Moves(i, {"none"}, {"planned"}) /\ OpenIds = {} /\ PostsKept
    BY <1>3 DEF Opens
  <2>2. /\ LedgerView[i].state = "new" /\ \A j \in Runs : LedgerView[j].state # "open"
    BY <1>0, <2>1 DEF Moves, LedgerView, LedgerState, OpenIds, Closed, Attempt
  <2>3. LedgerView' = [LedgerView EXCEPT ![i].state = "open"]
    BY <2>1 DEF Moves, PostsKept, LedgerView, LedgerState, Closed
  <2> QED  BY <2>2, <2>3 DEF Ledger!LedgerNext, Ledger!Open
<1>4. CASE Shut
  <2>1. PICK i \in Runs : Moves(i, Phases \ Closed, {"complete", "abandoned"}) /\ PostsKept
    BY <1>4 DEF Shut
  <2>2. LedgerView[i].state = "open"
    BY <2>1 DEF Moves, LedgerView, LedgerState, Closed
  <2>3. LedgerView' = [LedgerView EXCEPT ![i].state = "closed"]
    BY <2>1 DEF Moves, PostsKept, LedgerView, LedgerState, Closed
  <2> QED  BY <2>2, <2>3 DEF Ledger!LedgerNext, Ledger!Close
<1>5. CASE AsksVolume
  <2>1. op.a \in Runs /\ LedgerView[op.a].state = "open" /\ LedgerView[op.a].volumes = 0
    BY <1>5 DEF AsksVolume, LedgerView, LedgerState, Closed
  <2>2. LedgerView' = [LedgerView EXCEPT ![op.a].volumes = 1]
    BY <1>0, <1>5 DEF AsksVolume, LedgerView
  <2> QED  BY <2>1, <2>2 DEF Ledger!LedgerNext, Ledger!AskVolume
<1>6. CASE AsksMachine
  <2>1. op.a \in Runs /\ att[op.a].phase = "machine_requested" /\ machPosts[op.a] = 0
    BY <1>6 DEF AsksMachine, LedgerInv, MachineClaims
  <2>2. LedgerView[op.a].state = "open" /\ LedgerView[op.a].machines = 0
    BY <2>1 DEF LedgerView, LedgerState, Closed
  <2>3. LedgerView' = [LedgerView EXCEPT ![op.a].machines = 1]
    <3>1. machPosts' = [machPosts EXCEPT ![op.a] = 1] /\ UNCHANGED <<att, volPosts>>
      BY <1>0, <1>6, <2>1 DEF AsksMachine, CountPost
    <3> QED  BY <1>0, <2>1, <3>1 DEF LedgerView
  <2> QED  BY <2>1, <2>2, <2>3 DEF Ledger!LedgerNext, Ledger!AskMachine
<1> QED  BY <1>1, <1>2, <1>3, <1>4, <1>5, <1>6 DEF Moved

\* Before the first attempt nothing is claimed.
LEMMA InitLedger == Init => LedgerInv
<1> SUFFICES ASSUME Init PROVE LedgerInv
  OBVIOUS
<1>1. /\ att = [i \in Runs |-> NoAttempt] /\ volPosts = [i \in Runs |-> 0]
      /\ machPosts = [i \in Runs |-> 0] /\ op = NoOp
  BY DEF Init
<1>2. op.pc = "idle"
  BY <1>1 DEF NoOp
<1>3. \A i \in Runs : att[i].phase = "none" /\ volPosts[i] = 0 /\ machPosts[i] = 0
  BY <1>1 DEF NoAttempt
<1>4. VolumeClaims
  BY <1>2, <1>3 DEF VolumeClaims
<1>5. MachineClaims
  BY <1>2, <1>3 DEF MachineClaims
<1>6. OneOpen
  BY <1>3 DEF OneOpen, OpenIds, Closed
<1>7. op.pc \notin ProbeSteps
  BY <1>2 DEF ProbeSteps
<1> QED  BY <1>4, <1>5, <1>6, <1>7 DEF LedgerInv

\* The attempts implement the ledger for every number of runs, machines,
\* volumes and crashes, as long as no dormant worker is resumed: the resume is
\* the one operation that may spend an attempt's run on a probe.
THEOREM ImplementsLedger == ASSUME "resume" \notin Ops PROVE Spec => KeepsLedger
<1>1. Init => Ledger!LedgerInit /\ LedgerInv
  <2>1. Init => Ledger!LedgerInit
    BY DEF Init, Ledger!LedgerInit, Ledger!NewEntry, LedgerView, LedgerState, NoAttempt
  <2>2. Init => LedgerInv
    BY InitLedger
  <2> QED  BY <2>1, <2>2
<1>2. TypeOK /\ LedgerInv /\ [Next]_vars => LedgerInv'
  BY LedgerInvStep
<1>3. TypeOK /\ LedgerInv /\ [Next]_vars => [Ledger!LedgerNext]_LedgerView
  BY LedgerStep
<1> QED  BY <1>1, <1>2, <1>3, TypeCorrect, PTL DEF Spec, KeepsLedger, Ledger!LedgerSpec

\* In particular no attempt sends a second machine create.
THEOREM MachineAskedOnce == ASSUME "resume" \notin Ops PROVE Spec => []AtMostOneMachine
<1>1. Init => LedgerInv
  BY InitLedger
<1>2. TypeOK /\ LedgerInv /\ [Next]_vars => LedgerInv'
  BY LedgerInvStep
<1>3. LedgerInv => AtMostOneMachine
  BY DEF LedgerInv, MachineClaims, AtMostOneMachine
<1> QED  BY <1>1, <1>2, <1>3, TypeCorrect, PTL DEF Spec

-----------------------------------------------------------------------------
(* Held evidence.                                                          *)

\* The steps of an operation that may still destroy the worker's resources.
Destroying == {"destroyVolume", "destroyAttempt", "replaceMachine", "replaceVolume",
               "probeDestroy", "probeRegister", "probePost", "probeBind",
               "recreateMachine", "recreateVolume"}
HeldInv == row.held => op.pc \notin Destroying
Kept ==
    /\ \A m \in LiveMachines : machines'[m].state # "destroyed"
    /\ \A v \in 1..Len(volumes) : volumes[v].state = "created" => volumes'[v].state = "created"

\* The row statements leave the hold alone.
LEMMA HoldUntouched ==
    ASSUME NEW r \in Row
    PROVE  /\ \A t : CreateWorkerRow(r, t).held = r.held
           /\ \A st, e : UpdateWorkerStatus(r, st, e).held = r.held
           /\ \A m, t, st : UpsertReported(r, m, t, st).held = r.held
           /\ \A m, t : UpsertFailed(r, m, t).held = r.held
           /\ \A b : UpdateVerificationState(r, b).held = r.held
           /\ MarkWorkerDormant(r).held = r.held /\ MarkWorkerProbing(r).held = r.held
           /\ \A m, v : UpdateWorkerMachine(r, m, v).held = r.held
           /\ MarkStale(r).held = r.held
BY DEF Row, CreateWorkerRow, UpdateWorkerStatus, UpsertReported, UpsertFailed, UpdateVerificationState,
       MarkWorkerDormant, MarkWorkerProbing, UpdateWorkerMachine, MarkStale

\* Stopping machines, adding to an inventory and doing nothing destroy nothing.
LEMMA KeepsAll ==
    ASSUME FlyOK
    PROVE  /\ UNCHANGED <<machines, volumes>> => Kept
           /\ \A S : machines' = StopMachines(S) /\ volumes' = volumes => Kept
           /\ \A x \in Machine : machines' = Append(machines, x) /\ volumes' = volumes => Kept
           /\ \A x \in Volume : volumes' = Append(volumes, x) /\ machines' = machines => Kept
<1>0. machines \in Seq(Machine) /\ volumes \in Seq(Volume)
  BY DEF FlyOK
<1>1. UNCHANGED <<machines, volumes>> => Kept
  BY DEF Kept, LiveMachines
<1>2. ASSUME NEW S, machines' = StopMachines(S), volumes' = volumes PROVE Kept
  <2>1. \A m \in 1..Len(machines) : machines[m] \in Machine
    BY <1>0
  <2>2. \A m \in LiveMachines : StopMachines(S)[m].state # "destroyed"
    BY <2>1 DEF LiveMachines, StopMachines, Machine
  <2> QED  BY <1>2, <2>2 DEF Kept
<1>3. ASSUME NEW x \in Machine, machines' = Append(machines, x), volumes' = volumes PROVE Kept
  BY <1>0, <1>3 DEF Kept, LiveMachines
<1>4. ASSUME NEW x \in Volume, volumes' = Append(volumes, x), machines' = machines PROVE Kept
  BY <1>0, <1>4 DEF Kept, LiveMachines
<1> QED  BY <1>1, <1>2, <1>3, <1>4

\* What every step owes to a held worker: the hold changes only while nobody
\* has the worker lock, no destruction starts under it and none happens.
Respects ==
    /\ row'.held # row.held => Idle /\ op' = op
    /\ op'.pc \in Destroying => op.pc \in Destroying \/ ~row.held
    /\ row.held /\ op.pc \notin Destroying => Kept

\* Every step of the control plane, the workers and the provider respects the hold.
LEMMA HeldStep == TypeOK /\ [Next]_vars => Respects
<1> SUFFICES ASSUME TypeOK, [Next]_vars PROVE Respects
  OBVIOUS
<1>0. op \in Operation /\ row \in Row /\ FlyOK /\ row \in Row
  BY DEF TypeOK
<1>a. UNCHANGED <<machines, volumes>> => Kept
  BY <1>0, KeepsAll
<1>b. \A S : machines' = StopMachines(S) /\ volumes' = volumes => Kept
  BY <1>0, KeepsAll
<1>1. ASSUME ListMissing PROVE Respects
  BY <1>0, <1>1, <1>a, <1>b, NoOpType, HoldUntouched
     DEF Respects, ListMissing, FlyUnchanged, NoOp, Idle, Destroying, Operation
<1>2. ASSUME NEW t \in Targets, NEW fork \in BOOLEAN, CreateWorker(t, fork) PROVE Respects
  BY <1>0, <1>2, <1>a, <1>b, NoOpType, HoldUntouched
     DEF Respects, CreateWorker, CreateRecord, NoOp, Idle, Destroying, Operation
<1>3. ASSUME BeginProvisioning PROVE Respects
  <2>1. row'.held # row.held => Idle /\ op' = op
    BY <1>0, <1>3, HoldUntouched DEF BeginProvisioning, FlyUnchanged
  <2>2. op'.pc \in Destroying => op.pc \in Destroying \/ ~row.held
    <3>1. op'.pc \in {"claimVolume", "claimMachine", "idle"}
      BY <1>0, <1>3, BeginNext
    <3> QED  BY <3>1 DEF Destroying
  <2>3. row.held /\ op.pc \notin Destroying => Kept
    BY <1>0, <1>3, <1>a, <1>b DEF BeginProvisioning, FlyUnchanged, Destroying
  <2> QED  BY <2>1, <2>2, <2>3 DEF Respects
<1>4. ASSUME ClaimVolume PROVE Respects
  BY <1>0, <1>4, <1>a, <1>b, NoOpType, HoldUntouched
     DEF Respects, ClaimVolume, AdvanceProvisioning, FlyUnchanged, NoOp, Idle, Destroying, Operation
<1>5. ASSUME CreateWorkerVolume PROVE Respects
  <2>1. row'.held # row.held => Idle /\ op' = op
    BY <1>0, <1>5, HoldUntouched DEF CreateWorkerVolume
  <2>2. op'.pc \in Destroying => op.pc \in Destroying \/ ~row.held
    <3>1. \/ op' = [op EXCEPT !.fork = FALSE] \/ op' = NoOp
          \/ op' = [op EXCEPT !.pc = "saveVolume", !.v = Len(volumes) + 1, !.fork = FALSE]
      BY <1>5 DEF CreateWorkerVolume
    <3>2. CASE op' = NoOp
      BY <3>2 DEF NoOp, Destroying
    <3>3. CASE op' = [op EXCEPT !.fork = FALSE]
      BY <1>0, <3>3 DEF Operation, Destroying
    <3>4. CASE op' = [op EXCEPT !.pc = "saveVolume", !.v = Len(volumes) + 1, !.fork = FALSE]
      BY <1>0, <3>4 DEF Operation, Destroying
    <3> QED  BY <3>1, <3>2, <3>3, <3>4
  <2>3. Kept
    <3>1. NewVolume(att[op.a].name) \in Volume
      BY <1>5 DEF TypeOK, AttOK, Attempt, OpNames, AttemptSteps, CreateWorkerVolume, NewVolume, Volume
    <3>2. \/ UNCHANGED <<machines, volumes>>
          \/ volumes' = Append(volumes, NewVolume(att[op.a].name)) /\ machines' = machines
      BY <1>5 DEF CreateWorkerVolume
    <3> QED  BY <1>0, <3>1, <3>2, KeepsAll
  <2> QED  BY <2>1, <2>2, <2>3 DEF Respects
<1>6. ASSUME SaveVolume PROVE Respects
  BY <1>0, <1>6, <1>a, <1>b, NoOpType, HoldUntouched
     DEF Respects, SaveVolume, AdvanceProvisioning, FlyUnchanged, NoOp, Idle, Destroying, Operation
<1>7. ASSUME ClaimMachine PROVE Respects
  BY <1>0, <1>7, <1>a, <1>b, NoOpType, HoldUntouched
     DEF Respects, ClaimMachine, AdvanceProvisioning, FlyUnchanged, NoOp, Idle, Destroying, Operation
<1>8. ASSUME RegisterRun PROVE Respects
  BY <1>0, <1>8, <1>a, <1>b, NoOpType, HoldUntouched
     DEF Respects, RegisterRun, ExpectProvisioningRun, FlyUnchanged, NoOp, Idle, Destroying, Operation
<1>9. ASSUME CreateWorkerMachine PROVE Respects
  <2>1. row'.held # row.held => Idle /\ op' = op
    BY <1>0, <1>9, HoldUntouched DEF CreateWorkerMachine, PostMachine
  <2>2. op'.pc \in Destroying => op.pc \in Destroying \/ ~row.held
    <3>1. CASE \E s \in {"created", "started"} :
                 op' = [op EXCEPT !.pc = "bind", !.m = Len(machines) + 1, !.up = (s = "started")]
      <4>1. PICK s \in {"created", "started"} :
                 op' = [op EXCEPT !.pc = "bind", !.m = Len(machines) + 1, !.up = (s = "started")]
        BY <3>1
      <4> QED  BY <1>0, <4>1 DEF Operation, Destroying
    <3>2. CASE op' = NoOp
      BY <3>2 DEF NoOp, Destroying
    <3> QED  BY <1>9, <3>1, <3>2 DEF CreateWorkerMachine, PostMachine
  <2>3. Kept
    <3>1. \A s \in {"created", "started"} : NewMachine(op.a, op.t, att[op.a].vol, s) \in Machine
      BY <1>0, <1>9 DEF TypeOK, AttOK, Attempt, OpNames, AttemptSteps, CreateWorkerMachine, NewMachine, Machine,
         Operation
    <3>2. \/ UNCHANGED <<machines, volumes>>
          \/ \E s \in {"created", "started"} :
               machines' = Append(machines, NewMachine(op.a, op.t, att[op.a].vol, s)) /\ volumes' = volumes
      BY <1>9 DEF CreateWorkerMachine, PostMachine
    <3> QED  BY <1>0, <3>1, <3>2, KeepsAll
  <2> QED  BY <2>1, <2>2, <2>3 DEF Respects
<1>10. ASSUME BindRun PROVE Respects
  BY <1>0, <1>10, <1>a, <1>b, NoOpType, HoldUntouched
     DEF Respects, BindRun, ExpectProvisioningRun, FlyUnchanged, NoOp, Idle, Destroying, Operation
<1>11. ASSUME SaveMachine PROVE Respects
  BY <1>0, <1>11, <1>a, <1>b, NoOpType, HoldUntouched
     DEF Respects, SaveMachine, AdvanceProvisioning, FlyUnchanged, NoOp, Idle, Destroying, Operation
<1>12. ASSUME FinishProvisioning PROVE Respects
  <2>1. row'.held # row.held => Idle /\ op' = op
    <3>1. \A m, v, st, e : UpdateWorkerStatus(UpdateWorkerMachine(row, m, v), st, e).held = row.held
      BY <1>0 DEF Row, UpdateWorkerStatus, UpdateWorkerMachine
    <3> QED  BY <1>0, <1>12, <3>1, HoldUntouched DEF FinishProvisioning
  <2>2. op'.pc \in Destroying => op.pc \in Destroying \/ ~row.held
    BY <1>0, <1>12, NoOpType DEF FinishProvisioning, FlyUnchanged, NoOp, Idle, Destroying, Operation
  <2>3. row.held /\ op.pc \notin Destroying => Kept
    BY <1>0, <1>12, <1>a, <1>b DEF FinishProvisioning, FlyUnchanged, Destroying
  <2> QED  BY <2>1, <2>2, <2>3 DEF Respects
<1>13. ASSUME RecoverPendingWorker PROVE Respects
  BY <1>0, <1>13, <1>a, <1>b, NoOpType, HoldUntouched
     DEF Respects, RecoverPendingWorker, FlyUnchanged, Recoverable, NoOp, Idle, Destroying, Operation
<1>14. ASSUME AdoptBegin PROVE Respects
  BY <1>0, <1>14, <1>a, <1>b, NoOpType, HoldUntouched
     DEF Respects, AdoptBegin, FlyUnchanged, NoOp, Idle, Destroying, Operation
<1>15. ASSUME AdoptSave PROVE Respects
  BY <1>0, <1>15, <1>a, <1>b, NoOpType, HoldUntouched
     DEF Respects, AdoptSave, AdvanceProvisioning, FlyUnchanged, NoOp, Idle, Destroying, Operation
<1>16. ASSUME AdoptExpect PROVE Respects
  BY <1>0, <1>16, <1>a, <1>b, NoOpType, HoldUntouched
     DEF Respects, AdoptExpect, ExpectProvisioningRun, FlyUnchanged, NoOp, Idle, Destroying, Operation
<1>17. ASSUME RecoverExpect PROVE Respects
  BY <1>0, <1>17, <1>a, <1>b, NoOpType, HoldUntouched
     DEF Respects, RecoverExpect, ExpectProvisioningRun, FlyUnchanged, NoOp, Idle, Destroying, Operation
<1>18. ASSUME StopWorker PROVE Respects
  BY <1>0, <1>18, <1>a, <1>b, NoOpType, HoldUntouched
     DEF Respects, StopWorker, StopCall, NoOp, Idle, Destroying, Operation
<1>19. ASSUME DormantWorker PROVE Respects
  BY <1>0, <1>19, <1>a, <1>b, NoOpType, HoldUntouched
     DEF Respects, DormantWorker, StopCall, NoOp, Idle, Destroying, Operation
<1>20. ASSUME RetainHeldWorker PROVE Respects
  <2>1. row'.held # row.held => Idle /\ op' = op
    BY <1>0, <1>20, HoldUntouched DEF RetainHeldWorker, StopCall
  <2>2. op'.pc \in Destroying => op.pc \in Destroying \/ ~row.held
    BY <1>0, <1>20, NoOpType DEF RetainHeldWorker, StopCall, NoOp, Idle, Destroying, Operation
  <2>3. row.held /\ op.pc \notin Destroying => Kept
    BY <1>0, <1>20, <1>a, <1>b DEF RetainHeldWorker, StopCall, Destroying
  <2> QED  BY <2>1, <2>2, <2>3 DEF Respects
<1>21. ASSUME MarkStopped PROVE Respects
  <2>1. row'.held # row.held => Idle /\ op' = op
    <3>1. row' = UpdateWorkerStatus(row, "stopped", "none")
      BY <1>21 DEF MarkStopped, Mark
    <3>2. UpdateWorkerStatus(row, "stopped", "none").held = row.held
      BY <1>0 DEF Row, UpdateWorkerStatus
    <3> QED  BY <3>1, <3>2
  <2>2. op'.pc \in Destroying => op.pc \in Destroying \/ ~row.held
    BY <1>0, <1>21 DEF MarkStopped, Mark, FlyUnchanged, NoOp, Destroying
  <2>3. Kept
    BY <1>21, <1>a DEF MarkStopped, Mark, FlyUnchanged
  <2> QED  BY <2>1, <2>2, <2>3 DEF Respects
<1>22. ASSUME MarkDormant PROVE Respects
  <2>1. row'.held # row.held => Idle /\ op' = op
    BY <1>0, <1>22, HoldUntouched DEF MarkDormant, Mark, FlyUnchanged
  <2>2. op'.pc \in Destroying => op.pc \in Destroying \/ ~row.held
    BY <1>0, <1>22 DEF MarkDormant, Mark, FlyUnchanged, NoOp, Destroying
  <2>3. Kept
    BY <1>22, <1>a DEF MarkDormant, Mark, FlyUnchanged
  <2> QED  BY <2>1, <2>2, <2>3 DEF Respects
<1>23. ASSUME MarkProbing PROVE Respects
  <2>1. row'.held # row.held => Idle /\ op' = op
    BY <1>0, <1>23, HoldUntouched DEF MarkProbing, Mark, FlyUnchanged
  <2>2. op'.pc \in Destroying => op.pc \in Destroying \/ ~row.held
    BY <1>0, <1>23 DEF MarkProbing, Mark, FlyUnchanged, NoOp, Destroying
  <2>3. Kept
    BY <1>23, <1>a DEF MarkProbing, Mark, FlyUnchanged
  <2> QED  BY <2>1, <2>2, <2>3 DEF Respects
<1>24. ASSUME DestroyWorker PROVE Respects
  BY <1>0, <1>24, <1>a, <1>b, NoOpType, HoldUntouched
     DEF Respects, DestroyWorker, NoOp, Idle, Destroying, Operation
<1>25. ASSUME DestroyVolume PROVE Respects
  BY <1>0, <1>25, <1>a, <1>b, NoOpType, HoldUntouched
     DEF Respects, DestroyVolume, NoOp, Idle, Destroying, Operation
<1>26. ASSUME DestroyProvisioningResources PROVE Respects
  BY <1>0, <1>26, <1>a, <1>b, NoOpType, HoldUntouched
     DEF Respects, DestroyProvisioningResources, NoOp, Idle, Destroying, Operation
<1>27. ASSUME AbandonProvisioning PROVE Respects
  BY <1>0, <1>27, <1>a, <1>b, NoOpType, HoldUntouched
     DEF Respects, AbandonProvisioning, AdvanceProvisioning, FlyUnchanged, NoOp, Idle, Destroying, Operation
<1>28. ASSUME DestroyFailed PROVE Respects
  <2>1. row'.held # row.held => Idle /\ op' = op
    <3>1. row' = UpdateWorkerStatus(row, op.w.status, "other")
      BY <1>28 DEF DestroyFailed, Mark
    <3>2. UpdateWorkerStatus(row, op.w.status, "other").held = row.held
      BY <1>0 DEF Row, UpdateWorkerStatus
    <3> QED  BY <3>1, <3>2
  <2>2. op'.pc \in Destroying => op.pc \in Destroying \/ ~row.held
    BY <1>0, <1>28 DEF DestroyFailed, Mark, FlyUnchanged, NoOp, Destroying
  <2>3. Kept
    BY <1>28, <1>a DEF DestroyFailed, Mark, FlyUnchanged
  <2> QED  BY <2>1, <2>2, <2>3 DEF Respects
<1>29. ASSUME NEW t \in Targets, ReplaceWorker(t) PROVE Respects
  BY <1>0, <1>29, <1>a, <1>b, NoOpType, HoldUntouched
     DEF Respects, ReplaceWorker, NoOp, Idle, Destroying, Operation
<1>30. ASSUME ReplaceMachine PROVE Respects
  BY <1>0, <1>30, <1>a, <1>b, NoOpType, HoldUntouched
     DEF Respects, ReplaceMachine, NoOp, Idle, Destroying, Operation
<1>31. ASSUME ReplaceVolume PROVE Respects
  BY <1>0, <1>31, <1>a, <1>b, NoOpType, HoldUntouched
     DEF Respects, ReplaceVolume, VolumeThenCreate, NoOp, Idle, Destroying, Operation
<1>32. ASSUME CreateReplacement PROVE Respects
  BY <1>0, <1>32, <1>a, <1>b, NoOpType, HoldUntouched
     DEF Respects, CreateReplacement, CreateRecord, NoOp, Idle, Destroying, Operation
<1>33. ASSUME NEW t \in Targets, NEW drift \in BOOLEAN, ResumeDormantWorker(t, drift) PROVE Respects
  BY <1>0, <1>33, <1>a, <1>b, NoOpType, HoldUntouched
     DEF Respects, ResumeDormantWorker, NoOp, Idle, Destroying, Operation
<1>34. ASSUME ProbeDestroy PROVE Respects
  BY <1>0, <1>34, <1>a, <1>b, NoOpType, HoldUntouched
     DEF Respects, ProbeDestroy, NoOp, Idle, Destroying, Operation
<1>35. ASSUME ProbeRegister PROVE Respects
  BY <1>0, <1>35, <1>a, <1>b, NoOpType, HoldUntouched
     DEF Respects, ProbeRegister, NoOp, Idle, Destroying, Operation
<1>36. ASSUME ProbePost PROVE Respects
  BY <1>0, <1>36, <1>a, <1>b, NoOpType, HoldUntouched
     DEF Respects, ProbePost, PostMachine, NoOp, Idle, Destroying, Operation
<1>37. ASSUME ProbeBind PROVE Respects
  BY <1>0, <1>37, <1>a, <1>b, NoOpType, HoldUntouched
     DEF Respects, ProbeBind, NoOp, Idle, Destroying, Operation
<1>38. ASSUME ProbeSave PROVE Respects
  BY <1>0, <1>38, <1>a, <1>b, NoOpType, HoldUntouched
     DEF Respects, ProbeSave, FlyUnchanged, NoOp, Idle, Destroying, Operation
<1>39. ASSUME RecreateMachine PROVE Respects
  BY <1>0, <1>39, <1>a, <1>b, NoOpType, HoldUntouched
     DEF Respects, RecreateMachine, NoOp, Idle, Destroying, Operation
<1>40. ASSUME RecreateVolume PROVE Respects
  BY <1>0, <1>40, <1>a, <1>b, NoOpType, HoldUntouched
     DEF Respects, RecreateVolume, VolumeThenCreate, NoOp, Idle, Destroying, Operation
<1>41. ASSUME NEW m, NEW st, Heartbeat(m, st) PROVE Respects
  <2>1. row'.held # row.held => Idle /\ op' = op
    <3>1. row' = UpsertReported(row, m, machines[m].target, st)
      BY <1>41 DEF Heartbeat, ReportStep
    <3>2. UpsertReported(row, m, machines[m].target, st).held = row.held
      BY <1>0 DEF Row, UpsertReported
    <3> QED  BY <3>1, <3>2
  <2>2. op'.pc \in Destroying => op.pc \in Destroying \/ ~row.held
    BY <1>0, <1>41 DEF Heartbeat, ReportStep, FlyUnchanged, NoOp, Destroying
  <2>3. Kept
    BY <1>41, <1>a DEF Heartbeat, ReportStep, FlyUnchanged
  <2> QED  BY <2>1, <2>2, <2>3 DEF Respects
<1>42. ASSUME NEW m \in 1..Len(machines), NEW full \in BOOLEAN, WorkerEvent(m, full) PROVE Respects
  <2>1. row'.held # row.held => Idle /\ op' = op
    <3>1. UpdateVerificationState(UpsertReported(row, m, machines[m].target, "running"), FALSE).held = row.held
      BY <1>0 DEF Row, UpdateVerificationState, UpsertReported
    <3>2. UpsertFailed(row, m, machines[m].target).held = row.held
      BY <1>0 DEF Row, UpsertFailed
    <3> QED  BY <1>42, <3>1, <3>2, Zenon DEF WorkerEvent, ReportStep
  <2>2. op'.pc \in Destroying => op.pc \in Destroying \/ ~row.held
    BY <1>0, <1>42, NoOpType DEF WorkerEvent, ReportStep, FlyUnchanged, NoOp, Idle, Destroying, Operation
  <2>3. row.held /\ op.pc \notin Destroying => Kept
    BY <1>0, <1>42, <1>a, <1>b DEF WorkerEvent, ReportStep, FlyUnchanged, Destroying
  <2> QED  BY <2>1, <2>2, <2>3 DEF Respects
<1>43. ASSUME NEW m \in 1..Len(machines), NEW result, Verification(m, result) PROVE Respects
  <2>1. row'.held # row.held => Idle /\ op' = op
    <3>1. \A t, st, b : UpdateVerificationState(UpsertReported(row, m, t, st), b).held = row.held
      BY <1>0 DEF Row, UpdateVerificationState, UpsertReported
    <3> QED  BY <1>0, <1>43, <3>1, HoldUntouched DEF Verification
  <2>2. op'.pc \in Destroying => op.pc \in Destroying \/ ~row.held
    BY <1>0, <1>43, NoOpType DEF Verification, NoOp, Idle, Destroying, Operation
  <2>3. row.held /\ op.pc \notin Destroying => Kept
    BY <1>0, <1>43, <1>a, <1>b DEF Verification, Destroying
  <2> QED  BY <2>1, <2>2, <2>3 DEF Respects
<1>44. ASSUME ListStale PROVE Respects
  BY <1>0, <1>44, <1>a, <1>b, NoOpType, HoldUntouched
     DEF Respects, ListStale, FlyUnchanged, NoOp, Idle, Destroying, Operation
<1>45. ASSUME WriteStale PROVE Respects
  BY <1>0, <1>45, <1>a, <1>b, NoOpType, HoldUntouched
     DEF Respects, WriteStale, FlyUnchanged, NoOp, Idle, Destroying, Operation
<1>46. ASSUME NEW h \in BOOLEAN, HoldEvidence(h) PROVE Respects
  BY <1>0, <1>46, <1>a, <1>b, NoOpType, HoldUntouched
     DEF Respects, HoldEvidence, FlyUnchanged, NoOp, Idle, Destroying, Operation
<1>47. ASSUME NEW m \in 1..Len(machines), FlyStarts(m) PROVE Respects
  <2>1. row'.held # row.held => Idle /\ op' = op
    BY <1>0, <1>47, HoldUntouched DEF FlyStarts
  <2>2. op'.pc \in Destroying => op.pc \in Destroying \/ ~row.held
    BY <1>0, <1>47, NoOpType DEF FlyStarts, NoOp, Idle, Destroying, Operation
  <2>3. Kept
    BY <1>0, <1>47 DEF FlyStarts, FlyOK, Machine, Kept, LiveMachines
  <2> QED  BY <2>1, <2>2, <2>3 DEF Respects
<1>48. ASSUME NEW v \in 1..Len(volumes), FlyReaps(v) PROVE Respects
  <2>1. row'.held # row.held => Idle /\ op' = op
    BY <1>0, <1>48, HoldUntouched DEF FlyReaps
  <2>2. op'.pc \in Destroying => op.pc \in Destroying \/ ~row.held
    BY <1>0, <1>48, NoOpType DEF FlyReaps, NoOp, Idle, Destroying, Operation
  <2>3. Kept
    BY <1>0, <1>48 DEF FlyReaps, FlyOK, Volume, Kept, LiveMachines
  <2> QED  BY <2>1, <2>2, <2>3 DEF Respects
<1>49. ASSUME NEW c \in late, FlyAppliesLate(c) PROVE Respects
  <2>1. row'.held # row.held => Idle /\ op' = op
    BY <1>0, <1>49, HoldUntouched DEF FlyAppliesLate
  <2>2. op'.pc \in Destroying => op.pc \in Destroying \/ ~row.held
    BY <1>0, <1>49, NoOpType DEF FlyAppliesLate, NoOp, Idle, Destroying, Operation
  <2>3. Kept
    <3>1. c \in LateCreate
      BY <1>0, <1>49 DEF FlyOK
    <3>2. CASE c.kind = "volume"
      <4>1. NewVolume(c.name) \in Volume
        BY <3>1, <3>2 DEF LateCreate, NewVolume, Volume
      <4> QED  BY <1>0, <1>49, <3>2, <4>1, KeepsAll DEF FlyAppliesLate
    <3>3. CASE c.kind # "volume"
      <4>1. NewMachine(c.run, c.t, c.vol, "created") \in Machine
        BY <3>1, <3>3 DEF LateCreate, NewMachine, Machine
      <4> QED  BY <1>0, <1>49, <3>3, <4>1, KeepsAll DEF FlyAppliesLate
    <3> QED  BY <3>2, <3>3
  <2> QED  BY <2>1, <2>2, <2>3 DEF Respects
<1>50. ASSUME Crash PROVE Respects
  BY <1>0, <1>50, <1>a, <1>b, NoOpType, HoldUntouched
     DEF Respects, Crash, FlyUnchanged, NoOp, Idle, Destroying, Operation
<1>51. CASE UNCHANGED vars
  BY <1>a, <1>51 DEF vars, Respects
<1> QED
  BY <1>1, <1>2, <1>3, <1>4, <1>5, <1>6, <1>7, <1>8, <1>9, <1>10, <1>11, <1>12, <1>13, <1>14, <1>15, <1>16, <1>17, <1>18, <1>19, <1>20, <1>21, <1>22, <1>23, <1>24, <1>25, <1>26, <1>27, <1>28, <1>29, <1>30, <1>31, <1>32, <1>33, <1>34, <1>35, <1>36, <1>37, <1>38, <1>39, <1>40, <1>41, <1>42, <1>43, <1>44, <1>45, <1>46, <1>47, <1>48, <1>49, <1>50, <1>51
     DEF Next, Creation, Recovery, Teardown, Replacement, Resumption, Reporting, Monitor,
         Operator, Provider

\* "While the hold is set, no control-plane path destroys them", for every
\* operation, interleaving and bound: the hold is set under the worker lock, so
\* an operation that destroys has seen a row without it and still has the lock.
THEOREM HeldKept == Spec => HeldEvidenceKept
<1>1. Init => HeldInv
  <2>1. Init => op.pc = "idle"
    BY DEF Init, NoOp
  <2> QED  BY <2>1 DEF HeldInv, Destroying
<1>2. TypeOK /\ HeldInv /\ [Next]_vars => HeldInv'
  BY HeldStep DEF HeldInv, Respects, Idle, Destroying
<1>3. TypeOK /\ HeldInv /\ [Next]_vars =>
        [row.held => /\ \A m \in LiveMachines : machines'[m].state # "destroyed"
                     /\ \A v \in 1..Len(volumes) :
                           volumes[v].state = "created" => volumes'[v].state = "created"]_vars
  BY HeldStep DEF HeldInv, Respects, Kept
<1> QED  BY <1>1, <1>2, <1>3, TypeCorrect, PTL DEF Spec, HeldEvidenceKept
=============================================================================
