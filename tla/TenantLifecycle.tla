---------------------------- MODULE TenantLifecycle ----------------------------
(* The tenant lifecycle fixture (tenant_lifecycle*.go): one scripted run that     *)
(* creates, writes, retires and recreates tenant databases under one Litestream   *)
(* process, verifies whatever its ledger holds pending, and reports. Litestream   *)
(* is external and may be wrong in one way (flaw).                                *)
EXTENDS Naturals, Sequences, FiniteSets, SequencesExt

CONSTANTS Tenants       \* options.Tenants: tenants 0..Tenants-1

Runtime == Tenants - 1
VARIABLES mode, flaw,
          work,         \* the ledger: generation -> [pending, retired, attempt]
          sequence,     \* its attempt counter
          content, replica, expected,   \* generation -> version of its database, replica, snapshot
          files, reg, proc,             \* databases in the directory, registered ones, the process
          step, queue, errs,            \* the script, verifyPending's batch and whether it failed
          cancelled, interrupted, failures, status
tvars == <<mode, flaw, work, sequence, content, replica, expected, files, reg, proc, step, queue, errs, cancelled, interrupted, failures, status>>
lsvars == <<content, replica, expected, files, reg, proc>>

\* run's steps; static mode restarts the process wherever its directory changed.
Script ==
    LET restart == <<"stop", "start">> IN
    <<"start", "verify", "create">>
      \o (IF mode = "static" THEN <<"absence">> \o restart ELSE <<>>) \o <<"verify", "write", "verify", "retire">>
      \o (IF mode = "static" THEN <<"stop", "rename", "start">> ELSE <<"rename">>) \o <<"gone", "handles", "verify", "recreate">>
      \o (IF mode = "static" THEN restart ELSE <<>>) \o <<"verify">> \o restart \o <<"dirty", "verify", "gone", "recreated", "stop">>
At(s) == status = "running" /\ step <= Len(Script) /\ Script[step] = s

First(t) == <<t, 1>>
Old == First(0)
New == <<0, 2>>
Fresh == [pending |-> TRUE, retired |-> FALSE, attempt |-> 0]
Create(id) ==
    /\ work' = [i \in DOMAIN work \cup {id} |-> IF i = id THEN Fresh ELSE work[i]]
    /\ content' = [i \in DOMAIN content \cup {id} |-> IF i = id THEN 1 ELSE content[i]]
    /\ replica' = [i \in DOMAIN replica \cup {id} |-> IF i = id THEN 0 ELSE replica[i]]
    /\ expected' = [i \in DOMAIN expected \cup {id} |-> IF i = id THEN 0 ELSE expected[i]]
    /\ files' = files \cup {id}
MayCreate(id) == First(id[1]) \in DOMAIN work /\ id[2] = 2 => work[First(id[1])].retired

TInit ==
    /\ mode \in {"watch", "static"} /\ flaw \in {"none", "restart loses", "keeps retired", "misses created", "mixes generations"}
    /\ LET ids == {First(t) : t \in 0..(Tenants - 2)} IN
       /\ work = [i \in ids |-> Fresh] /\ content = [i \in ids |-> 1] /\ replica = [i \in ids |-> 0] /\ expected = [i \in ids |-> 0]
       /\ files = ids
    /\ sequence = 0 /\ reg = {} /\ proc = "none" /\ step = 1 /\ queue = <<>> /\ errs = FALSE
    /\ cancelled = FALSE /\ interrupted = FALSE /\ failures = 0 /\ status = "running"

--------------------------------------------------------------------------
(* Litestream.                                                               *)

Discover ==
    /\ proc = "up" /\ mode = "watch" /\ reg # files /\ flaw \notin {"misses created", "keeps retired"} /\ reg' = files
    /\ UNCHANGED <<mode, flaw, work, sequence, content, replica, expected, files, proc, step, queue, errs, cancelled, interrupted, failures, status>>
\* An interrupt ends the run's context, which kills the process.
Cancel ==
    /\ status = "running" /\ ~cancelled /\ cancelled' = TRUE /\ proc' = (IF proc = "up" THEN "killed" ELSE proc)
    /\ UNCHANGED <<mode, flaw, work, sequence, content, replica, expected, files, reg, step, queue, errs, interrupted, failures, status>>

--------------------------------------------------------------------------
(* The script.                                                               *)

Failed == IF failures < 2 THEN failures' = failures + 1 ELSE UNCHANGED failures
Goes == step' = step + 1 /\ UNCHANGED <<mode, flaw, sequence, queue, errs, cancelled, interrupted, failures, status>>
\* A step that returned an error: the scenario ends as interrupted or failed.
RunError ==
    /\ status' = "finishing" /\ errs' = TRUE
    /\ IF cancelled THEN interrupted' = TRUE /\ UNCHANGED failures ELSE UNCHANGED interrupted /\ Failed
    /\ UNCHANGED <<mode, flaw, work, sequence, lsvars, step, queue, cancelled>>

Start ==
    /\ At("start") /\ ~cancelled /\ proc' = "up" /\ Goes /\ UNCHANGED <<work, content, expected, files>>
    /\ reg' = (IF flaw = "keeps retired" THEN reg \cup files ELSE files)
    /\ replica' \in IF flaw = "restart loses" THEN {replica} \cup {[replica EXCEPT ![id] = 0] : id \in DOMAIN replica} ELSE {replica}
Stop ==
    /\ At("stop") /\ proc = "up" /\ proc' = "none" /\ Goes
    /\ UNCHANGED <<work, content, replica, expected, files, reg>>
CreateRuntime == At("create") /\ ~cancelled /\ Create(First(Runtime)) /\ Goes /\ UNCHANGED <<reg, proc>>
StaticAbsence == At("absence") /\ proc = "up" /\ First(Runtime) \notin reg /\ Goes /\ UNCHANGED <<work, lsvars>>
Write ==
    /\ At("write") /\ ~cancelled /\ Goes /\ UNCHANGED <<replica, expected, files, reg, proc>>
    /\ content' = [id \in DOMAIN content |-> IF work[id].retired THEN content[id] ELSE content[id] + 1]
    /\ work' = [id \in DOMAIN work |-> IF work[id].retired THEN work[id] ELSE [work[id] EXCEPT !.pending = TRUE]]
MayRetire(id) == id \in DOMAIN work /\ ~work[id].pending /\ ~work[id].retired
Retire ==
    /\ At("retire") /\ MayRetire(Old) /\ work' = [work EXCEPT ![Old].retired = TRUE, ![Old].pending = TRUE]
    /\ Goes /\ UNCHANGED lsvars
Rename == At("rename") /\ files' = files \ {Old} /\ Goes /\ UNCHANGED <<work, content, replica, expected, reg, proc>>
Gone == At("gone") /\ proc = "up" /\ Old \notin reg /\ Goes /\ UNCHANGED <<work, lsvars>>
\* checkRetiredHandles: descriptors follow the registry, or cannot be inspected.
Handles == At("handles") /\ Goes /\ UNCHANGED <<work, lsvars>>
Recreate == At("recreate") /\ ~cancelled /\ MayCreate(New) /\ Create(New) /\ Goes /\ UNCHANGED <<reg, proc>>
\* Mutant: only live generations are verified again after the restart.
DirtyLive == [id \in DOMAIN work |-> [work[id] EXCEPT !.pending = @ \/ ~work[id].retired]]
DirtyAll == [id \in DOMAIN work |-> [work[id] EXCEPT !.pending = TRUE]]
Dirty == At("dirty") /\ work' = DirtyAll /\ Goes /\ UNCHANGED lsvars
Recreated == At("recreated") /\ proc = "up" /\ New \in reg /\ Goes /\ UNCHANGED <<work, lsvars>>

\* A wait that never came true, a call that failed, a context that ended.
StepFails ==
    /\ status = "running" /\ step <= Len(Script) /\ Script[step] \notin {"verify", "dirty"}
    /\ \/ cancelled
       \/ At("start") \/ At("stop") \/ At("create") \/ At("write") \/ At("rename") \/ At("recreate")
       \/ At("absence") /\ First(Runtime) \in reg
       \/ At("gone") /\ Old \in reg
       \/ At("recreated") /\ New \notin reg
       \/ At("retire") /\ ~MayRetire(Old)
    /\ RunError

--------------------------------------------------------------------------
(* verifyPending.                                                            *)

Before(a, b) == work[a].attempt < work[b].attempt \/ (work[a].attempt = work[b].attempt /\ (a[1] < b[1] \/ (a[1] = b[1] /\ a[2] < b[2])))
Pending == {id \in DOMAIN work : work[id].pending}
List ==
    /\ At("verify") /\ queue = <<>> /\ Pending # {} /\ queue' = SetToSortSeq(Pending, Before)
    /\ UNCHANGED <<mode, flaw, work, sequence, lsvars, step, errs, cancelled, interrupted, failures, status>>
\* The end of the batch.
Popped ==
    /\ queue' = Tail(queue) /\ UNCHANGED <<mode, flaw, cancelled>>
    /\ IF Len(queue) > 1 THEN UNCHANGED <<step, status>>
       ELSE step' = step + 1 /\ status' = IF errs' THEN "finishing" ELSE status
Attempted(id, passed) ==
    /\ sequence' = sequence + 1
    /\ work' = [work EXCEPT ![id].attempt = sequence + 1, ![id].pending = IF passed THEN FALSE ELSE @]
\* A retried request leaves its failure behind.
Transient ==
    /\ At("verify") /\ queue # <<>> /\ ~cancelled /\ ~work[Head(queue)].retired /\ failures = 0 /\ failures' = 1
    /\ UNCHANGED <<mode, flaw, work, sequence, lsvars, step, queue, errs, cancelled, interrupted, status>>
Restored(id) == IF flaw = "mixes generations" /\ id[2] = 2 THEN 0 ELSE replica'[id]
\* verify: a live generation is discovered and synced and its snapshot taken; every one is restored and compared.
Verify(id) ==
    /\ IF work[id].retired THEN UNCHANGED <<replica, expected>>
       ELSE /\ id \in reg /\ proc = "up" /\ replica' = [replica EXCEPT ![id] = content[id]]
            /\ expected' = [expected EXCEPT ![id] = content[id]]
    /\ UNCHANGED <<content, files, reg, proc>>
VerifyPasses ==
    /\ At("verify") /\ queue # <<>> /\ ~cancelled
    /\ LET id == Head(queue) IN Verify(id) /\ Restored(id) = expected'[id] /\ Attempted(id, TRUE)
    /\ UNCHANGED <<errs, interrupted, failures>> /\ Popped
VerifyFails ==
    /\ At("verify") /\ queue # <<>> /\ ~cancelled
    /\ LET id == Head(queue) IN
       /\ \/ Verify(id) /\ Restored(id) # expected'[id]
          \/ ~work[id].retired /\ id \notin reg /\ UNCHANGED lsvars
       /\ Attempted(id, FALSE)
    /\ errs' = TRUE /\ Failed /\ UNCHANGED interrupted /\ Popped
\* The interrupt arrived while this one was verified: it counts as attempted; the rest is never scheduled.
VerifyInterrupted ==
    /\ At("verify") /\ queue # <<>> /\ cancelled /\ interrupted' = TRUE /\ errs' = TRUE
    /\ \/ Attempted(Head(queue), FALSE)
       \/ UNCHANGED <<work, sequence>>
    /\ queue' = <<>> /\ status' = "finishing" /\ UNCHANGED <<mode, flaw, lsvars, step, cancelled, failures>>

--------------------------------------------------------------------------
(* finish.                                                                   *)

\* Mutant: failures that a retry got over are forgotten.
VerdictOf(failed, bad) == IF bad THEN "failed" ELSE IF interrupted THEN "incomplete" ELSE "passed"
Verdict(failed, bad) == IF interrupted /\ failed = 0 THEN "incomplete" ELSE IF bad \/ failed > 0 THEN "failed" ELSE "passed"
\* Stopping a process the cancelled context has killed reports the kill as a failure.
Finish ==
    /\ \/ status = "finishing"
       \/ status = "running" /\ step > Len(Script)
    /\ \E incidents \in IF flaw = "none" THEN {FALSE} ELSE BOOLEAN :      \* reviewLog
       LET failed == failures + (IF proc = "killed" THEN 1 ELSE 0) + (IF incidents THEN 1 ELSE 0)
       IN  failures' = failed /\ status' = Verdict(failed, errs)
    /\ proc' = "none" /\ UNCHANGED <<mode, flaw, work, sequence, content, replica, expected, files, reg, step, queue, errs, cancelled, interrupted>>

TNext ==
    \/ Discover \/ Cancel \/ Start \/ Stop \/ CreateRuntime \/ StaticAbsence \/ Write \/ Retire \/ Rename \/ Gone \/ Handles
    \/ Recreate \/ Dirty \/ Recreated \/ StepFails \/ List \/ Transient \/ VerifyPasses \/ VerifyFails \/ VerifyInterrupted \/ Finish

--------------------------------------------------------------------------
\* verifyPending: a run passes only on a right Litestream: every generation, the retired one included,
\* restores what it held after the last restart, and only live ones are registered.
TenantPassEarned ==
    status = "passed" =>
        /\ DOMAIN work = {First(t) : t \in 0..(Tenants - 1)} \cup {New}
        /\ \A id \in DOMAIN work : ~work[id].pending /\ replica[id] = content[id] /\ (id \in reg <=> ~work[id].retired)
        /\ flaw # "mixes generations"
\* finish: a failure that was seen is never talked away by a retry that succeeded.
FailuresKept == status = "passed" => failures = 0
=============================================================================
