------------------------------ MODULE MCWorker -------------------------------
(* The components of the worker and of the rigs, in small instances. The variable part *)
(* names the one that runs, its variables are the slots x1 .. x18; the slots it does    *)
(* not use stay at 0.                                                                   *)
(*   run          the worker process and its Litestream *)
(*   manydb       many databases and their written set *)
(*   ltx          the coverage check of the replica's files *)
(*   load         the load process, paused, resumed and stopped *)
(*   shape        the WAL a reset check builds *)
(*   verify       a verification cycle *)
(*   vfs          the reads through the VFS *)
(*   follow       the follower across snapshots *)
(*   outbox       churn errors from the outbox to the report *)
(*   coverage     verifications and runtime coverage of a run *)
(*   tenants      the tenant rig *)
(*   recovery     the recovery rig *)
(*   upgrade      the upgrade rig *)
(*   lane         the switch of builds in a gate lane *)
(*   proxy        the S3 fault proxy *)
(*   disk         the disk-full monitor *)
(*   churn        the churn engine *)
(*   pausers      the full-text load and the replay under a pause *)
(*   profiles     the capture and upload of profiles *)
EXTENDS Integers, TLC

VARIABLES part, x1, x2, x3, x4, x5, x6, x7, x8, x9, x10, x11, x12, x13, x14, x15, x16, x17, x18
slots == <<part, x1, x2, x3, x4, x5, x6, x7, x8, x9, x10, x11, x12, x13, x14, x15, x16, x17, x18>>

WR == INSTANCE WorkerRun WITH MaxProcs <- 3, MaxCycles <- 2, MaxCrashes <- 1, phase <- x1, cause <- x2,
        told <- x3, cur <- x4, proc <- x5, watching <- x6, pending <- x7, killing <- x8, gate <- x9,
        paused <- x10, pc <- x11, main <- x12, back <- x13, downtime <- x14, cycles <- x15, crashes <- x16
MD == INSTANCE ManyDB WITH NumDatabases <- 2, Writers <- {1, 2}, Limit <- 1, MaxWrites <- 3, MaxFaults <- 1,
        MaxCrashes <- 1, changed <- x1, same <- x2, dirty <- x3, file <- x4, maybe <- x5, writer <- x6,
        paused <- x7, vpc <- x8, targets <- x9, lastAttempt <- x10, unverified <- x11, writes <- x12,
        faults <- x13, crashes <- x14
LC == INSTANCE LTXCoverage WITH MaxTXID <- 3, MaxLosses <- 1, MaxSnapshots <- 2, replica <- x1, top <- x2,
        lost <- x3, cpc <- x4, unread <- x5, seen <- x6, first <- x7, verdict <- x8, losses <- x9
LO == INSTANCE LoadSupervisor WITH MaxProcs <- 3, MaxCalls <- 4, proc <- x1, intr <- x2, known <- x3,
        exited <- x4, paused <- x5, stopped <- x6, resumeCh <- x7, woken <- x8, spc <- x9, sawStopped <- x10,
        waiting <- x11, cancelled <- x12, procs <- x13, calls <- x14
WS == INSTANCE WALShape WITH Depth <- 2, TargetResets <- 2, MinResets <- 1, MaxGens <- 3, MaxDrains <- 1,
        MaxSnapshots <- 1, slots <- x1, hdr <- x2, committed <- x3, written <- x4, tx <- x5, backfilled <- x6,
        paused <- x7, pc <- x8, k <- x9, drains <- x10, obs <- x11, l9 <- x12, l9Before <- x13, defect <- x14,
        layout <- x15, verdict <- x16
VC == INSTANCE VerifyCycle WITH MaxTX <- 4, Attempts <- 2, hist <- x1, rep <- x2, lock <- x3, paused <- x4,
        faulty <- x5, vpc <- x6, mode <- x7, attempt <- x8, syncTXID <- x9, marker <- x10, boundary <- x11,
        source <- x12, restored <- x13, plan <- x14, stage <- x15, status <- x16
VF == INSTANCE VFSCheck WITH MaxTX <- 3, MaxCycles <- 2, Repeats <- 1, hist <- x1, faulty <- x2, pauses <- x3,
        holds <- x4, sess <- x5, spc <- x6, first <- x7, expected <- x8, syncTXID <- x9, repeat <- x10,
        drift <- x11, after <- x12, vpc <- x13, boundary <- x14, primary <- x15, hydrated <- x16, cycles <- x17,
        results <- x18
FO == INSTANCE FollowCheck WITH MaxTX <- 3, MaxSnaps <- 3, MaxCycles <- 4, tx <- x1, l9 <- x2, snaps <- x3,
        proc <- x4, pinned <- x5, fpos <- x6, faithful <- x7, follow <- x8, fpc <- x9, boundary <- x10,
        cycles <- x11, innocent <- x12, credit <- x13, result <- x14
RO == INSTANCE RunEvidence WITH OutboxLimit <- 1, MaxErrors <- 2, MaxEpochs <- 2, MaxBeats <- 2, MaxRecords <- 4,
        MaxLost <- 1, MaxVerifs <- 0, MinSpan <- 1, MaxGap <- 1, clock <- x1, proc <- x2, outbox <- x3,
        upload <- x4, beats <- x5, expected <- x6, runtime <- x7, events <- x8, verifs <- x9, lost <- x10
RC == INSTANCE RunEvidence WITH OutboxLimit <- 1, MaxErrors <- 0, MaxEpochs <- 2, MaxBeats <- 2, MaxRecords <- 2,
        MaxLost <- 0, MaxVerifs <- 2, MinSpan <- 1, MaxGap <- 1, clock <- x1, proc <- x2, outbox <- x3,
        upload <- x4, beats <- x5, expected <- x6, runtime <- x7, events <- x8, verifs <- x9, lost <- x10
TL == INSTANCE TenantLifecycle WITH Tenants <- 2, mode <- x1, flaw <- x2, work <- x3, sequence <- x4,
        content <- x5, replica <- x6, expected <- x7, files <- x8, reg <- x9, proc <- x10, step <- x11,
        queue <- x12, errs <- x13, cancelled <- x14, interrupted <- x15, failures <- x16, status <- x17
QR == INSTANCE RecoveryRig WITH flaw <- x1, caps <- x2, committed <- x3, confirmed <- x4, replicated <- x5,
        target <- x6, repl <- x7, local <- x8, step <- x9, loop <- x10, engaged <- x11, attempts <- x12,
        status <- x13
UR == INSTANCE UpgradeRig WITH Flaws <- SUBSET {"candidate loses", "rollback loses", "baseline loses"},
        mode <- x1, rollback <- x2, reuse <- x3, flaw <- x4, aged <- x5, db <- x6, replica <- x7, seal <- x8,
        checks <- x9, upc <- x10, verdict <- x11
UL == INSTANCE UpgradeLane WITH Images <- {"a", "b"}, Attempts <- 2, MaxTX <- 2, MaxRestarts <- 2,
        MaxFaults <- 2, delete <- x1, image <- x2, file <- x3, maybe <- x4, pc <- x5, state <- x6, tries <- x7,
        target <- x8, build <- x9, ran <- x10, l9 <- x11, tx <- x12, recorded <- x13, purged <- x14,
        doubt <- x15, restarts <- x16, faults <- x17
FP == INSTANCE FaultProxy WITH Keys <- {"a", "b"}, Slots <- {1, 2}, FailFirst <- 1, MaxFailures <- 2,
        MaxKeys <- 1, MaxRequests <- 3, MaxCycles <- 2, mode <- x1, required <- x2, up <- x3, attempts <- x4,
        total <- x5, observedGET <- x6, observedRange <- x7, puts <- x8, req <- x9, sent <- x10, cycle <- x11,
        cycles <- x12, result <- x13, injected <- x14, perKey <- x15, drops <- x16, confirmed <- x17
DF == INSTANCE DiskFull WITH Window <- 2, Timeout <- 2, MaxTX <- 3, MaxTicks <- 5, MaxPIDs <- 2, space <- x1,
        reserve <- x2, dbTXID <- x3, replicated <- x4, staged <- x5, metric <- x6, pid <- x7, signalled <- x8,
        np <- x9, event <- x10, ticks <- x11, quiet <- x12, since <- x13, blind <- x14
CL == INSTANCE ChurnLoad WITH Keys <- {1, 2}, Workers <- {"x", "y"}, MaxOps <- 9, MaxPauses <- 1, jobs <- x1,
        receipts <- x2, paused <- x3, next <- x4, group <- x5, tpc <- x6, worker <- x7, caller <- x8,
        cancelled <- x9, pauses <- x10
PA == INSTANCE Pausers WITH Rows <- 2, Timeouts <- TRUE, MaxPauses <- 2, MaxInserts <- 3, MaxEnds <- 1,
        caller <- x1, failing <- x2, ftsPaused <- x3, fpc <- x4, ftsFailed <- x5, running <- x6, paused <- x7,
        ack <- x8, gen <- x9, rpc <- x10, back <- x11, waits <- x12, row <- x13, pauses <- x14, inserts <- x15,
        ends <- x16
PU == INSTANCE ProfileUpload WITH Files <- 1..3, Baselines <- {1}, Bad <- {2}, Keep <- 1, Limit <- 3, Batch <- 2,
        MaxFaults <- 2, MaxCrashes <- 1, art <- x1, rec <- x2, avail <- x3, sent <- x4, order <- x5, cpc <- x6,
        cur <- x7, queue <- x8, upc <- x9, store <- x10, manifests <- x11, next <- x12, faults <- x13,
        crashes <- x14

\* The slots above the n-th are not used.
Off(n) ==
    /\ IF n < 6 THEN x6 = 0 ELSE TRUE
    /\ IF n < 7 THEN x7 = 0 ELSE TRUE
    /\ IF n < 8 THEN x8 = 0 ELSE TRUE
    /\ IF n < 9 THEN x9 = 0 ELSE TRUE
    /\ IF n < 10 THEN x10 = 0 ELSE TRUE
    /\ IF n < 11 THEN x11 = 0 ELSE TRUE
    /\ IF n < 12 THEN x12 = 0 ELSE TRUE
    /\ IF n < 13 THEN x13 = 0 ELSE TRUE
    /\ IF n < 14 THEN x14 = 0 ELSE TRUE
    /\ IF n < 15 THEN x15 = 0 ELSE TRUE
    /\ IF n < 16 THEN x16 = 0 ELSE TRUE
    /\ IF n < 17 THEN x17 = 0 ELSE TRUE
    /\ IF n < 18 THEN x18 = 0 ELSE TRUE
Same(n) ==
    /\ IF n < 6 THEN x6' = 0 ELSE TRUE
    /\ IF n < 7 THEN x7' = 0 ELSE TRUE
    /\ IF n < 8 THEN x8' = 0 ELSE TRUE
    /\ IF n < 9 THEN x9' = 0 ELSE TRUE
    /\ IF n < 10 THEN x10' = 0 ELSE TRUE
    /\ IF n < 11 THEN x11' = 0 ELSE TRUE
    /\ IF n < 12 THEN x12' = 0 ELSE TRUE
    /\ IF n < 13 THEN x13' = 0 ELSE TRUE
    /\ IF n < 14 THEN x14' = 0 ELSE TRUE
    /\ IF n < 15 THEN x15' = 0 ELSE TRUE
    /\ IF n < 16 THEN x16' = 0 ELSE TRUE
    /\ IF n < 17 THEN x17' = 0 ELSE TRUE
    /\ IF n < 18 THEN x18' = 0 ELSE TRUE

MCInit ==
    \/ part = "run" /\ WR!RInit /\ Off(16)
    \/ part = "manydb" /\ MD!DInit /\ Off(14)
    \/ part = "ltx" /\ LC!CInit /\ Off(9)
    \/ part = "load" /\ LO!SInit /\ Off(14)
    \/ part = "shape" /\ WS!SInit /\ Off(16)
    \/ part = "verify" /\ VC!VInit /\ Off(16)
    \/ part = "vfs" /\ VF!RInit /\ Off(18)
    \/ part = "follow" /\ FO!FInit /\ Off(14)
    \/ part = "outbox" /\ RO!RInit /\ Off(10)
    \/ part = "coverage" /\ RC!RInit /\ Off(10)
    \/ part = "tenants" /\ TL!TInit /\ Off(17)
    \/ part = "recovery" /\ QR!QInit /\ Off(13)
    \/ part = "upgrade" /\ UR!UInit /\ Off(11)
    \/ part = "lane" /\ UL!LInit /\ Off(17)
    \/ part = "proxy" /\ FP!PInit /\ Off(17)
    \/ part = "disk" /\ DF!FInit /\ Off(14)
    \/ part = "churn" /\ CL!CInit /\ Off(10)
    \/ part = "pausers" /\ PA!PInit /\ Off(16)
    \/ part = "profiles" /\ PU!EInit /\ Off(14)
MCNext ==
    /\ part' = part
    /\ \/ part = "run" /\ WR!RNext /\ Same(16)
       \/ part = "manydb" /\ MD!DNext /\ Same(14)
       \/ part = "ltx" /\ LC!CNext /\ Same(9)
       \/ part = "load" /\ LO!SNext /\ Same(14)
       \/ part = "shape" /\ WS!SNext /\ Same(16)
       \/ part = "verify" /\ VC!VNext /\ Same(16)
       \/ part = "vfs" /\ VF!RNext /\ Same(18)
       \/ part = "follow" /\ FO!FNext /\ Same(14)
       \/ part = "outbox" /\ RO!RNext /\ Same(10)
       \/ part = "coverage" /\ RC!RNext /\ Same(10)
       \/ part = "tenants" /\ TL!TNext /\ Same(17)
       \/ part = "recovery" /\ QR!QNext /\ Same(13)
       \/ part = "upgrade" /\ UR!UNext /\ Same(11)
       \/ part = "lane" /\ UL!LNext /\ Same(17)
       \/ part = "proxy" /\ FP!PNext /\ Same(17)
       \/ part = "disk" /\ DF!FNext /\ Same(14)
       \/ part = "churn" /\ CL!CNext /\ Same(10)
       \/ part = "pausers" /\ PA!PNext /\ Same(16)
       \/ part = "profiles" /\ PU!ENext /\ Same(14)

--------------------------------------------------------------------------

\* The Litestream process of a run: one at a time, watched, none left, and blamed only for its
\* own end.
OneProcessWatched ==
    \* ensureLitestreamForCheck: "A second process is never started next to a live one."
    /\ part = "run" => WR!OneLitestream
    \* Run's deferred calls: a run that ended left no Litestream behind, although the check may
    \* have been restarting it.
    /\ part = "run" => WR!NothingLeft
    \* monitorProcess: the run fails because of Litestream only when a process ended on its
    \* own.
    /\ part = "run" => WR!BlamedRightly
    \* ensureLitestreamForCheck: after a cycle that restarted Litestream, its exit would be
    \* noticed: the process is not taken for one that was asked to stop, unless the run itself
    \* is being torn down.
    /\ part = "run" => WR!StillWatched

\* A pause that has returned holds, for every load there is, and ends with the one who asked
\* for it.
PausesHold ==
    \* checkGate: nobody leaves the load paused: it is paused only by the holder of the gate.
    /\ part = "run" => WR!PausedByHolder
    \* Pause and the commit in supervise: while the load is paused no process writes, the one
    \* the supervisor has started and not yet committed excepted; Stop continues the process to
    \* interrupt it.
    /\ part = "load" => LO!PausedIsQuiet
    \* Engine.Pause: from its return until Resume no transaction of the workload runs, although
    \* an operation was already on its way to a worker.
    /\ part = "churn" => CL!ChurnQuiet
    \* pauseLoad: from its return until resumeLoad neither workload writes, although a pause
    \* may meet an engine that still wakes from the one before, that ends or that is started
    \* again.
    /\ part = "pausers" => PA!HeldQuiet

\* What the worker still owes - a database to verify, an error to report, a profile to send, a
\* boundary to restore - survives failed writes and restarts.
NothingForgotten ==
    \* markDurableWrite: a committed row is never forgotten before its database was verified:
    \* the database is in the written set of the tracker, and of whatever file a restart may
    \* find.
    /\ part = "manydb" => MD!NoWriteForgotten
    \* flushRunEvidence: an error of the workload is in the outbox until the control plane has
    \* it.
    /\ part = "outbox" => RO!NothingForgotten
    /\ part = "coverage" => RC!NothingForgotten
    \* pruneLocalProfiles: a captured artifact is in the directory or in the store, whatever
    \* was pruned, could not be saved or sent, and wherever the worker ended.
    /\ part = "profiles" => PU!ArtifactKept
    \* retryPendingPhase: a record in the store never stands for an artifact that is not there.
    /\ part = "profiles" => PU!ManifestLast
    \* recordUpgradePreTXID: the candidate keeps restoring the newest boundary of the base that
    \* was recorded, although the lane's own copy of the state is older than the file.
    /\ part = "lane" => UL!RestoresNewest

\* A Litestream that does its work is never failed by how the checks interleave with the load,
\* with retention and with each other.
NoFalseAlarm ==
    \* runLTXCoverageCheck: what the two listings saw is never blamed on a replica that lost
    \* nothing, whatever compaction and retention did between the reads of two levels.
    /\ part = "ltx" => LC!HealthyNeverFails
    \* RunCycle: a Litestream that replicates and restores faithfully never fails the
    \* comparison, the marker check or the restore through the harness's own pausing and
    \* resuming.
    /\ part = "verify" => VC!NoFalseAlarm
    \* vfsReadResult and vfsSnapshotResult: a VFS that serves its transactions faithfully never
    \* fails either check, although the two, the ticker and the verifier's pauses interleave
    \* and sessions are used again.
    /\ part = "vfs" => VF!VFSNoFalseAlarm
    \* runFollowCheck: a follow process that kept running, kept up and applied rightly is never
    \* failed: an unusable listing is pending, a locked copy inconclusive.
    /\ part = "follow" => FO!FollowBlame
    \* walResetResult: the verdict speaks of what the restart replicated: a cycle passes only
    \* without a defect, and fails only with one.
    /\ part = "shape" => WS!VerdictHonest

\* A check that passes has seen what it is about.
PassesEarned ==
    \* ltxCoverageResult: a transaction that was lost before the check began fails it, unless
    \* retention has passed it: the oldest snapshot is above it, or nothing older is left.
    /\ part = "ltx" => LC!LossIsSeen
    \* computeLTXCoverage: the scan over the sorted files finds exactly the judged transactions
    \* inside the window that no file covers.
    /\ part = "ltx" => LC!HolesExact
    \* captureVerificationBoundary: a pass covers everything: the rows compared are those of
    \* the boundary, no transaction the cycle's sync saw is beyond it, and the restored
    \* database is not behind it.
    /\ part = "verify" => VC!PassIsEarned
    \* settledHydrationActive: a snapshot check passes only on evidence: the reader had applied
    \* an update the first read could not see, and was still serving hydrated reads.
    /\ part = "vfs" => VF!VFSPassProves
    \* l9Advanced: every pass is earned by an L9 snapshot of its own, taken since the listing
    \* the session counts from: however retention shrinks the level, no snapshot is credited
    \* twice.
    /\ part = "follow" => FO!PassPerSnapshot
    \* shapeEvidence: a cycle that is judged really had the shape it is about: when Litestream
    \* started, no transaction was open and every frame from the last generation's end to the
    \* saved position was of the saved generation, whatever the load wrote between the samples.
    /\ part = "shape" => WS!ShapeWasThere
    \* observeDiskFullRecovery: "replicated again after the harness freed reserved disk space"
    \* is said only when a txid was replicated after that, as long as the snapshot on which the
    \* reserve was freed had the txids.
    /\ part = "disk" => DF!RecoveredHonest
    \* applyS3FaultProxyVerificationGuards: a cycle of a fault profile is reported passed only
    \* when a fault was injected after its own reset: neither the last cycle's faults nor a
    \* bypassed proxy can vouch for it.
    /\ part = "proxy" => FP!GuardHonest

\* The local rigs report a pass only on a Litestream that restores everything, whichever step
\* failed or was tried again.
RigsHonest ==
    \* verifyPending: a run passes only on a right Litestream: every generation, the retired
    \* one included, restores what it held after the last restart, and only live ones are
    \* registered.
    /\ part = "tenants" => TL!TenantPassEarned
    \* finish: a failure that was seen is never talked away by a retry that succeeded.
    /\ part = "tenants" => TL!FailuresKept
    \* Verdict (recovery): a run passes only when every fault really happened and none of its
    \* restores came back short of what an earlier restore had confirmed, the last one from the
    \* replica alone.
    /\ part = "recovery" => QR!RecoveryPassEarned
    \* Verdict (upgrade): an upgrade passes only when both arms and the rollback were continued
    \* from the aged fixture the seal describes and all came back whole: a candidate that
    \* damages what the baseline wrote, or writes what the baseline cannot read, never passes.
    /\ part = "upgrade" => UR!UpgradePassEarned

\* The upgrade lane goes one way, wherever the worker is restarted.
LaneOneWay ==
    \* upgradeLaneState: a restart "after the switch never runs the base build against
    \* candidate- written state", nor builds of another image, wherever it happens.  (A
    \* directory sync that failed and is followed by a power loss can bring the old file back.)
    /\ part = "lane" => UL!OneWay
    \* runUpgradeLane: with the purge asked for, the candidate runs only on a replica free of
    \* the base's level-9 objects, its own are never deleted, and the first snapshot noted is
    \* its own.
    /\ part = "lane" => UL!CandidateClean

\* Counters that are read by others count what happened, each thing once.
CountedRight ==
    \* buildRunReliability: duplicated, reordered and overtaken reports count every workload
    \* error once: as many as the highest counter that arrived in each epoch, and one per
    \* failed verification.
    /\ part = "outbox" => RO!CountedOnce
    /\ part = "coverage" => RC!CountedOnce
    \* applyRuntimeEvidence: an honest worker's counters never look reset, however its
    \* heartbeats overtake each other; a process that was replaced between two of them is never
    \* a clean run.
    /\ part = "outbox" => RO!ResetsAreReal
    /\ part = "coverage" => RC!ResetsAreReal
    \* recordFault: the faults of a cycle stay within the budget, and a request that is retried
    \* gets through: its key fails at most FailFirst times unless the attempt map was dropped.
    /\ part = "proxy" => FP!FaultBudget
    \* recordUpload: the meter counts every object whose creation the bucket confirmed, and no
    \* other.
    /\ part = "proxy" => FP!MeterExact
    \* Validate: whatever order the workers apply the operations in, and whichever are rolled
    \* back or dropped, exactly the finished jobs have a receipt, and a job claimed or done was
    \* attempted.
    /\ part = "churn" => CL!ChurnValid

\* A stall under disk pressure is reported only when there was one.
StallHonest == [][
    \* observeDiskPressureNoProgress: a stall is reported only after nothing was replicated for
    \* the whole window, and before Litestream signalled the full disk itself.
    /\ part = "disk" => DF!StallHonest
    ]_slots
==============================================================================
