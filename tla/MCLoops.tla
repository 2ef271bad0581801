------------------------------- MODULE MCLoops -------------------------------
(* The loops of the control plane and of the worker that must get somewhere, in small *)
(* instances. The variable part names the one that runs, its variables are the slots   *)
(* x1 .. x16; the slots it does not use stay at 0.                                     *)
(*   provision    creation, recovery, reports and the stale monitor *)
(*   gc           the volume garbage collector *)
(*   alert        the dormant fleet alert *)
(*   pr           webhooks and the poller that retire a PR *)
(*   run          the worker process and its Litestream *)
(*   manydb       many databases verified in batches *)
(*   load         the load process, paused, resumed and stopped *)
(*   reader       the reader that pins a transaction *)
(*   pausers      the full-text load and the replay under a pause *)
(*   profiles     the upload of profiles *)
EXTENDS Integers, TLC

CONSTANTS w1, d1

VARIABLES part, x1, x2, x3, x4, x5, x6, x7, x8, x9, x10, x11, x12, x13, x14, x15, x16
slots == <<part, x1, x2, x3, x4, x5, x6, x7, x8, x9, x10, x11, x12, x13, x14, x15, x16>>

PV == INSTANCE Provisioning WITH Targets <- {d1}, MaxRuns <- 2, MaxMachines <- 2, MaxVolumes <- 2,
        MaxCrashes <- 2, Ops <- {"create", "recover", "report", "stale"}, Legacy <- TRUE, LateCreates <- FALSE,
        StaleLists <- FALSE, LateReports <- TRUE, row <- x1, att <- x2, exp <- x3, machines <- x4, volumes <- x5,
        late <- x6, op <- x7, lists <- x8, volPosts <- x9, machPosts <- x10, crashes <- x11
GC == INSTANCE VolumeGC WITH Workers <- {}, Initial <- 1, Maximum <- 1, MaxFaults <- 1, MaxCrashes <- 1,
        volume <- x1, owners <- x2, heldBy <- x3, stored <- x4, attempts <- x5, loaded <- x6, sweep <- x7,
        asked <- x8, faults <- x9, crashes <- x10
FA == INSTANCE FleetAlert WITH Workers <- {w1}, MaxTime <- 3, Threshold <- 1, MaxCrashes <- 1, time <- x1,
        fleet <- x2, alerts <- x3, watch <- x4, waking <- x5, posting <- x6, posts <- x7, crashes <- x8
PR == INSTANCE PRRetirement WITH Numbers <- {1, 2}, Repos <- {"home"}, Home <- "home", Allowlist <- {"home"},
        MaxAttempts <- 2, MaxChanges <- 2, MaxFaults <- 2, MaxTasks <- 1, upstream <- x1, sources <- x2,
        hooks <- x3, tasks <- x4, poll <- x5, limited <- x6, ended <- x7, changes <- x8, faults <- x9
WR == INSTANCE WorkerRun WITH MaxProcs <- 2, MaxCycles <- 1, MaxCrashes <- 1, phase <- x1, cause <- x2,
        told <- x3, cur <- x4, proc <- x5, watching <- x6, pending <- x7, killing <- x8, gate <- x9,
        paused <- x10, pc <- x11, main <- x12, back <- x13, downtime <- x14, cycles <- x15, crashes <- x16
MD == INSTANCE ManyDB WITH NumDatabases <- 3, Writers <- {1}, Limit <- 1, MaxWrites <- 2, MaxFaults <- 0,
        MaxCrashes <- 0, changed <- x1, same <- x2, dirty <- x3, file <- x4, maybe <- x5, writer <- x6,
        paused <- x7, vpc <- x8, targets <- x9, lastAttempt <- x10, unverified <- x11, writes <- x12,
        faults <- x13, crashes <- x14
LO == INSTANCE LoadSupervisor WITH MaxProcs <- 3, MaxCalls <- 4, proc <- x1, intr <- x2, known <- x3,
        exited <- x4, paused <- x5, stopped <- x6, resumeCh <- x7, woken <- x8, spc <- x9, sawStopped <- x10,
        waiting <- x11, cancelled <- x12, procs <- x13, calls <- x14
PI == INSTANCE PinnedReader WITH MaxCalls <- 4, paused <- x1, signal <- x2, chan <- x3, ppc <- x4, waiting <- x5,
        seen <- x6, calls <- x7, stopped <- x8
PA == INSTANCE Pausers WITH Rows <- 0, Timeouts <- FALSE, MaxPauses <- 2, MaxInserts <- 3, MaxEnds <- 1,
        caller <- x1, failing <- x2, ftsPaused <- x3, fpc <- x4, ftsFailed <- x5, running <- x6, paused <- x7,
        ack <- x8, gen <- x9, rpc <- x10, back <- x11, waits <- x12, row <- x13, pauses <- x14, inserts <- x15,
        ends <- x16
PU == INSTANCE ProfileUpload WITH Files <- 1..3, Baselines <- {}, Bad <- {1, 2}, Keep <- 1, Limit <- 4,
        Batch <- 1, MaxFaults <- 0, MaxCrashes <- 0, art <- x1, rec <- x2, avail <- x3, sent <- x4, order <- x5,
        cpc <- x6, cur <- x7, queue <- x8, upc <- x9, store <- x10, manifests <- x11, next <- x12, faults <- x13,
        crashes <- x14

\* The slots above the n-th are not used.
Off(n) ==
    /\ IF n < 9 THEN x9 = 0 ELSE TRUE
    /\ IF n < 10 THEN x10 = 0 ELSE TRUE
    /\ IF n < 11 THEN x11 = 0 ELSE TRUE
    /\ IF n < 12 THEN x12 = 0 ELSE TRUE
    /\ IF n < 13 THEN x13 = 0 ELSE TRUE
    /\ IF n < 14 THEN x14 = 0 ELSE TRUE
    /\ IF n < 15 THEN x15 = 0 ELSE TRUE
    /\ IF n < 16 THEN x16 = 0 ELSE TRUE
Same(n) ==
    /\ IF n < 9 THEN x9' = 0 ELSE TRUE
    /\ IF n < 10 THEN x10' = 0 ELSE TRUE
    /\ IF n < 11 THEN x11' = 0 ELSE TRUE
    /\ IF n < 12 THEN x12' = 0 ELSE TRUE
    /\ IF n < 13 THEN x13' = 0 ELSE TRUE
    /\ IF n < 14 THEN x14' = 0 ELSE TRUE
    /\ IF n < 15 THEN x15' = 0 ELSE TRUE
    /\ IF n < 16 THEN x16' = 0 ELSE TRUE

MCInit ==
    \/ part = "provision" /\ PV!Init /\ Off(11)
    \/ part = "gc" /\ GC!VInit /\ Off(10)
    \/ part = "alert" /\ FA!AInit /\ Off(8)
    \/ part = "pr" /\ PR!PInit /\ Off(9)
    \/ part = "run" /\ WR!RInit /\ Off(16)
    \/ part = "manydb" /\ MD!DInit /\ Off(14)
    \/ part = "load" /\ LO!SInit /\ Off(14)
    \/ part = "reader" /\ PI!PInit /\ Off(8)
    \/ part = "pausers" /\ PA!PInit /\ Off(16)
    \/ part = "profiles" /\ PU!EInit /\ Off(14)
MCNext ==
    /\ part' = part
    /\ \/ part = "provision" /\ PV!Next /\ Same(11)
       \/ part = "gc" /\ GC!VNext /\ Same(10)
       \/ part = "alert" /\ FA!ANext /\ Same(8)
       \/ part = "pr" /\ PR!PNext /\ Same(9)
       \/ part = "run" /\ WR!RNext /\ Same(16)
       \/ part = "manydb" /\ MD!DNext /\ Same(14)
       \/ part = "load" /\ LO!SNext /\ Same(14)
       \/ part = "reader" /\ PI!PNext /\ Same(8)
       \/ part = "pausers" /\ PA!PNext /\ Same(16)
       \/ part = "profiles" /\ PU!ENext /\ Same(14)
MCSpec ==
    /\ MCInit /\ [][MCNext]_slots
    /\ WF_slots(part = "provision" /\ PV!Continue /\ Same(11) /\ part' = part)
    /\ WF_slots(part = "provision" /\ PV!RecoverPendingWorker /\ Same(11) /\ part' = part)
    /\ WF_slots(part = "provision" /\ PV!Started /\ Same(11) /\ part' = part)
    /\ WF_slots(part = "gc" /\ GC!Sweep /\ Same(10) /\ part' = part)
    /\ WF_slots(part = "gc" /\ GC!Tick /\ Same(10) /\ part' = part)
    /\ SF_slots(part = "gc" /\ GC!VolumeListed /\ Same(10) /\ part' = part)
    /\ SF_slots(part = "gc" /\ GC!RequestAccepted /\ Same(10) /\ part' = part)
    /\ WF_slots(part = "alert" /\ FA!Loop /\ Same(8) /\ part' = part)
    /\ WF_slots(part = "pr" /\ PR!PollSteps /\ Same(9) /\ part' = part)
    /\ WF_slots(part = "run" /\ WR!CheckStep /\ Same(16) /\ part' = part)
    /\ WF_slots(part = "run" /\ WR!RunStep /\ Same(16) /\ part' = part)
    /\ WF_slots(part = "run" /\ WR!ProcStep /\ Same(16) /\ part' = part)
    /\ WF_slots(part = "manydb" /\ MD!VerifyStep /\ Same(14) /\ part' = part)
    /\ WF_slots(part = "manydb" /\ MD!Pause /\ Same(14) /\ part' = part)
    /\ WF_slots(part = "manydb" /\ MD!WriteStep(1) /\ Same(14) /\ part' = part)
    /\ WF_slots(part = "load" /\ LO!SuperviseStep /\ Same(14) /\ part' = part)
    /\ WF_slots(part = "load" /\ LO!Interrupted /\ Same(14) /\ part' = part)
    /\ WF_slots(part = "load" /\ LO!Killed /\ Same(14) /\ part' = part)
    /\ WF_slots(part = "load" /\ LO!StopReturns /\ Same(14) /\ part' = part)
    /\ WF_slots(part = "load" /\ LO!Cancel /\ Same(14) /\ part' = part)
    /\ WF_slots(part = "reader" /\ PI!Loop /\ Same(8) /\ part' = part)
    /\ WF_slots(part = "pausers" /\ PA!FTSLoop /\ Same(16) /\ part' = part)
    /\ WF_slots(part = "pausers" /\ PA!ReplayStep /\ Same(16) /\ part' = part)
    /\ WF_slots(part = "pausers" /\ PA!CallerStep /\ Same(16) /\ part' = part)
    /\ WF_slots(part = "profiles" /\ PU!UploadStep /\ Same(14) /\ part' = part)

--------------------------------------------------------------------------

\* The loops of the control plane get their work done in the end, although requests are lost,
\* tasks stop and the control plane restarts.
ControlLoopsServe ==
    \* "A heartbeat arriving first does not prevent later completion of the attempt": an
    \* attempt whose machine the control plane knows completes, unless a failure report takes
    \* the worker out of the statuses that may complete.
    /\ \A i \in 1..2 : (part = "provision" /\ PV!Readied(i)) ~> (part = "provision" /\ PV!CompletedOrGone(i))
    \* RunVolumeInventoryMonitor: a volume nothing uses, old enough and without a hold, does
    \* not stay, although requests are lost or accepted without effect and the control plane
    \* restarts.
    /\ ~<>[](part = "gc" /\ GC!Garbage)
    \* evaluateDormantFleetAlert: when a worker wakes and stays awake the condition is resolved
    \* in the end, whoever woke it and whatever restart lost the resolution.
    /\ <>[](part = "alert" /\ FA!Awake(w1)) => <>[](part = "alert" => FA!QuietSource)
    \* RunPRStatePoller: a PR that stays closed loses its workers although its webhook may be
    \* lost, its task stopped with the control plane, or its teardown left incomplete.
    /\ \A n \in {1, 2} : ~<>[](part = "pr" /\ PR!Lingers(n))

\* The loops of the worker leave nothing waiting for ever.
WorkerLoopsServe ==
    \* monitorProcess and the check's deferred recovery: Litestream gone means that the run
    \* ends, or another process is started, or the attempt to start one failed and was
    \* reported.
    /\ (part = "run" /\ WR!Lost) ~> (part = "run" /\ WR!Noticed)
    \* pendingManyDBChanges: no database is starved by others that fail or are written again; a
    \* written one is attempted in the end.
    /\ \A d \in 1..3 : (part = "manydb" /\ MD!Waiting(d)) ~> (part = "manydb" /\ MD!Attempted(d))
    \* retryPendingPhase: records the store refuses do not keep the others waiting.
    /\ \A f \in 1..3 : (part = "profiles" /\ PU!Unsent(f)) ~> (part = "profiles" /\ ~PU!Unsent(f))

\* Nobody waits for ever on a pause, a resume or a stop.
PausesEnd ==
    \* Resume: the supervisor does not stay blocked once the load is resumed.
    /\ (part = "load" /\ LO!Held) ~> (part = "load" /\ ~LO!Held)
    \* Stop: once the runner has stopped the load and cancelled, neither process nor supervisor
    \* is left.
    /\ (part = "load" /\ LO!Stopped) ~> (part = "load" /\ LO!Over)
    \* holdOnce: a paused reader lets its transaction go without waiting for its window to end;
    \* the verifier's truncating checkpoint is not held up by a signal that got lost.
    /\ (part = "reader" /\ PI!Holding) ~> (part = "reader" /\ ~PI!Holding)
    \* Engine.Pause is acknowledged without its timeout, also in a loop over a dataset without
    \* rows.
    /\ (part = "pausers" /\ PA!PauseWaits) ~> (part = "pausers" /\ ~PA!PauseWaits)
==============================================================================
