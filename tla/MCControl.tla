------------------------------ MODULE MCControl ------------------------------
(* The components of the control plane that keep state of their own, in small       *)
(* instances. The variable part names the one that runs, its variables are the slots *)
(* x1 .. x10; the slots it does not use stay at 0.                                   *)
(*   gc           the volume garbage collector *)
(*   inventory    the shared volume list *)
(*   alert        the dormant fleet alert *)
(*   success      the success teardown against reports and operators *)
(*   weather      failed source pause and dormancy *)
(*   age          maximum age, source teardown, success *)
(*   legacy       the backfill of inline profiles *)
(*   blobs        blob sweeps beside events; a restart *)
(*   journal      compaction and pruning of the evidence journal *)
(*   comparison   the verdict on two deployments *)
(*   score        the verdict on a gate scenario *)
(*   faults       planned restarts and crashes in a gate *)
(*   silence      heartbeats that stop in a gate *)
(*   cost         the cost meter *)
(*   pr           webhooks and the poller that retire a PR *)
(*   cache        the cached comparisons *)
(*   deletion     the deletion of a replica *)
(*   events       platform log lines merged into events *)
EXTENDS Integers, TLC

CONSTANTS w1, w2, a1, a2

VARIABLES part, x1, x2, x3, x4, x5, x6, x7, x8, x9, x10
slots == <<part, x1, x2, x3, x4, x5, x6, x7, x8, x9, x10>>

OneRow == [dep |-> 1, old |-> FALSE, incs |-> {"x"}, recs |-> {"r"}, compact |-> FALSE]
TwoRows == <<OneRow, OneRow>>
InlineA == <<[form |-> "inline", said |-> a1]>>
ClockSkews == {0, -3}
GateScenarios ==
    {[check |-> "restore", required |-> {}], [check |-> "restore", required |-> {"txid"}],
     [check |-> "vfs", required |-> {"snapshot", "read"}], [check |-> "walreset", required |-> {"walreset"}]}

GC == INSTANCE VolumeGC WITH Workers <- {w1}, Initial <- 1, Maximum <- 2, MaxFaults <- 1, MaxCrashes <- 1,
        volume <- x1, owners <- x2, heldBy <- x3, stored <- x4, attempts <- x5, loaded <- x6, sweep <- x7,
        asked <- x8, faults <- x9, crashes <- x10
IV == INSTANCE VolumeInventory WITH MaxVersion <- 3, MaxCalls <- 5, version <- x1, started <- x2, cache <- x3,
        flight <- x4, caller <- x5
FA == INSTANCE FleetAlert WITH Workers <- {w1, w2}, MaxTime <- 3, Threshold <- 1, MaxCrashes <- 1, time <- x1,
        fleet <- x2, alerts <- x3, watch <- x4, waking <- x5, posting <- x6, posts <- x7, crashes <- x8
LS == INSTANCE Lifecycle WITH Workers <- {w1, w2}, Scored <- {w1, w2}, Loops <- {"success", "operator"},
        Kinds <- {"pass", "other", "pending", "sick"}, MinPair <- 2, MinFleet <- 3, MinConsecutive <- 2,
        MinFailures <- 2, EscalateAfter <- 1, MaxReports <- 2, MaxDeployments <- 1, MaxRuns <- 2, MaxFaults <- 1,
        dep <- x1, old <- x2, rows <- x3, hist <- x4, archives <- x5, job <- x6, age <- x7, dorm <- x8,
        paused <- x9, faults <- x10
LW == INSTANCE Lifecycle WITH Workers <- {w1, w2}, Scored <- {w1, w2}, Loops <- {"pause", "dormancy"},
        Kinds <- {"pass", "sync", "env", "abort", "sick"}, MinPair <- 2, MinFleet <- 3, MinConsecutive <- 2,
        MinFailures <- 2, EscalateAfter <- 1, MaxReports <- 3, MaxDeployments <- 2, MaxRuns <- 2, MaxFaults <- 1,
        dep <- x1, old <- x2, rows <- x3, hist <- x4, archives <- x5, job <- x6, age <- x7, dorm <- x8,
        paused <- x9, faults <- x10
LA == INSTANCE Lifecycle WITH Workers <- {w1, w2}, Scored <- {w1, w2}, Loops <- {"age", "teardown", "success"},
        Kinds <- {"pass"}, MinPair <- 2, MinFleet <- 3, MinConsecutive <- 2, MinFailures <- 2,
        EscalateAfter <- 1, MaxReports <- 2, MaxDeployments <- 2, MaxRuns <- 2, MaxFaults <- 1, dep <- x1,
        old <- x2, rows <- x3, hist <- x4, archives <- x5, job <- x6, age <- x7, dorm <- x8, paused <- x9,
        faults <- x10
BL == INSTANCE ProfileBlobs WITH Contents <- {a1, a2}, Legacy <- InlineA, Writers <- {"snapshot"}, MaxId <- 2,
        MaxRows <- 2, MaxSweeps <- 1, MaxCrashes <- 0, blobs <- x1, cache <- x2, cols <- x3, writer <- x4,
        compact <- x5, sweep <- x6, crashes <- x7
BE == INSTANCE ProfileBlobs WITH Contents <- {a1, a2}, Legacy <- <<>>, Writers <- {"event"}, MaxId <- 2,
        MaxRows <- 2, MaxSweeps <- 1, MaxCrashes <- 1, blobs <- x1, cache <- x2, cols <- x3, writer <- x4,
        compact <- x5, sweep <- x6, crashes <- x7
EJ == INSTANCE EvidenceJournal WITH Incidents <- {"x"}, Records <- {"r"}, LegacyRows <- TwoRows, Recent <- 1,
        MaxDeployments <- 2, MaxRows <- 4, MaxRestarts <- 1, newest <- x1, archived <- x2, rows <- x3,
        incidents <- x4, records <- x5, cursor <- x6, task <- x7, pruned <- x8, restarts <- x9
CP == INSTANCE Comparison WITH Workers <- {1, 2}, MaxHistory <- 2, EscalateAfter <- 2, RampUp <- 1, base <- x1,
        head <- x2, shape <- x3
GS == INSTANCE GateScore WITH Scenarios <- GateScenarios, scenario <- x1, side <- x2
GF == INSTANCE GateFaults WITH Phase <- 0, PlannedWindow <- 1, StaleGrace <- 2, StaleAfter <- 1,
        CrashLoopEvents <- 2, Inputs <- {"crash", "disk"}, MaxTime <- 3, MaxEvents <- 3, clock <- x1,
        events <- x2, beats <- x3, verified <- x4, started <- x5, row <- x6, ends <- x7
GH == INSTANCE GateFaults WITH Phase <- 3, PlannedWindow <- 1, StaleGrace <- 2, StaleAfter <- 1,
        CrashLoopEvents <- 2, Inputs <- {"silence"}, MaxTime <- 4, MaxEvents <- 2, clock <- x1, events <- x2,
        beats <- x3, verified <- x4, started <- x5, row <- x6, ends <- x7
CM == INSTANCE CostMeter WITH MaxWork <- 2, MaxEpochs <- 2, MaxSent <- 2, MaxTime <- 3, Retention <- 1,
        Skews <- ClockSkews, clock <- x1, proc <- x2, sent <- x3, done <- x4, state <- x5, hourly <- x6,
        pruning <- x7, taken <- x8, gone <- x9, sends <- x10
PR == INSTANCE PRRetirement WITH Numbers <- {1, 2}, Repos <- {"home", "fork"}, Home <- "home",
        Allowlist <- {"home"}, MaxAttempts <- 2, MaxChanges <- 2, MaxFaults <- 2, MaxTasks <- 1, upstream <- x1,
        sources <- x2, hooks <- x3, tasks <- x4, poll <- x5, limited <- x6, ended <- x7, changes <- x8,
        faults <- x9
KC == INSTANCE ComparisonCache WITH Readers <- {"p", "q"}, TTL <- 1, MaxStale <- 2, MaxState <- 2, MaxTime <- 2,
        MaxFlights <- 2, MaxRestarts <- 1, now <- x1, state <- x2, entries <- x3, flights <- x4, count <- x5,
        slot <- x6, stored <- x7, reader <- x8, restarts <- x9
RD == INSTANCE ReplicaDeletion WITH Keys <- 1..6, Ours <- 1..4, Siblings <- {5}, Page <- 2, MaxWrites <- 2,
        MaxFaults <- 1, MaxCalls <- 2, objects <- x1, first <- x2, dpc <- x3, token <- x4, page <- x5,
        deleted <- x6, removed <- x7, writes <- x8, faults <- x9, calls <- x10
EW == INSTANCE EventWindow WITH Window <- 1, MaxTime <- 4, MaxFetches <- 3, MaxFailures <- 1, clock <- x1,
        lines <- x2, batch <- x3, rows <- x4, synced <- x5, fetches <- x6, failures <- x7

\* The slots above the n-th are not used.
Off(n) ==
    /\ IF n < 3 THEN x3 = 0 ELSE TRUE
    /\ IF n < 4 THEN x4 = 0 ELSE TRUE
    /\ IF n < 5 THEN x5 = 0 ELSE TRUE
    /\ IF n < 6 THEN x6 = 0 ELSE TRUE
    /\ IF n < 7 THEN x7 = 0 ELSE TRUE
    /\ IF n < 8 THEN x8 = 0 ELSE TRUE
    /\ IF n < 9 THEN x9 = 0 ELSE TRUE
    /\ IF n < 10 THEN x10 = 0 ELSE TRUE
Same(n) ==
    /\ IF n < 3 THEN x3' = 0 ELSE TRUE
    /\ IF n < 4 THEN x4' = 0 ELSE TRUE
    /\ IF n < 5 THEN x5' = 0 ELSE TRUE
    /\ IF n < 6 THEN x6' = 0 ELSE TRUE
    /\ IF n < 7 THEN x7' = 0 ELSE TRUE
    /\ IF n < 8 THEN x8' = 0 ELSE TRUE
    /\ IF n < 9 THEN x9' = 0 ELSE TRUE
    /\ IF n < 10 THEN x10' = 0 ELSE TRUE

MCInit ==
    \/ part = "gc" /\ GC!VInit /\ Off(10)
    \/ part = "inventory" /\ IV!IInit /\ Off(5)
    \/ part = "alert" /\ FA!AInit /\ Off(8)
    \/ part = "success" /\ LS!LInit /\ Off(10)
    \/ part = "weather" /\ LW!LInit /\ Off(10)
    \/ part = "age" /\ LA!LInit /\ Off(10)
    \/ part = "legacy" /\ BL!BInit /\ Off(7)
    \/ part = "blobs" /\ BE!BInit /\ Off(7)
    \/ part = "journal" /\ EJ!JInit /\ Off(9)
    \/ part = "comparison" /\ CP!CInit /\ Off(3)
    \/ part = "score" /\ GS!GSInit /\ Off(2)
    \/ part = "faults" /\ GF!GFInit /\ Off(7)
    \/ part = "silence" /\ GH!GFInit /\ Off(7)
    \/ part = "cost" /\ CM!MInit /\ Off(10)
    \/ part = "pr" /\ PR!PInit /\ Off(9)
    \/ part = "cache" /\ KC!KInit /\ Off(9)
    \/ part = "deletion" /\ RD!ZInit /\ Off(10)
    \/ part = "events" /\ EW!WInit /\ Off(7)
MCNext ==
    /\ part' = part
    /\ \/ part = "gc" /\ GC!VNext /\ Same(10)
       \/ part = "inventory" /\ IV!INext /\ Same(5)
       \/ part = "alert" /\ FA!ANext /\ Same(8)
       \/ part = "success" /\ LS!LNext /\ Same(10)
       \/ part = "weather" /\ LW!LNext /\ Same(10)
       \/ part = "age" /\ LA!LNext /\ Same(10)
       \/ part = "legacy" /\ BL!BNext /\ Same(7)
       \/ part = "blobs" /\ BE!BNext /\ Same(7)
       \/ part = "journal" /\ EJ!JNext /\ Same(9)
       \/ part = "comparison" /\ CP!CNext /\ Same(3)
       \/ part = "score" /\ GS!GSNext /\ Same(2)
       \/ part = "faults" /\ GF!GFNext /\ Same(7)
       \/ part = "silence" /\ GH!GFNext /\ Same(7)
       \/ part = "cost" /\ CM!MNext /\ Same(10)
       \/ part = "pr" /\ PR!PNext /\ Same(9)
       \/ part = "cache" /\ KC!KNext /\ Same(9)
       \/ part = "deletion" /\ RD!ZNext /\ Same(10)
       \/ part = "events" /\ EW!WNext /\ Same(7)

--------------------------------------------------------------------------

\* What the control plane destroys - a volume, a worker, a replica - may go at that moment,
\* although what was decided rests on earlier reads.
SafeToDestroy ==
    \* lockVolumeOwners: no destroy request is sent while a worker that was found to refer to
    \* the volume is under an evidence hold, although the hold may have come after the first
    \* look or after the list of owners.
    /\ part = "gc" => GC!HoldsRespected
    \* evaluateSuccessTeardownLocked: as long as a worker is still to be destroyed it is the
    \* run the archive holds, and nothing has come to weigh against it.
    /\ part = "success" => LS!StillClean
    /\ part = "weather" => LW!StillClean
    /\ part = "age" => LA!StillClean
    \* archiveDeploymentRun: the policies that destroy have archived the deployment they
    \* judged.
    /\ part = "success" => LS!ArchivedFirst
    /\ part = "weather" => LW!ArchivedFirst
    /\ part = "age" => LA!ArchivedFirst
    \* DeletePrefix: replicas of other workers stay, also of one whose name begins like this
    \* one's.
    /\ part = "deletion" => RD!OthersKept

\* The shared tables behind the reports - profile blobs, profile records, incidents - agree
\* with the rows that refer to them, whatever sweeps, compactions and prunes ran beside the
\* reports.
EvidenceExact ==
    \* loadProfileBlobs never fails with "profile blob is missing": what a row refers to is
    \* there and is what the report contained, whatever the sweep deleted beside it.
    /\ part = "legacy" => BL!NoDangling
    /\ part = "blobs" => BE!NoDangling
    \* deleteProfileBlobBatch: the caches never answer for a blob that is gone or for another
    \* one with its id.
    /\ part = "legacy" => BL!CacheCoherent
    /\ part = "blobs" => BE!CacheCoherent
    \* expandRuntimeEvidence finds every record a compact row refers to: the uses of a record
    \* are exactly the rows that refer to it, whoever stored or moved them.
    /\ part = "journal" => EJ!UsesExact
    \* normalizeRuntimeEvidence: as long as nothing of a deployment was pruned, each of its
    \* incidents is stored once, with the first compact row that reported it, although reports
    \* and the compaction store the same incident in any order.
    /\ part = "journal" => EJ!IncidentOnFirst

\* What arrives again, late or after a restart is taken into account once, and what arrived is
\* not lost.
ExactlyOnce ==
    \* evaluateDormantFleetAlertLocked: a source has at most one active condition, whatever
    \* epochs followed one another.
    /\ part = "alert" => FA!OneCondition
    \* NotifyFleetFullyDormant: an epoch is delivered at most once, across restarts and
    \* repeated evaluations.
    /\ part = "alert" => FA!PostedOnce
    \* RecordCostMeter: whatever is lost, repeated, reordered, restarted or pruned, the buckets
    \* never hold more work than was done.
    /\ part = "cost" => CM!NeverOverbilled
    \* advanceCounter: nothing a heartbeat reported and the meter took into account stays
    \* unbilled, however many heartbeats before it were lost and whichever process restarted in
    \* between.
    /\ part = "cost" => CM!NothingUnbilled
    \* syncAppPlatformLogs: a line that was recorded is an occurrence of some row, however the
    \* rows were merged and rounds cut short since.
    /\ part = "events" => EW!Recorded
    \* RecordWindowedEventAt: a row counts each of its lines once, however often it is fetched.
    /\ part = "events" => EW!EachLineOnce
    \* RecordWindowedEventAt: a line fetched again is not counted again, unless later
    \* occurrences have since moved the row it is counted in out of its window.
    /\ part = "events" => EW!ReplayIsFree

\* The judgements over evidence: nothing favourable without proof, no failure forgiven that
\* counts, none counted that is forgiven.
VerdictsProven ==
    \* applyReliabilityVerdict: a favourable verdict needs every head worker's complete run to
    \* be clean and covered, and the same profiles covered on the base.
    /\ part = "comparison" => CP!FavourableIsProven
    \* compareRunReliability, "recovered current health does not cancel them": with comparable
    \* coverage a profile that failed more often than in the base is worse, whatever its latest
    \* verification.
    /\ part = "comparison" => CP!IncidentsCount
    \* buildRCGateResults: a gate that passes a scenario has seen the candidate pass, and
    \* nothing else, in every mode the scenario requires, and has evidence of the baseline in
    \* each of them.
    /\ part = "score" => GS!PassIsEarned
    \* rcGateCoverageVerdict, "a candidate failure is a regression whenever the baseline has
    \* none, even when the baseline has no evidence yet": a coverage, VFS or WAL reset failure
    \* of the candidate alone fails the gate, whatever modes are still missing.
    /\ part = "score" => GS!HardEvidence
    \* rcGatePlannedRestarts, "each moment holds exactly one allowance": of a worker without
    \* phases no more restarts are excused than it announced, and no other crash ever is.
    /\ part = "faults" => GF!OneAllowance
    /\ part = "silence" => GH!OneAllowance
    \* rcGateStaleFault, "staleness counts when the worker never reported again once the grace
    \* period has passed, or stayed silent longer than it" - also when it reports again by now.
    /\ part = "faults" => GF!SilenceCounts
    /\ part = "silence" => GH!SilenceCounts
    \* rcGateCurrentlySilent: a worker whose only trouble is deadlines it missed, each made
    \* good within the grace period, is not at fault, whatever its row says.
    /\ part = "faults" => GF!MissedDeadlineOnly
    /\ part = "silence" => GH!MissedDeadlineOnly
    \* The walk over the whole history (environmentalVerificationIDs) and the look back of the
    \* report handler agree on every report.
    /\ part = "success" => LS!OneVerdictOnWeather
    /\ part = "weather" => LW!OneVerdictOnWeather
    /\ part = "age" => LA!OneVerdictOnWeather

\* What is kept in memory, read in pages or shared between readers speaks of the time it is
\* asked about.
AnswersCurrent ==
    \* What is in memory is what was stored, except that an acceptance may not have been, so
    \* that a restart goes on from the same request count and wait.
    /\ part = "gc" => GC!AttemptsCurrent
    \* listFresh: what the volume monitor acts on was read after it asked.
    /\ part = "inventory" => IV!FreshIsFresh
    \* deploymentComparison: what a reader gets is never about deployments older than those at
    \* its request, although it may have been built for another reader, kept in memory or in
    \* the database across a restart.
    /\ part = "cache" => KC!NotOfBefore
    \* comparisonFlight: a comparison is built by one flight at a time, whatever was evicted or
    \* landed meanwhile.
    /\ part = "cache" => KC!OneFlight
    \* DeletePrefix: when it succeeds, nothing is left of what was there when it began,
    \* whatever the paging, what was written beside it, or what an earlier call that failed had
    \* left; and it counted what it removed.
    /\ part = "deletion" => RD!PrefixGone

\* A step that deletes is taken only when its own condition holds then, not when the work was
\* listed.
DestroyingSteps == [][
    \* volumeGCRetryBackoff: two requests for the same attempt are sent by sweeps at least the
    \* backoff apart, across restarts and failed writes as well.
    /\ part = "gc" => GC!BackedOff
    \* PruneArchivedEvidenceBefore: a row is deleted only while its deployment is eligible,
    \* although the list of deployments was made before: a late report or a rollback stops the
    \* prune.
    /\ part = "journal" => EJ!PruneStops
    \* archiveAndDestroyTerminalPRSource, from the webhook and from the poller: a source is
    \* destroyed only when the PR it runs, of its own repository, was closed without the keep-
    \* alive label: not for a label, an answer that says nothing, or the PR of another
    \* repository.
    /\ part = "pr" => PR!OnlyItsOwnPR
    ]_slots

\* Steps that must not go back to an older state of things.
NeverBackwards == [][
    \* list: the cache never goes back to an earlier list, although requests overlap.
    /\ part = "inventory" => IV!CacheForward
    \* evaluateFailedSourcePause never takes back its own pause: workers it paused are resumed
    \* on other evidence than it paused them on.
    /\ part = "weather" => LW!NoFlapping
    \* comparisonCacheMaxStale: a comparison a reader takes is younger than that, also one kept
    \* in the database across a restart.
    /\ part = "cache" => KC!NotTooOld
    ]_slots
==============================================================================
