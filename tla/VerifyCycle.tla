------------------------------ MODULE VerifyCycle ------------------------------
(* One verification of a single database (verifier.go RunCycle): the load is  *)
(* paused, a boundary transaction is fixed that the source snapshot and the   *)
(* replica agree on, the replica is restored to it and compared.              *)
(* The load and Litestream are external.                                      *)
EXTENDS Naturals, Sequences

CONSTANTS MaxTX, Attempts       \* transactions; checkpointAttempts and reservationAttempts

VARIABLES hist,         \* hist[t]: the workload's rows after transaction t
          rep,          \* the last replicated transaction
          lock,         \* SQLite's write lock: "none", "load", "verifier"
          paused,       \* the load is SIGSTOPped, inside a transaction perhaps
          faulty,       \* this Litestream may replicate or restore wrongly
          vpc, mode, attempt,
          syncTXID, marker, boundary, source, restored, plan,
          stage, status
vvars == <<hist, rep, lock, paused, faulty, vpc, mode, attempt, syncTXID, marker, boundary, source, restored, plan, stage, status>>
world == <<hist, rep, lock, faulty>>
found == <<syncTXID, marker, boundary, source, restored, plan>>

Local == Len(hist)
Rows == hist[Local]
Damaged == MaxTX + 1            \* a restored database whose rows are none of hist's

VInit ==
    /\ hist = <<1>> /\ rep = 1 /\ lock = "none" /\ paused = FALSE /\ faulty \in BOOLEAN
    /\ vpc = "start" /\ mode = "txid" /\ attempt = 1 /\ syncTXID = 0 /\ marker = 0 /\ boundary = 0
    /\ source = 0 /\ restored = 0 /\ plan = 0 /\ stage = "none" /\ status = "running"

--------------------------------------------------------------------------
(* The load and Litestream.                                                  *)

Running == status = "running"
LoadBegins == Running /\ ~paused /\ lock = "none" /\ lock' = "load" /\ UNCHANGED <<hist, rep, faulty, paused, vpc, mode, attempt, found, stage, status>>
LoadCommits ==
    /\ ~paused /\ lock = "load" /\ lock' = "none"
    /\ hist' = (IF Local < MaxTX THEN Append(hist, Rows + 1) ELSE hist)
    /\ UNCHANGED <<rep, faulty, paused, vpc, mode, attempt, found, stage, status>>
\* Litestream's own transactions change no row of the workload.
LitestreamWrites ==
    /\ Running /\ lock = "none" /\ Local < MaxTX /\ hist' = Append(hist, Rows)
    /\ UNCHANGED <<rep, lock, faulty, paused, vpc, mode, attempt, found, stage, status>>
Replicates ==
    /\ Running /\ rep < Local /\ rep' = Local
    /\ UNCHANGED <<hist, lock, faulty, paused, vpc, mode, attempt, found, stage, status>>

--------------------------------------------------------------------------
(* Leaving the cycle. Every way out resumes the load.                        *)

End(s, at) == status' = s /\ stage' = at /\ paused' = FALSE /\ vpc' = "end" /\ UNCHANGED <<mode, attempt, found>>
Go(to) == vpc' = to /\ attempt' = 1 /\ UNCHANGED <<paused, mode, stage, status>>
\* failResult of an error that says nothing of the replica.
HarnessFails(at) == End("failed", at)
\* failValidationResult: a deadline, an unreplicated boundary, a target that is gone,
\* no capacity, a locked comparison; or the worker stops.
Inconclusive(at) == End("aborted", at)
Aborts == Running /\ vpc # "start" /\ Inconclusive("deadline") /\ lock' = (IF lock = "verifier" THEN "none" ELSE lock) /\ UNCHANGED <<hist, rep, faulty>>

--------------------------------------------------------------------------
(* RunCycle up to the validation.                                            *)

\* restoreModeAt, clean_restored, pauseLoad.
StartCycle ==
    /\ vpc = "start" /\ UNCHANGED <<world, found>>
    /\ \/ HarnessFails("clean_restored")
       \/ HarnessFails("pause_load")
       \/ /\ mode' \in {"txid", "timestamp", "latest"} /\ paused' = TRUE /\ vpc' = "checkpoint"
          /\ UNCHANGED <<attempt, stage, status>>

\* checkpointDB: busy attempts let the load finish; a residual busy one is no failure. The
\* load_retention step of a bounded load follows.
Checkpoint ==
    /\ vpc = "checkpoint" /\ paused /\ UNCHANGED <<world, found>>
    /\ \/ Go("sync")
       \/ attempt < Attempts /\ attempt' = attempt + 1 /\ paused' = FALSE /\ UNCHANGED <<vpc, mode, stage, status>>
       \/ \E step \in {"checkpoint", "load_retention"} : HarnessFails(step)
Repause ==
    /\ vpc \in {"checkpoint", "reserve", "reserve again"} /\ ~paused /\ UNCHANGED <<world, found>>
    /\ \/ paused' = TRUE /\ UNCHANGED <<vpc, mode, attempt, stage, status>>
       \/ HarnessFails("pause_load")

\* waitForSyncDB, until the replica has what the sync saw.
Sync ==
    /\ vpc = "sync" /\ syncTXID' = Local /\ rep' \in rep .. Local /\ UNCHANGED <<hist, lock, faulty, marker, boundary, source, restored, plan>>
    /\ \/ rep' = Local /\ Go(IF mode = "latest" THEN "marker" ELSE "reserve")
       \/ rep' < Local /\ UNCHANGED <<vpc, mode, attempt, paused, stage, status>>
SyncFails == vpc = "sync" /\ HarnessFails("sync") /\ UNCHANGED world

\* writeRestoreMarker: a transaction of its own, or the mode falls back.
WriteMarker ==
    /\ vpc = "marker" /\ UNCHANGED <<rep, lock, faulty, paused, attempt, syncTXID, boundary, source, restored, plan, stage, status>> /\ vpc' = "reserve"
    /\ \/ lock = "none" /\ Local < MaxTX /\ hist' = Append(hist, Rows) /\ marker' = Local + 1 /\ UNCHANGED mode
       \/ mode' = "txid" /\ UNCHANGED <<hist, marker>>

--------------------------------------------------------------------------
(* captureVerificationBoundary.                                              *)

\* acquireBoundaryReservation: blocked, the load is let go on where cyclePausers allows it.
Acquire(then, cyclePausers) ==
    \/ lock = "none" /\ lock' = "verifier" /\ Go(then)
    \/ /\ lock # "none" /\ cyclePausers /\ attempt < Attempts /\ attempt' = attempt + 1 /\ paused' = FALSE
       /\ UNCHANGED <<lock, vpc, mode, stage, status>>
    \/ lock # "none" /\ (cyclePausers => attempt = Attempts) /\ End("pending", "source_snapshot") /\ UNCHANGED lock

Reserve == vpc = "reserve" /\ paused /\ Acquire("boundary", TRUE) /\ UNCHANGED <<hist, rep, faulty, found>>
\* release, then the paused sync that names the boundary.
BoundarySync ==
    /\ vpc = "boundary" /\ lock' = "none" /\ boundary' = Local /\ rep' \in rep .. Local
    /\ Go("reserve again") /\ UNCHANGED <<hist, faulty, syncTXID, marker, source, restored, plan>>
\* Litestream's own write may hold the lock for the one attempt.
\* Mutant: the load is let go on after the sync, too.
ReserveAgainCycling ==
    /\ vpc = "reserve again" /\ paused /\ UNCHANGED <<hist, rep, faulty, found>>
    /\ \/ Acquire("snapshot", TRUE)
       \/ lock = "none" /\ attempt < Attempts /\ attempt' = attempt + 1 /\ paused' = FALSE /\ UNCHANGED <<lock, vpc, mode, stage, status>>
ReserveAgain ==
    /\ vpc = "reserve again" /\ paused /\ UNCHANGED <<hist, rep, faulty, found>>
    /\ \/ Acquire("snapshot", FALSE)
       \/ lock = "none" /\ End("pending", "source_snapshot") /\ UNCHANGED lock

Replicated == rep >= boundary
Snapshot ==
    /\ vpc = "snapshot" /\ lock' = "none" /\ UNCHANGED <<hist, rep, faulty>>
    /\ \/ (boundary < syncTXID \/ ~Replicated) /\ Inconclusive("source_snapshot")
       \/ /\ boundary >= syncTXID /\ Replicated /\ source' = Rows /\ Go("restore")
          /\ UNCHANGED <<syncTXID, marker, boundary, restored, plan>>

--------------------------------------------------------------------------
(* validateDBResult from the restore on.                                     *)

\* boundaryLTXTimestamp may be unavailable, then the transaction is pinned.
TimestampFallsBack ==
    /\ vpc = "restore" /\ mode = "timestamp" /\ mode' = "txid"
    /\ UNCHANGED <<world, paused, vpc, attempt, found, stage, status>>

Restored(t) == plan' = t /\ restored' \in {hist[t]} \cup (IF faulty THEN {Damaged} ELSE {})
Restore ==
    /\ vpc = "restore" /\ UNCHANGED world
    /\ \/ /\ mode # "latest" /\ boundary <= rep /\ Restored(boundary) /\ Go("compare")
          /\ UNCHANGED <<syncTXID, marker, boundary, source>>
       \/ /\ mode = "latest" /\ \E t \in (IF faulty THEN 1 .. rep ELSE {rep}) : Restored(t)
          /\ Go("latest_marker") /\ UNCHANGED <<syncTXID, marker, boundary, source>>
       \/ /\ faulty \/ (mode # "latest" /\ boundary > rep)
          /\ End("failed", "restore")
       \/ Inconclusive("restore")       \* capacity, a pruned target, a cancelled request

\* integrity_check and the logical comparison.
Compare ==
    /\ vpc = "compare" /\ UNCHANGED world
    /\ IF restored = source THEN End("passed", "compare") ELSE End("failed", "compare")

\* Mutant: the marker alone proves the restore current.
LatestAheadMarker == plan >= marker
\* checkRestoreMarker and checkLatestRestoreTXID.
LatestAhead == plan >= marker /\ plan >= boundary
LatestMarker ==
    /\ vpc = "latest_marker" /\ UNCHANGED world
    /\ IF restored # Damaged /\ LatestAhead THEN End("passed", "latest_marker") ELSE End("failed", "latest_marker")

VNext ==
    \/ LoadBegins \/ LoadCommits \/ LitestreamWrites \/ Replicates \/ Aborts
    \/ StartCycle \/ Checkpoint \/ Repause \/ Sync \/ SyncFails \/ WriteMarker
    \/ Reserve \/ BoundarySync \/ ReserveAgain \/ Snapshot
    \/ TimestampFallsBack \/ Restore \/ Compare \/ LatestMarker

--------------------------------------------------------------------------
\* RunCycle: a Litestream that replicates and restores faithfully never fails the comparison, the
\* marker check or the restore through the harness's own pausing and resuming.
NoFalseAlarm == status = "failed" /\ stage \in {"restore", "compare", "latest_marker"} => faulty

\* captureVerificationBoundary: a pass covers everything: the rows compared are those of the boundary, no transaction the
\* cycle's sync saw is beyond it, and the restored database is not behind it.
PassIsEarned ==
    status = "passed" =>
        /\ boundary >= syncTXID /\ plan >= boundary /\ restored # Damaged
        /\ stage = "compare" => source = hist[boundary] /\ restored = source
=============================================================================
