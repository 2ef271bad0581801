------------------------------ MODULE WorkerRow ------------------------------
(***************************************************************************)
(* One row of the control plane's `workers` table and the SQL statements   *)
(* of internal/model/workers.go that rewrite it.  Every statement is a     *)
(* function from the row it finds to the row it leaves, so the modules     *)
(* that interleave them share one reading of the SQL.                      *)
(*                                                                         *)
(* A target stands for the pair (git_sha, litestream_sha) together with    *)
(* the image built for it.  A machine or a volume is a positive number; 0  *)
(* is the NULL id.  err keeps what the code tells apart in error_message:  *)
(* nothing, the stale monitor's text, or anything else.                    *)
(***************************************************************************)
EXTENDS Naturals

Statuses == {"absent", "pending", "building", "starting", "running", "degraded",
             "dormant", "probing", "stopped", "failed"}

\* The empty database: no row for the worker.
AbsentRow(t) ==
    [status |-> "absent", target |-> t, mach |-> 0, vol |-> 0, err |-> "none",
     hb |-> FALSE, dormantAt |-> FALSE, held |-> FALSE]

\* CreateWorker: ON CONFLICT resets everything but the Fly ids (COALESCE with
\* NULL keeps them) and the evidence hold.
CreateWorkerRow(r, t) ==
    [r EXCEPT !.status = "pending", !.target = t, !.err = "none",
              !.hb = FALSE, !.dormantAt = FALSE]

\* UpdateWorkerStatus has no condition on the status it overwrites.
UpdateWorkerStatus(r, s, e) == [r EXCEPT !.status = s, !.err = e]

\* The rows a report may promote: still starting up, or marked by the stale
\* monitor and by nothing else.
Promotable(r) ==
    \/ r.status \in {"pending", "building", "starting"}
    \/ r.status = "degraded" /\ r.err = "missed"

\* upsertReportedWorker for UpsertReportedWorker and UpsertStartingWorker: the
\* identity columns follow the report whatever the status was.
UpsertReported(r, m, t, reported) ==
    [r EXCEPT !.mach = m, !.target = t, !.hb = TRUE,
              !.status = IF Promotable(r) THEN reported ELSE @,
              !.err = IF Promotable(r) THEN "none" ELSE @]

\* UpsertFailedWorker: never a promotion past starting, never a fresh heartbeat.
UpsertFailed(r, m, t) ==
    [r EXCEPT !.mach = m, !.target = t, !.hb = TRUE,
              !.status = IF @ \in {"pending", "building"} THEN "starting" ELSE @]

\* UpdateWorkerVerificationState, the WHERE clause included.
UpdateVerificationState(r, passed) ==
    IF r.status \in {"stopped", "failed", "dormant", "absent"} THEN r
    ELSE IF passed
         THEN [r EXCEPT !.status = "running", !.err = "none", !.dormantAt = FALSE]
         ELSE [r EXCEPT !.status = "degraded", !.err = "other"]

MarkWorkerDormant(r) ==
    [r EXCEPT !.status = "dormant", !.err = "other", !.dormantAt = TRUE]

MarkWorkerProbing(r) ==
    [r EXCEPT !.status = "probing", !.err = "none", !.dormantAt = FALSE]

UpdateWorkerMachine(r, m, v) == [r EXCEPT !.mach = m, !.vol = v]

SetEvidenceHold(r, h) == [r EXCEPT !.held = h]

\* StaleWorkers' WHERE clause, the age of the heartbeat left open.
StaleCandidate(r) == r.status \in {"running", "probing", "starting"} /\ r.hb

\* checkStaleWorkers writes this whatever has happened since its query.
MarkStale(r) == UpdateWorkerStatus(r, "degraded", "missed")
=============================================================================
