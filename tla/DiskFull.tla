------------------------------- MODULE DiskFull -------------------------------
(* What a worker says of a full disk (no_progress.go, disk_full_recovery.go):  *)
(* each tick polls Litestream (stats_poller.go) and observes the snapshot.     *)
(* No replication progress under disk pressure is reported; once Litestream    *)
(* signals the full disk itself, the worker frees its reserve and reports      *)
(* whether Litestream replicated again.                                        *)
EXTENDS Naturals

CONSTANTS Window, Timeout,      \* in ticks
          MaxTX, MaxTicks, MaxPIDs

VARIABLES space,        \* the disk has room
          reserve,      \* the reserve file exists
          dbTXID, replicated, staged,   \* Litestream: written, uploaded, staged on disk
          metric, pid,  \* its disk-full metric and its process
          signalled,    \* its log holds the disk-full line
          np,           \* r.noProgress
          event,        \* what the last tick reported
          ticks,
          quiet,        \* ticks since a txid was last replicated
          since,        \* a txid was replicated after the reserve was freed
          blind         \* the reserve was freed on a snapshot without txids
fvars == <<space, reserve, dbTXID, replicated, staged, metric, pid, signalled, np, event, ticks, quiet, since, blind>>
harness == <<np, event, ticks, blind>>

Off == [on |-> FALSE, at |-> 0, db |-> 0, rep |-> 0]
Never == [on |-> FALSE, at |-> 0, txid |-> 0, pid |-> 0]

FInit ==
    /\ space = TRUE /\ reserve = TRUE /\ dbTXID = 1 /\ replicated = 1 /\ staged = 1 /\ metric = FALSE /\ pid = 1 /\ signalled = FALSE
    /\ np = [window |-> Off, reported |-> FALSE, signal |-> FALSE, recovery |-> Never, verdict |-> "none"]
    /\ event = "none" /\ ticks = 0 /\ quiet = 0 /\ since = FALSE /\ blind = FALSE

--------------------------------------------------------------------------
(* The database, the disk and Litestream.  Space comes back with the reserve. *)
Write ==
    /\ dbTXID < MaxTX /\ dbTXID' = dbTXID + 1
    /\ UNCHANGED <<space, reserve, replicated, staged, metric, pid, signalled, quiet, since, harness>>
Fills ==
    /\ space /\ space' = FALSE
    /\ UNCHANGED <<reserve, dbTXID, replicated, staged, metric, pid, signalled, quiet, since, harness>>
\* Litestream stages the next LTX file: the metric says whether that worked.
Stage ==
    /\ staged < dbTXID
    /\ \/ space /\ staged' = dbTXID /\ metric' = FALSE /\ UNCHANGED signalled
       \/ ~space /\ metric' = TRUE /\ signalled' = TRUE /\ UNCHANGED staged
    /\ UNCHANGED <<space, reserve, dbTXID, replicated, pid, quiet, since, harness>>
Replicate ==
    /\ replicated < staged /\ replicated' = staged /\ quiet' = 0 /\ since' = (since \/ ~reserve)
    /\ UNCHANGED <<space, reserve, dbTXID, staged, metric, pid, signalled, harness>>
Restarts ==
    /\ pid < MaxPIDs /\ pid' = pid + 1 /\ metric' = FALSE
    /\ UNCHANGED <<space, reserve, dbTXID, replicated, staged, signalled, quiet, since, harness>>

--------------------------------------------------------------------------
\* pollDBStats: the metrics are scraped or not; when the socket then does not answer
\* (setLitestreamSnapshotFailure) the txids are 0 and the scraped metric stays.
Snapshots ==
    {[present |-> p, full |-> p /\ metric, db |-> IF up THEN dbTXID ELSE 0, rep |-> IF up THEN replicated ELSE 0]
        : p \in BOOLEAN, up \in BOOLEAN}

\* snapshotUnderDiskPressure, and lag.
Stalled(s) == ~space /\ s.db > s.rep

MarkDiskFullSignal(n, s) == [n EXCEPT !.signal = @ \/ (s.full /\ signalled)]

\* observeDiskFullRecovery, first part: the reserve is freed (or that fails) once the signal was seen.
Begins(n, s, freed) == n.signal /\ ~n.recovery.on /\ freed
Freed(n, s) == [n EXCEPT !.recovery = [on |-> TRUE, at |-> ticks, txid |-> s.rep, pid |-> pid]]

\* Mutant: the cleared metric is taken for replication.
AgainMetric(n, s) == s.present /\ ~s.full /\ n.recovery.pid = pid
\* ... second part: Litestream replicated again, in the same process ...
Again(n, s) == s.present /\ ~s.full /\ s.rep > n.recovery.txid /\ n.recovery.pid = pid
\* ... or is another process, or took too long.
GivesUp(n) == n.recovery.pid # pid \/ ticks - n.recovery.at >= Timeout

Observed(n, s) ==
    IF ~n.recovery.on \/ n.verdict # "none" THEN "none"
    ELSE IF Again(n, s) THEN "recovered"
    ELSE IF GivesUp(n) THEN "failed" ELSE "none"

\* Mutant: the window goes on when a txid was replicated.
ProgressedNever(n, s) == s.db < n.window.db
Progressed(n, s) == s.rep > n.window.rep \/ s.db < n.window.db

\* observeDiskPressureNoProgress, after the recovery had nothing to report.
NoProgress(n, s) ==
    LET opened == [on |-> TRUE, at |-> ticks, db |-> s.db, rep |-> s.rep]
        going == [n.window EXCEPT !.db = s.db, !.rep = s.rep]
        over == ticks - n.window.at >= Window /\ ~n.signal
    IN  CASE ~Stalled(s)               -> [n EXCEPT !.window = Off, !.reported = FALSE]
          [] Stalled(s) /\ ~n.window.on -> [n EXCEPT !.window = opened]
          [] Stalled(s) /\ n.window.on /\ Progressed(n, s) -> [n EXCEPT !.window = opened, !.reported = FALSE]
          [] OTHER -> [n EXCEPT !.window = going, !.reported = @ \/ over]

Tick ==
    /\ ticks < MaxTicks /\ ticks' = ticks + 1 /\ quiet' = quiet + 1
    /\ \E s \in Snapshots, freed \in BOOLEAN :
          LET marked == MarkDiskFullSignal(np, s)
              begins == Begins(marked, s, freed)
              n == IF begins THEN Freed(marked, s) ELSE marked
              verdict == Observed(n, s)
          IN  /\ reserve' = (reserve /\ ~begins) /\ space' = (space \/ (begins /\ reserve))
              /\ blind' = (blind \/ (begins /\ s.rep = 0))
              /\ IF verdict # "none"
                 THEN np' = [n EXCEPT !.verdict = verdict] /\ event' = verdict
                 ELSE /\ np' = NoProgress(n, s)
                      /\ event' = (IF np'.reported /\ ~n.reported THEN "no progress" ELSE "none")
    /\ UNCHANGED <<dbTXID, replicated, staged, metric, pid, signalled, since>>

FNext == Write \/ Fills \/ Stage \/ Replicate \/ Restarts \/ Tick

--------------------------------------------------------------------------
\* observeDiskFullRecovery: "replicated again after the harness freed reserved disk space" is said only when a txid
\* was replicated after that, as long as the snapshot on which the reserve was freed had the txids.
RecoveredHonest == np.verdict = "recovered" => since \/ blind
\* The same of every snapshot.
RecoveredAlways == np.verdict = "recovered" => since

\* observeDiskPressureNoProgress: a stall is reported only after nothing was replicated for the whole window, and
\* before Litestream signalled the full disk itself.
StallHonest == (ticks' # ticks /\ event' = "no progress") => quiet' >= Window /\ ~np.signal
=============================================================================
