-------------------------------- MODULE VFSCheck --------------------------------
(* The VFS reader checks (vfs_check.go, vfs_reader.go): a loop that holds read  *)
(* transactions on one session while it commits probe updates, the read check   *)
(* the verifier runs on another session at its boundary, and the probe writer   *)
(* (cache_probe.go) they share. The primary, Litestream and its VFS are         *)
(* external.                                                                    *)
EXTENDS Naturals, Sequences

CONSTANTS MaxTX, MaxCycles, Repeats

Sessions == {"snapshot", "read"}

VARIABLES hist,         \* hist[t]: the probe aggregate after transaction t
          faulty,       \* this VFS may break a read transaction or misread
          pauses, holds,                \* cacheProbeWriter
          sess,         \* the sessions
          spc, first, expected, syncTXID, repeat, drift, after,         \* runSnapshot
          vpc, boundary, primary,       \* the verifier around runRead
          hydrated,     \* ghost: hydrated reads were on at the cycle's last read
          cycles, results               \* cycles run; the results reported, with their ghosts
rvars == <<hist, faulty, pauses, holds, sess, spc, first, expected, syncTXID, repeat, drift, after, vpc, boundary, primary, hydrated, cycles, results>>
snap == <<spc, first, expected, syncTXID, repeat, drift, after, hydrated>>
ver == <<vpc, boundary, primary>>

Local == Len(hist)
\* up: the shell runs; stale: late output of a timed out statement is still in its stream;
\* pin: the transaction it holds open at pin began, or 0; hyd: hydration, and what its log says.
Fresh == [up |-> TRUE, stale |-> FALSE, tx |-> FALSE, pin |-> 0, pos |-> Local, hyd |-> "pending", log |-> "pending"]
None == [up |-> FALSE, stale |-> FALSE, tx |-> FALSE, pin |-> 0, pos |-> 0, hyd |-> "pending", log |-> "pending"]

RInit ==
    /\ hist = <<0>> /\ faulty \in BOOLEAN /\ pauses = 0 /\ holds = 0 /\ sess = [n \in Sessions |-> None]
    /\ spc = "idle" /\ first = 0 /\ expected = 0 /\ syncTXID = 0 /\ repeat = 0 /\ drift = FALSE /\ after = 0
    /\ vpc = "idle" /\ boundary = 0 /\ primary = 0 /\ hydrated = TRUE /\ cycles = 0 /\ results = {}

--------------------------------------------------------------------------
(* The probe writer. Every write runs under its lock.                        *)

Bump == Local < MaxTX /\ hist' = Append(hist, hist[Local] + 1)
\* writeOnce, of the ticker.
WriteOnce == pauses = 0 /\ holds = 0 /\ Bump /\ UNCHANGED <<faulty, pauses, holds, sess, snap, ver, cycles, results>>
\* Mutant: only the ticker honours the verifier's pause.
MayUpdateAlways == TRUE
\* Update refuses while the verifier holds the load paused.
MayUpdate == pauses = 0

--------------------------------------------------------------------------
(* The VFS.                                                                  *)

Advance(n) ==
    /\ sess[n].up /\ sess[n].pos < Local /\ sess' = [sess EXCEPT ![n].pos = Local]
    /\ UNCHANGED <<hist, faulty, pauses, holds, snap, ver, cycles, results>>
Hydrates(n) ==
    /\ sess[n].up /\ sess[n].hyd = "pending" /\ sess' = [sess EXCEPT ![n].hyd = "complete", ![n].log = "complete"]
    /\ UNCHANGED <<hist, faulty, pauses, holds, snap, ver, cycles, results>>
\* Hydrated reads are turned off; the line follows once the poll has let go of the file.
HydrationFails(n) ==
    /\ sess[n].up /\ sess[n].hyd = "complete" /\ sess' = [sess EXCEPT ![n].hyd = "failed"]
    /\ UNCHANGED <<hist, faulty, pauses, holds, snap, ver, cycles, results>>
Logs(n) ==
    /\ sess[n].up /\ sess[n].hyd = "failed" /\ sess[n].log # "failed" /\ sess' = [sess EXCEPT ![n].log = "failed"]
    /\ UNCHANGED <<hist, faulty, pauses, holds, snap, ver, cycles, results>>

\* What a statement returns: a faithful VFS serves a transaction from where it began.
Reads(n) ==
    LET s == sess[n]
        right == hist[IF s.tx /\ s.pin # 0 THEN s.pin ELSE s.pos]
    IN  (IF s.stale THEN {MaxTX + 1} ELSE {right}) \cup (IF faulty THEN {hist[s.pos]} ELSE {})

--------------------------------------------------------------------------
(* session, drop, vfsSessionReusable.                                        *)

\* A session that is alive is used again; a failed start is inconclusive.
Open(n) == sess' = IF sess[n].up THEN sess ELSE [sess EXCEPT ![n] = Fresh]
Reusable(why) == why \in {"none", "not hydrated", "not caught up", "sync failed"}
\* Leaving a check: the transaction is rolled back or the session dropped.
Left(n, why) ==
    sess' = [sess EXCEPT ![n] =
        IF ~Reusable(why) THEN None
        ELSE [@ EXCEPT !.tx = FALSE, !.pin = 0, !.stale = @ \/ why = "statement timed out"]]
Why == {"not hydrated", "not caught up", "sync failed", "statement timed out", "unavailable"}

--------------------------------------------------------------------------
(* runSnapshot.                                                              *)

StartSnapshot ==
    /\ spc = "idle" /\ cycles < MaxCycles /\ cycles' = cycles + 1 /\ Open("snapshot") /\ spc' = "hydrate"
    /\ UNCHANGED <<hist, faulty, pauses, holds, first, expected, syncTXID, repeat, drift, after, hydrated, ver, results>>

\* Any step may fail; the probe's ticker is released.
SnapshotEnds(result) ==
    /\ spc' = "idle" /\ holds' = (IF spc = "hydrate" THEN holds ELSE holds - 1)
    /\ results' = results \cup {[kind |-> "snapshot", status |-> result, hydrated |-> hydrated, applied |-> sess["snapshot"].pos >= syncTXID /\ first < expected]}
    /\ first' = 0 /\ expected' = 0 /\ syncTXID' = 0 /\ repeat' = 0 /\ drift' = FALSE /\ after' = 0 /\ hydrated' = TRUE
SnapshotAborts ==
    /\ spc # "idle" /\ \E why \in Why : Left("snapshot", why)
    /\ SnapshotEnds("aborted") /\ UNCHANGED <<hist, faulty, pauses, ver, cycles>>

SnapshotHydrated ==
    /\ spc = "hydrate" /\ sess["snapshot"].log = "complete" /\ holds' = holds + 1 /\ spc' = "first"
    /\ sess' = [sess EXCEPT !["snapshot"].tx = TRUE]
    /\ UNCHANGED <<hist, faulty, pauses, first, expected, syncTXID, repeat, drift, after, hydrated, ver, cycles, results>>
FirstProbe ==
    /\ spc = "first" /\ first' \in Reads("snapshot") /\ spc' = "write"
    /\ sess' = [sess EXCEPT !["snapshot"].pin = sess["snapshot"].pos]
    /\ UNCHANGED <<hist, faulty, pauses, holds, expected, syncTXID, repeat, drift, after, hydrated, ver, cycles, results>>
\* writeProbe, once the verifier does not hold the load paused.
WriteProbe ==
    /\ spc = "write" /\ MayUpdate /\ Bump /\ expected' = hist[Local] + 1 /\ spc' = "sync"
    /\ UNCHANGED <<faulty, pauses, holds, sess, first, syncTXID, repeat, drift, after, hydrated, ver, cycles, results>>
SyncProbe ==
    /\ spc = "sync" /\ syncTXID' = Local /\ spc' = "wait"
    /\ UNCHANGED <<hist, faulty, pauses, holds, sess, first, expected, repeat, drift, after, hydrated, ver, cycles, results>>
\* waitTXID, then hydrationActive.
WaitTXID ==
    /\ spc = "wait" /\ sess["snapshot"].pos >= syncTXID /\ sess["snapshot"].log # "failed" /\ spc' = "repeat"
    /\ UNCHANGED <<hist, faulty, pauses, holds, sess, first, expected, syncTXID, repeat, drift, after, hydrated, ver, cycles, results>>
RepeatProbe ==
    /\ spc = "repeat" /\ repeat < Repeats /\ repeat' = repeat + 1
    /\ \E got \in Reads("snapshot") : drift' = (drift \/ got # first)
    /\ UNCHANGED <<hist, faulty, pauses, holds, sess, spc, first, expected, syncTXID, after, hydrated, ver, cycles, results>>
CommitAndProbe ==
    /\ spc = "repeat" /\ repeat = Repeats /\ spc' = "settle"
    /\ sess' = [sess EXCEPT !["snapshot"].tx = FALSE, !["snapshot"].pin = 0]
    /\ after' \in (IF sess["snapshot"].stale THEN {MaxTX + 1} ELSE {hist[sess["snapshot"].pos]})
    /\ hydrated' = (sess["snapshot"].hyd # "failed")
    /\ UNCHANGED <<hist, faulty, pauses, holds, first, expected, syncTXID, repeat, drift, ver, cycles, results>>

\* Mutant: the log is scanned at once.
SettledAtOnce(n) == TRUE
\* settledHydrationActive: a failure that was there at the last read is in the log by now.
Settled(n) == sess[n].hyd = "failed" => sess[n].log = "failed"
Confirmed == expected # first /\ after = expected
\* vfsSnapshotResult.
JudgeSnapshot ==
    /\ spc = "settle" /\ Settled("snapshot") /\ UNCHANGED <<hist, faulty, pauses, ver, cycles>>
    /\ IF sess["snapshot"].log = "failed" THEN Left("snapshot", "hydration failed") /\ SnapshotEnds("aborted")
       ELSE /\ UNCHANGED sess
            /\ SnapshotEnds(IF drift THEN "failed" ELSE IF ~Confirmed THEN "aborted" ELSE "passed")

--------------------------------------------------------------------------
(* The verifier's cycle around runRead.                                      *)

PauseAtBoundary ==
    /\ vpc = "idle" /\ cycles < MaxCycles /\ cycles' = cycles + 1 /\ pauses' = pauses + 1
    /\ boundary' = Local /\ Open("read") /\ vpc' = "hydrate"
    /\ UNCHANGED <<hist, faulty, holds, snap, primary, results>>
ReadEnds(result) ==
    /\ vpc' = "idle" /\ pauses' = pauses - 1 /\ boundary' = 0 /\ primary' = 0
    /\ results' = results \cup {[kind |-> "read", status |-> result, hydrated |-> sess["read"].hyd # "failed", applied |-> TRUE]}
ReadAborts ==
    /\ vpc # "idle" /\ (\E why \in Why : Left("read", why)) /\ ReadEnds("aborted")
    /\ UNCHANGED <<hist, faulty, holds, snap, cycles>>
ReadReady ==
    /\ vpc = "hydrate" /\ sess["read"].log = "complete" /\ sess["read"].pos >= boundary /\ vpc' = "primary"
    /\ UNCHANGED <<hist, faulty, pauses, holds, sess, snap, boundary, primary, cycles, results>>
PrimaryQueries ==
    /\ vpc = "primary" /\ primary' = hist[Local] /\ vpc' = "query"
    /\ UNCHANGED <<hist, faulty, pauses, holds, sess, snap, boundary, cycles, results>>
Query ==
    /\ vpc = "query" /\ \E got \in Reads("read") : vpc' = IF got = primary THEN "same" ELSE "differs"
    /\ UNCHANGED <<hist, faulty, pauses, holds, sess, snap, boundary, primary, cycles, results>>
JudgeRead ==
    /\ vpc \in {"same", "differs"} /\ Settled("read") /\ UNCHANGED <<hist, faulty, holds, snap, cycles>>
    /\ IF sess["read"].log = "failed" THEN Left("read", "hydration failed") /\ ReadEnds("aborted")
       ELSE UNCHANGED sess /\ ReadEnds(IF vpc = "same" THEN "passed" ELSE "failed")

RNext ==
    \/ WriteOnce \/ (\E n \in Sessions : Advance(n) \/ Hydrates(n) \/ HydrationFails(n) \/ Logs(n))
    \/ StartSnapshot \/ SnapshotAborts \/ SnapshotHydrated \/ FirstProbe \/ WriteProbe \/ SyncProbe \/ WaitTXID
    \/ RepeatProbe \/ CommitAndProbe \/ JudgeSnapshot
    \/ PauseAtBoundary \/ ReadAborts \/ ReadReady \/ PrimaryQueries \/ Query \/ JudgeRead

--------------------------------------------------------------------------
\* vfsReadResult and vfsSnapshotResult: a VFS that serves its transactions faithfully never fails either check, although the
\* two, the ticker and the verifier's pauses interleave and sessions are used again.
VFSNoFalseAlarm == \A r \in results : r.status = "failed" => faulty

\* settledHydrationActive: a snapshot check passes only on evidence: the reader had applied an update the first
\* read could not see, and was still serving hydrated reads.
VFSPassProves == \A r \in results : r.kind = "snapshot" /\ r.status = "passed" => r.hydrated /\ r.applied
=============================================================================
