-------------------------------- MODULE WALShape --------------------------------
(* The WAL reset check from Litestream's exit on (walreset_check.go,           *)
(* wal_frames.go): the WAL is restarted while Litestream is down and the load  *)
(* goes on writing, the writers are paused and drained, the frames up to       *)
(* Litestream's saved position are scanned, and only then is Litestream        *)
(* started and its replica judged. A frame slot holds the number of the        *)
(* generation, counted by salt-1, that wrote it last.                          *)
EXTENDS Naturals, Sequences

CONSTANTS Depth,                        \* frames of the generation current at the stop
          TargetResets, MinResets,      \* targetResets, minResets
          MaxGens, MaxDrains, MaxSnapshots

VARIABLES slots, hdr, committed, written,       \* the WAL file and its walk
          tx,           \* the load's open transaction: its last frame, or 0
          backfilled,   \* the next transaction restarts the WAL
          paused,
          pc, k, drains,
          obs,          \* walResetObservation
          l9, l9Before, \* the replica's snapshots, and those listed before the stop
          defect,       \* the restarted Litestream replicated damaged data
          layout,       \* ghost: the WAL as Litestream's startup scan met it
          verdict
wvars == <<slots, hdr, committed, written, tx, backfilled, paused, pc, k, drains, obs, l9, l9Before, defect, layout, verdict>>
wal == <<slots, hdr, committed, written, tx, backfilled>>
rest == <<paused, k, drains, l9, l9Before, defect, layout, verdict>>

SavedGen == 1
Unread == [gen |-> 0, written |-> 0, bytes |-> 0]
NoTail == [checked |-> FALSE, foreign |-> FALSE]

\* Litestream has exited; its position is unknown (0) or inside the generation of the stop.
SInit ==
    /\ slots = [i \in 1 .. Depth |-> SavedGen] /\ hdr = SavedGen /\ committed = Depth /\ written = Depth
    /\ tx = 0 /\ backfilled = FALSE /\ paused = FALSE /\ pc = "restart" /\ k = 1 /\ drains = 0
    /\ \E saved \in {0} \cup {Depth - 1, Depth} :
          obs = [saved |-> saved, before |-> SavedGen, final |-> Unread, maxWritten |-> 0, maxEarlier |-> 0, tail |-> NoTail]
    /\ l9 = 0 /\ l9Before = 0 /\ defect = FALSE /\ layout = "none" /\ verdict = "none"

--------------------------------------------------------------------------
(* SQLite's WAL (external).                                                  *)

\* One more frame of a transaction; the first one restarts a backfilled WAL.
Frame(commit) ==
    LET fresh == backfilled /\ tx = 0
        g == IF fresh THEN hdr + 1 ELSE hdr
        at == IF tx # 0 THEN tx + 1 ELSE IF fresh THEN 1 ELSE committed + 1
    IN
    /\ at <= Depth + 1 /\ g <= MaxGens
    /\ slots' = (IF at > Len(slots) THEN Append(slots, g) ELSE [slots EXCEPT ![at] = g])
    /\ hdr' = g /\ written' = at /\ backfilled' = FALSE
    /\ committed' = (IF commit THEN at ELSE IF fresh THEN 0 ELSE committed)
    /\ tx' = IF commit THEN 0 ELSE at

\* The load writes on until it is paused; what it writes after the restart changes nothing here.
Down == pc \in {"restart", "restarted?", "burst", "sample", "drain", "draining", "resample", "start"}
LoadWrites == Down /\ ~paused /\ (\E commit \in BOOLEAN : Frame(commit)) /\ UNCHANGED <<pc, obs, rest>>
LoadRollsBack == Down /\ ~paused /\ tx # 0 /\ tx' = 0 /\ UNCHANGED <<slots, hdr, committed, written, backfilled, pc, obs, rest>>
Checkpointed ==
    /\ Down /\ ~paused /\ tx = 0 /\ committed > 0 /\ backfilled' = TRUE
    /\ UNCHANGED <<slots, hdr, committed, written, tx, pc, obs, rest>>
\* A checkpoint that truncates the file.
Truncated ==
    /\ Down /\ ~paused /\ tx = 0 /\ slots # <<>> /\ hdr < MaxGens /\ slots' = <<>> /\ hdr' = hdr + 1
    /\ committed' = 0 /\ written' = 0 /\ backfilled' = FALSE
    /\ UNCHANGED <<tx, pc, obs, rest>>

--------------------------------------------------------------------------
(* The observation.                                                          *)

Max2(a, b) == IF a > b THEN a ELSE b

Valid == slots # <<>>           \* the file has a header

\* recordGeneration, of the WAL as it is.
RecordGeneration(o) ==
    LET earlier == IF hdr # (IF o.final.gen = 0 THEN o.before ELSE o.final.gen) /\ o.final.gen > o.before
                   THEN Max2(o.maxEarlier, o.final.written) ELSE o.maxEarlier
    IN  [o EXCEPT !.final = [gen |-> hdr, written |-> written, bytes |-> Len(slots)],
                  !.maxEarlier = earlier,
                  !.maxWritten = IF hdr > o.before THEN Max2(@, written) ELSE @]

\* scanTail: the frames from the final generation's end to the saved position.
ScanTail(o) ==
    IF o.saved = 0 \/ o.final.gen = 0 THEN NoTail
    ELSE [checked |-> TRUE, foreign |-> \E i \in o.final.written + 1 .. o.saved : i > Len(slots) \/ slots[i] # o.before]

ShapeEvidence(o) ==
    IF o.saved = 0 \/ o.final.gen = 0 THEN "unverified"
    ELSE IF o.saved > o.final.bytes \/ o.maxWritten >= o.saved \/ o.maxEarlier > o.final.written THEN "contradicted"
    ELSE IF ~o.tail.checked THEN "unverified"
    ELSE IF o.tail.foreign THEN "contradicted" ELSE "confirmed"

--------------------------------------------------------------------------
(* run, from the reader's release on.                                        *)

Go(to) == pc' = to /\ UNCHANGED rest
\* Every error before the validation is inconclusive; the load resumes, Litestream is started.
Inconclusive == pc' = "done" /\ verdict' = "aborted" /\ paused' = FALSE /\ UNCHANGED <<k, drains, l9, l9Before, defect, layout>>
Fails == pc # "done" /\ pc # "validated" /\ Inconclusive /\ UNCHANGED <<wal, obs>>

\* checkpointAndWriteWALReset: the checkpoint may be kept from completing.
RestartWrite ==
    /\ pc = "restart" /\ tx = 0 /\ Frame(TRUE) /\ pc' = "restarted?"
    /\ UNCHANGED <<obs, rest>>
RestartCheckpoint ==
    /\ pc = "restart" /\ tx = 0 /\ ~backfilled /\ committed > 0 /\ backfilled' = TRUE
    /\ UNCHANGED <<slots, hdr, committed, written, tx, pc, obs, rest>>
RestartSeen ==
    LET before == IF obs.final.gen = 0 THEN obs.before ELSE obs.final.gen IN
    /\ pc = "restarted?" /\ obs' = (IF Valid THEN RecordGeneration(obs) ELSE obs)
    /\ IF Valid /\ hdr > before THEN Go("burst") ELSE Go("restart")
    /\ UNCHANGED wal
Burst ==
    /\ pc = "burst" /\ tx = 0 /\ Frame(TRUE) /\ pc' \in {"burst", "sample"}
    /\ UNCHANGED <<obs, rest>>
BurstSeen ==
    /\ pc = "sample" /\ obs' = (IF Valid THEN RecordGeneration(obs) ELSE obs)
    /\ pc' = (IF k = TargetResets THEN "drain" ELSE "restart") /\ k' = IF k = TargetResets THEN k ELSE k + 1
    /\ UNCHANGED <<wal, paused, drains, l9, l9Before, defect, layout, verdict>>
\* The down budget is spent, or the WAL will not restart again.
DownOver == pc \in {"restart", "burst"} /\ Go("drain") /\ UNCHANGED <<wal, obs>>

\* Mutant: pausing the load is taken for draining it.
DrainedByPause == paused
\* drainWALResetWriters: the write lock could be taken.
Drained == tx = 0
PauseAndDrain ==
    /\ pc = "drain" /\ ~paused /\ paused' = TRUE /\ pc' = "draining"
    /\ UNCHANGED <<wal, obs, k, drains, l9, l9Before, defect, layout, verdict>>
DrainEnds ==
    /\ pc = "draining"
    /\ \/ Drained /\ Go("resample")
       \/ /\ ~Drained /\ drains < MaxDrains /\ drains' = drains + 1 /\ paused' = FALSE /\ pc' = "drain"
          /\ UNCHANGED <<k, l9, l9Before, defect, layout, verdict>>
    /\ UNCHANGED <<wal, obs>>

\* With the writers drained the WAL is sampled once more, then its tail is scanned.
Resample ==
    /\ pc = "resample" /\ Valid
    /\ LET sampled == RecordGeneration(obs) IN obs' = [sampled EXCEPT !.tail = ScanTail(sampled)]
    /\ Go("start") /\ UNCHANGED wal

\* What Litestream's startup verification walks.
Stale == obs.saved # 0 /\ written < obs.saved /\ Len(slots) >= obs.saved /\ \A i \in written + 1 .. obs.saved : slots[i] = SavedGen

\* Litestream starts; its flaw, if it has one, needs the shape.
StartLitestream ==
    /\ pc = "start" /\ layout' = (IF Stale /\ tx = 0 THEN "stale" ELSE "other")
    /\ defect' \in (IF Stale THEN BOOLEAN ELSE {FALSE}) /\ pc' = "judge"
    /\ UNCHANGED <<wal, obs, paused, k, drains, l9, l9Before, verdict>>
Judge ==
    /\ pc = "judge"
    /\ IF obs.final.gen - obs.before < MinResets \/ ShapeEvidence(obs) # "confirmed" THEN Inconclusive ELSE Go("catchup")
    /\ UNCHANGED <<wal, obs>>
CaughtUp ==
    /\ pc = "catchup" /\ paused' = FALSE /\ pc' = "validate"
    /\ UNCHANGED <<wal, obs, k, drains, l9, l9Before, defect, layout, verdict>>

\* A snapshot of the replica, taken from the primary, hides what was replicated.
Snapshot ==
    /\ pc \in {"judge", "catchup", "validate"} /\ l9 < MaxSnapshots /\ l9' = l9 + 1
    /\ UNCHANGED <<wal, pc, obs, paused, k, drains, l9Before, defect, layout, verdict>>

\* The restores and comparisons: they see the defect unless a snapshot hid it.
Validate ==
    /\ pc = "validate" /\ pc' = "validated"
    /\ verdict' = IF defect /\ l9 = 0 THEN "failed" ELSE "passed"
    /\ UNCHANGED <<wal, obs, paused, k, drains, l9, l9Before, defect, layout>>
\* Mutant: a snapshot does not make a passing cycle inconclusive.
InterferenceFailed == verdict = "failed" /\ l9 # l9Before
\* snapshotInterference; the listing itself may fail.
Interference == l9 # l9Before
Finish ==
    /\ pc = "validated" /\ pc' = "done"
    /\ verdict' \in (IF Interference THEN {"aborted"} ELSE {verdict, "aborted"})
    /\ UNCHANGED <<wal, obs, paused, k, drains, l9, l9Before, defect, layout>>

SNext ==
    \/ LoadWrites \/ LoadRollsBack \/ Checkpointed \/ Truncated \/ Fails
    \/ RestartWrite \/ RestartCheckpoint \/ RestartSeen \/ Burst \/ BurstSeen \/ DownOver
    \/ PauseAndDrain \/ DrainEnds \/ Resample \/ StartLitestream \/ Judge \/ CaughtUp \/ Snapshot \/ Validate \/ Finish

--------------------------------------------------------------------------
\* shapeEvidence: a cycle that is judged really had the shape it is about: when Litestream started, no
\* transaction was open and every frame from the last generation's end to the saved
\* position was of the saved generation, whatever the load wrote between the samples.
ShapeWasThere == pc \in {"catchup", "validate", "validated"} => layout = "stale"

\* walResetResult: the verdict speaks of what the restart replicated: a cycle passes only without a defect,
\* and fails only with one.
VerdictHonest == pc = "done" => (verdict = "passed" => ~defect) /\ (verdict = "failed" => defect)
=============================================================================
