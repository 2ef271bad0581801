-------------------------------- MODULE Pausers --------------------------------
(* The verifier pauses the workloads of a worker one after the other           *)
(* (verifier.go pauseLoad) and resumes them.  Two of them here: the full-text  *)
(* load (fts_load.go), which runs each step under a gate, and the replay       *)
(* engine (replay/engine.go), which acknowledges a pause where it parks and    *)
(* which superviseReplay (load_replay.go) starts again when it ends.           *)
EXTENDS Naturals

CONSTANTS Rows,                 \* of the dataset, perhaps none
          Timeouts,             \* whether a pause may time out
          MaxPauses, MaxInserts, MaxEnds

VARIABLES caller,               \* "idle", "fts", "fts wait", "replay", "replay wait", "held", and the ways back
          failing,              \* pauseLoad resumes after an error
          ftsPaused, fpc, ftsFailed,    \* ftsLoad: resume # nil, its loop, failure
          running, paused, ack, gen,    \* Engine; gen numbers resumeCh
          rpc, back, waits,     \* the engine's loop, where it parked, on which resumeCh
          row,                  \* rows of this pass left
          pauses, inserts, ends
pvars == <<caller, failing, ftsPaused, fpc, ftsFailed, running, paused, ack, gen, rpc, back, waits, row, pauses, inserts, ends>>
fts == <<ftsPaused, fpc, ftsFailed>>
engine == <<running, paused, ack, gen>>
loop == <<rpc, back, waits, row>>
bounds == <<pauses, inserts, ends>>

PInit ==
    /\ caller = "idle" /\ failing = FALSE /\ ftsPaused = FALSE /\ fpc = "tick" /\ ftsFailed = FALSE
    /\ running = FALSE /\ paused = FALSE /\ ack = FALSE /\ gen = 0
    /\ rpc = "off" /\ back = "" /\ waits = 0 /\ row = 0 /\ pauses = 0 /\ inserts = 0 /\ ends = 0

--------------------------------------------------------------------------
(* ftsLoad.run: the gate is held during a step.                              *)
FTSBegin ==
    /\ fpc = "tick" /\ ~ftsPaused /\ inserts < MaxInserts /\ inserts' = inserts + 1 /\ fpc' = "step"
    /\ UNCHANGED <<caller, failing, ftsPaused, ftsFailed, engine, loop, pauses, ends>>
FTSEnd ==
    /\ fpc = "step" /\ fpc' \in {"tick", "failing"}
    /\ UNCHANGED <<caller, failing, ftsPaused, ftsFailed, engine, loop, bounds>>
FTSFails ==
    /\ fpc = "failing" /\ fpc' = "ended" /\ ftsFailed' = TRUE
    /\ UNCHANGED <<caller, failing, ftsPaused, engine, loop, bounds>>
FTSLoop == FTSBegin \/ FTSEnd \/ FTSFails

GateFree == fpc # "step"

--------------------------------------------------------------------------
(* Engine.Run.                                                               *)
Run ==
    /\ rpc = "off" /\ running' = TRUE /\ rpc' = "gate"
    /\ UNCHANGED <<caller, failing, fts, paused, ack, gen, back, waits, row, bounds>>

\* It ends, on an error or after the only pass; superviseReplay may run it again.
RunEnds ==
    /\ rpc \in {"gate", "row", "insert"} /\ ends < MaxEnds /\ ends' = ends + 1
    /\ running' = FALSE /\ ack' = (ack \/ paused) /\ rpc' \in {"off", "over"}
    /\ UNCHANGED <<caller, failing, fts, paused, gen, back, waits, row, pauses, inserts>>

\* waitIfPaused at one of its three places: go on, or acknowledge and park.
WaitIfPaused(at, to) ==
    /\ rpc = at
    /\ \/ ~paused /\ rpc' = to /\ UNCHANGED <<ack, back, waits>>
       \/ paused /\ ack' = TRUE /\ rpc' = "parked" /\ back' = to /\ waits' = gen
    /\ UNCHANGED <<caller, failing, fts, running, paused, gen, row, bounds>>
\* Its resumeCh is closed: another pause has another.
Unparks ==
    /\ rpc = "parked" /\ (~paused \/ gen # waits) /\ rpc' = back
    /\ UNCHANGED <<caller, failing, fts, engine, back, waits, row, bounds>>

\* Mutant: only the rows ask whether the engine is paused.
PassStartUngated ==
    /\ rpc = "gate" /\ rpc' = "open"
    /\ UNCHANGED <<caller, failing, fts, engine, back, waits, row, bounds>>
\* replayOnce.
PassStart == WaitIfPaused("gate", "open")
Open ==
    /\ rpc = "open" /\ row' = Rows /\ rpc' = "row"
    /\ UNCHANGED <<caller, failing, fts, engine, back, waits, bounds>>
NextRow == row > 0 /\ WaitIfPaused("row", "until")
PassEnds ==
    /\ rpc = "row" /\ row = 0 /\ rpc' = "gate"
    /\ UNCHANGED <<caller, failing, fts, engine, back, waits, row, bounds>>
\* waitUntil: paused is asked again together with the time; the timer or a pause wakes it.
WaitUntil == WaitIfPaused("until", "due")
Due ==
    /\ rpc = "due"
    /\ \/ rpc' = "until" /\ UNCHANGED inserts
       \/ ~paused /\ inserts < MaxInserts /\ inserts' = inserts + 1 /\ rpc' = "insert"
    /\ UNCHANGED <<caller, failing, fts, engine, back, waits, row, pauses, ends>>
\* insertWithRetry returns: inserted, skipped or dropped.
Insert ==
    /\ rpc = "insert" /\ row' = row - 1 /\ rpc' = "row"
    /\ UNCHANGED <<caller, failing, fts, engine, back, waits, bounds>>
ReplayStep == Run \/ PassStart \/ Open \/ NextRow \/ PassEnds \/ WaitUntil \/ Due \/ Insert \/ Unparks

--------------------------------------------------------------------------
(* pauseLoad and resumeLoad.                                                 *)
PauseLoad ==
    /\ caller = "idle" /\ pauses < MaxPauses /\ pauses' = pauses + 1 /\ caller' = "fts wait" /\ failing' = FALSE
    /\ UNCHANGED <<fts, engine, loop, inserts, ends>>
\* ftsLoad.Pause, once it has the gate; a workload that failed says so.
PauseFTS ==
    /\ caller = "fts wait"
    /\ \/ GateFree /\ ~ftsFailed /\ ftsPaused' = TRUE /\ caller' = "replay" /\ UNCHANGED failing
       \/ (Timeouts \/ (GateFree /\ ftsFailed)) /\ caller' = "resume fts" /\ failing' = TRUE /\ UNCHANGED ftsPaused
    /\ UNCHANGED <<fpc, ftsFailed, engine, loop, bounds>>

\* Mutant: a pause counts as acknowledged at once.
NewAckAtOnce == TRUE
NewAck == ~running
\* Engine.Pause: a new acknowledgement and a new resumeCh; an engine that does not run is quiet.
PauseReplay ==
    /\ caller = "replay" /\ caller' = "replay wait" /\ paused' = TRUE /\ gen' = gen + 1 /\ ack' = NewAck
    /\ UNCHANGED <<failing, fts, running, loop, bounds>>
ReplayPaused ==
    /\ caller = "replay wait"
    /\ \/ ack /\ caller' = "held" /\ UNCHANGED failing
       \/ Timeouts /\ caller' = "resume replay" /\ failing' = TRUE
    /\ UNCHANGED <<fts, engine, loop, bounds>>

\* resumeLoad in order; after an error in reverse, from the pauser that failed.
ResumeLoad == caller = "held" /\ caller' = "resume fts" /\ UNCHANGED <<failing, fts, engine, loop, bounds>>
ResumeFTS ==
    /\ caller = "resume fts" /\ GateFree /\ ftsPaused' = FALSE /\ caller' = (IF failing THEN "idle" ELSE "resume replay")
    /\ UNCHANGED <<failing, fpc, ftsFailed, engine, loop, bounds>>
ResumeReplay ==
    /\ caller = "resume replay" /\ paused' = FALSE /\ ack' = FALSE /\ caller' = (IF failing THEN "resume fts" ELSE "idle")
    /\ UNCHANGED <<failing, fts, running, gen, loop, bounds>>
CallerStep == PauseFTS \/ PauseReplay \/ ReplayPaused \/ ResumeLoad \/ ResumeFTS \/ ResumeReplay

PNext == FTSLoop \/ ReplayStep \/ RunEnds \/ PauseLoad \/ CallerStep

--------------------------------------------------------------------------
\* pauseLoad: from its return until resumeLoad neither workload writes, although a pause may meet an engine that
\* still wakes from the one before, that ends or that is started again.
HeldQuiet == caller = "held" => rpc # "insert" /\ fpc # "step"

\* Engine.Pause is acknowledged without its timeout, also in a loop over a dataset without rows.
PauseWaits == caller \in {"fts wait", "replay", "replay wait"}
=============================================================================
