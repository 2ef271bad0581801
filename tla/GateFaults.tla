----------------------------- MODULE GateFaults -----------------------------
(* Whether a gate worker is at fault (rc_gate.go, rcGateSideFault): its       *)
(* events in the gate's window, heartbeats and status are read at any moment  *)
(* of the window.  A restart the worker announced is not a crash; a missed    *)
(* heartbeat deadline is not a fault when the worker came back in time.       *)
EXTENDS Integers, Sequences, FiniteSets, SequencesExt, FiniteSetsExt

CONSTANTS Phase,          \* rcGateStressPhase, 0 for a worker without phases
          PlannedWindow, StaleGrace, StaleAfter, CrashLoopEvents,
          Inputs,         \* of "crash", "silence", "disk"
          MaxTime, MaxEvents

VARIABLES clock, events,  \* oldest first; the query returns them newest first
          beats, verified,   \* times of heartbeats and of verifications
          started,        \* last_runtime_at is set: Litestream was seen running
          row,            \* status and message of the worker's row
          ends            \* when the worker restarted on purpose
gfvars == <<clock, events, beats, verified, started, row, ends>>

GFInit ==
    /\ clock = 0 /\ events = <<>> /\ beats = {0} /\ verified = {}
    /\ started = FALSE /\ row = "running" /\ ends = {}

Event(type, message, n) == [type |-> type, message |-> message, n |-> n, at |-> clock]
Emit(e) == Len(events) < MaxEvents /\ events' = Append(events, e)

Tick == clock < MaxTime /\ clock' = clock + 1 /\ UNCHANGED <<events, beats, verified, started, row, ends>>

Heartbeat(runs) ==
    /\ beats' = beats \cup {clock}
    /\ started' = (started \/ runs)
    /\ row' = IF row = "stale" THEN "running" ELSE row
    /\ UNCHANGED <<clock, events, verified, ends>>

\* checkStaleWorkers.
MarkStale ==
    /\ row = "running" /\ clock - Max(beats) >= StaleAfter
    /\ Emit(Event("worker_stale", "stale", 1)) /\ row' = "stale"
    /\ UNCHANGED <<clock, beats, verified, started, ends>>

VerificationReported(ok) ==
    /\ started
    /\ verified' = verified \cup {clock}
    /\ row' = IF ok THEN "running" ELSE "failing"
    /\ UNCHANGED <<clock, events, beats, started, ends>>

\* A phase or warm-up ends: an old image reports it as worker_failed, once or, within the
\* window, again; the machine then restarts.
PlannedEnd(again) ==
    /\ again = \E t \in ends : clock - t <= PlannedWindow
    /\ Emit(Event("worker_failed", "planned", 1))
    /\ ends' = IF again THEN ends ELSE ends \cup {clock}
    /\ UNCHANGED <<clock, beats, verified, started, row>>

\* A platform log row (n occurrences in one), or a failure the worker reports.
PlatformEvent(type, message, n) ==
    /\ Emit(Event(type, message, n))
    /\ UNCHANGED <<clock, beats, verified, started, row, ends>>

GFNext ==
    \/ Tick
    \/ "silence" \in Inputs /\ (MarkStale \/ \E b \in BOOLEAN : Heartbeat(b) \/ VerificationReported(b))
    \/ /\ "crash" \in Inputs
       /\ \/ \E b \in BOOLEAN : PlannedEnd(b)
          \/ \E m \in {"clean", "dirty", "not restarting"}, n \in 1 .. 2 : PlatformEvent("platform_restart", m, n)
          \/ PlatformEvent("platform_oom", "dirty", 1)
    \/ /\ "disk" \in Inputs
       /\ \/ PlatformEvent("worker_failed", "populate", 1)
          \/ \E m \in {"restore output", "data disk"} : PlatformEvent("platform_disk_full", m, 1)

--------------------------------------------------------------------------
NewestFirst == Reverse(events)
Within(at, moment) == at - moment \in -PlannedWindow .. PlannedWindow
Planned(e) == e.type = "worker_failed" /\ e.message = "planned"

\* rcGatePlannedRestarts.normalize: the moment a time belongs to.
Normalize(moments, at) ==
    LET boundary == (at \div Phase) * Phase
        near == {i \in DOMAIN moments : Within(at, moments[i])}
    IN  IF Phase > 0 THEN IF 2 * (at - boundary) > Phase THEN boundary + Phase ELSE boundary
        ELSE IF near # {} THEN moments[Min(near)] ELSE at

\* rcGatePlannedRestartsFor.
Moments ==
    FoldLeft(LAMBDA ms, e : LET m == Normalize(ms, e.at) IN IF Planned(e) /\ ~Contains(ms, m) THEN Append(ms, m) ELSE ms,
             <<>>, NewestFirst)

\* Mutant: the allowance of a moment is never used up.
ForgivesAlways(forgiven, e) ==
    LET m == Normalize(Moments, e.at)
    IN  /\ e.type = "platform_restart" /\ e.message # "not restarting" /\ Within(e.at, m)
        /\ Contains(Moments, m) \/ (Phase > 0 /\ e.message = "clean")

\* forgive: an announced moment, or a clean exit at a phase boundary, excuses one restart.
Forgives(forgiven, e) ==
    LET m == Normalize(Moments, e.at)
    IN  /\ e.type = "platform_restart" /\ e.message # "not restarting" /\ Within(e.at, m)
        /\ Contains(Moments, m) \/ (Phase > 0 /\ e.message = "clean")
        /\ m \notin forgiven

\* The crash events of rcGateWorkerFault.
IsCrash(e) == e.type \in {"platform_restart", "platform_oom", "worker_failed"} /\ ~Planned(e)
Crashes ==
    FoldLeft(LAMBDA acc, e :
                 IF ~IsCrash(e) THEN acc
                 ELSE IF Forgives(acc.forgiven, e)
                 THEN [acc EXCEPT !.forgiven = @ \cup {Normalize(Moments, e.at)}, !.count = @ + e.n - 1]
                 ELSE [acc EXCEPT !.count = @ + e.n, !.terminal = @ \/ e.message = "not restarting"],
             [count |-> 0, forgiven |-> {}, terminal |-> FALSE], NewestFirst)
CrashLoop == Crashes.count >= CrashLoopEvents \/ Crashes.terminal

\* Mutant: a burst of stale workers or a later sign of life excuses the silence.
StaleFaultIfGone(e) == {t \in beats \cup verified : t > e.at} = {} /\ clock - e.at >= StaleGrace

\* rcGateStaleFault: silent for the grace period, then or until now.
StaleFault(e) ==
    LET resumed == {t \in beats \cup verified : t > e.at}
    IN  IF resumed = {} THEN clock - e.at >= StaleGrace ELSE Min(resumed) - e.at > StaleGrace

Stale == {i \in DOMAIN events : events[i].type = "worker_stale"}
\* Mutant: the newest heartbeat alone is looked at.
CurrentlySilentSinceStale == Stale # {}

\* rcGateCurrentlySilent.
CurrentlySilent ==
    LET last == IF Stale = {} THEN -1 ELSE events[Max(Stale)].at
    IN  IF Max(beats) > last THEN clock - Max(beats) >= StaleGrace ELSE clock - last >= StaleGrace

\* rcGateRestoreCapacityPressure: the verifier's own restore output is not the data disk.
DiskFull == \E i \in DOMAIN events : events[i].type = "platform_disk_full" /\ events[i].message # "restore output"
Degraded == row = "failing" \/ (row = "stale" /\ CurrentlySilent)

\* rcGateWorkerFault.
WorkerFault ==
    IF DiskFull THEN "disk_exhausted"
    ELSE IF CrashLoop THEN "worker_crash_loop"
    ELSE IF Degraded \/ \E i \in Stale : StaleFault(events[i]) THEN "worker_degraded" ELSE "none"

\* rcGatePreStartEvidence: a failure before Litestream is started is the harness's.
PreStart == ~started /\ \E i \in DOMAIN events : events[i].message = "populate"
Fault == IF WorkerFault # "none" /\ verified = {} /\ PreStart THEN "harness_inconclusive" ELSE WorkerFault

--------------------------------------------------------------------------
\* rcGatePlannedRestarts, "each moment holds exactly one allowance": of a worker without phases no more restarts
\* are excused than it announced, and no other crash ever is.
OneAllowance ==
    LET all == MapThenSumSet(LAMBDA i : IF IsCrash(events[i]) THEN events[i].n ELSE 0, DOMAIN events)
        hard == MapThenSumSet(LAMBDA i : IF IsCrash(events[i]) /\ (events[i].type # "platform_restart" \/ events[i].message = "not restarting")
                                         THEN events[i].n ELSE 0, DOMAIN events)
    IN  /\ Crashes.count >= hard
        /\ Phase = 0 => all - Crashes.count <= Cardinality(ends)

\* rcGateStaleFault, "staleness counts when the worker never reported again once the grace period has
\* passed, or stayed silent longer than it" - also when it reports again by now.
SilenceCounts ==
    (\E i \in Stale : /\ clock - events[i].at > StaleGrace
                      /\ \A t \in beats \cup verified : t \notin events[i].at + 1 .. events[i].at + StaleGrace)
        => Fault # "none"

\* rcGateCurrentlySilent: a worker whose only trouble is deadlines it missed, each made good within the grace
\* period, is not at fault, whatever its row says.
MissedDeadlineOnly ==
    /\ row # "failing"
    /\ \A i \in DOMAIN events :
          /\ i \in Stale
          /\ clock - events[i].at < StaleGrace \/ \E t \in beats : t \in events[i].at + 1 .. events[i].at + StaleGrace
    => Fault = "none"
=============================================================================
