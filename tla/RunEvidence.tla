----------------------------- MODULE RunEvidence -----------------------------
(* The evidence of one run, from the worker to the reliability report.  The   *)
(* worker counts the errors of its workload (recordChurnAttempt), writes each *)
(* as a file of a durable outbox (persistRunEvidence), uploads the files      *)
(* until they are accepted (flushRunEvidence) and sends heartbeats with the   *)
(* same counters, which can be lost or overtake each other.  The control      *)
(* plane journals what arrives (handleHeartbeat, handleWorkerEvent) and       *)
(* buildRunReliability folds the journals into the evidence a release is      *)
(* judged by.                                                                 *)
EXTENDS Naturals, FiniteSets, Sequences, FiniteSetsExt, SequencesExt, TLC

CONSTANTS OutboxLimit,      \* evidenceOutboxMaxEvents
          MaxErrors, MaxEpochs, MaxBeats, MaxRecords, MaxLost, MaxVerifs, MinSpan, MaxGap

VARIABLES clock,       \* of the worker: orders the snapshots
          proc,        \* the worker process: epoch, attempts, errors; stopped once the outbox is full
          outbox,      \* the files of churn-outbox
          upload,      \* flushRunEvidence: the names it listed, and the one that was accepted
          beats,       \* heartbeats on their way
          expected,    \* the run the control plane expects is still this one
          runtime,     \* evidence_runtime
          events,      \* evidence_events
          verifs,      \* evidence_verifications
          lost         \* requests whose answer, or which themselves, were lost
rvars == <<clock, proc, outbox, upload, beats, expected, runtime, events, verifs, lost>>

NoUpload == [todo |-> {}, sent |-> {}]
Events == [epoch : 1..MaxEpochs, n : 1..MaxErrors]

RInit ==
    /\ clock = 0
    /\ proc = [epoch |-> 1, errors |-> 0, stopped |-> FALSE]
    /\ outbox = {} /\ upload = NoUpload /\ beats = {} /\ expected = TRUE
    /\ runtime = <<>> /\ events = <<>> /\ verifs = <<>> /\ lost = 0

--------------------------------------------------------------------------
\* recordChurnAttempt of an attempt that failed: count, then persist; the load stops
\* when the outbox has no room.
ChurnError ==
    /\ ~proc.stopped /\ proc.errors < MaxErrors
    /\ proc' = [proc EXCEPT !.errors = @ + 1, !.stopped = Cardinality(outbox) >= OutboxLimit]
    /\ outbox' = IF Cardinality(outbox) >= OutboxLimit THEN outbox
                 ELSE outbox \union {[epoch |-> proc.epoch, n |-> proc.errors + 1]}
    /\ UNCHANGED <<clock, upload, beats, expected, runtime, events, verifs, lost>>

\* The process restarts: new counters in a new epoch, the outbox is on the volume.
RestartWorker ==
    /\ proc.epoch < MaxEpochs
    /\ proc' = [epoch |-> proc.epoch + 1, errors |-> 0, stopped |-> FALSE]
    /\ upload' = NoUpload
    /\ UNCHANGED <<clock, outbox, beats, expected, runtime, events, verifs, lost>>

\* Mutant: the file is removed before it is sent.
FlushListRemove ==
    /\ upload = NoUpload /\ outbox # {}
    /\ upload' = [NoUpload EXCEPT !.todo = outbox] /\ outbox' = {}
    /\ UNCHANGED <<clock, proc, beats, expected, runtime, events, verifs, lost>>

\* flushRunEvidence: list the directory; one upload at a time (uploadMu).
FlushList ==
    /\ upload = NoUpload /\ outbox # {}
    /\ upload' = [NoUpload EXCEPT !.todo = outbox]
    /\ UNCHANGED <<clock, proc, outbox, beats, expected, runtime, events, verifs, lost>>

\* handleWorkerEvent under LockWorkerReports: the runtime record, then the event;
\* a report of a run that is not expected is kept apart.
Accept(e) ==
    /\ runtime' = Append(runtime, [kind |-> "event", epoch |-> e.epoch, at |-> 0, errors |-> e.n, id |-> e.n, attributed |-> expected])
    /\ events' = Append(events, IF expected THEN [type |-> "workload_error", epoch |-> e.epoch, id |-> e.n, attributed |-> TRUE]
                                ELSE [type |-> "quarantined_report", epoch |-> e.epoch, id |-> e.n, attributed |-> FALSE])

\* postJSON of the next file: delivered; or delivered with the answer lost, or lost,
\* which both end the flush.
FlushPost(e, fate) ==
    /\ e \in upload.todo /\ upload.sent = {}
    /\ fate # "ok" => lost < MaxLost
    /\ lost' = IF fate = "ok" THEN lost ELSE lost + 1
    /\ IF fate = "gone" THEN UNCHANGED <<runtime, events>>
       ELSE Len(runtime) < MaxRecords /\ Accept(e)
    /\ upload' = IF fate = "ok" THEN [todo |-> upload.todo \ {e}, sent |-> {e}] ELSE NoUpload
    /\ UNCHANGED <<clock, proc, outbox, beats, expected, verifs>>

\* ... then the file is removed.
FlushRemove ==
    /\ upload.sent # {}
    /\ outbox' = outbox \ upload.sent
    /\ upload' = [upload EXCEPT !.sent = {}]
    /\ UNCHANGED <<clock, proc, beats, expected, runtime, events, verifs, lost>>

\* SendHeartbeat with currentSnapshot.
SendHeartbeat ==
    /\ clock < MaxBeats /\ clock' = clock + 1
    /\ beats' = beats \union {[kind |-> "heartbeat", epoch |-> proc.epoch, at |-> clock + 1, errors |-> proc.errors, id |-> 0]}
    /\ UNCHANGED <<proc, outbox, upload, expected, runtime, events, verifs, lost>>

\* handleHeartbeat: in any order, or never.
ReceiveHeartbeat(h) ==
    /\ Len(runtime) < MaxRecords
    /\ beats' = beats \ {h}
    /\ runtime' = Append(runtime, h @@ [attributed |-> expected])
    /\ UNCHANGED <<clock, proc, outbox, upload, expected, events, verifs, lost>>

\* The worker is moved to another run: what still arrives is not of the expected one.
ReplaceRun ==
    /\ expected /\ expected' = FALSE
    /\ UNCHANGED <<clock, proc, outbox, upload, beats, runtime, events, verifs, lost>>

\* handleVerification, by outcome, at a time of the control plane.
ReceiveVerification(status) ==
    /\ Len(verifs) < MaxVerifs
    /\ \E at \in (IF verifs = <<>> THEN 0 ELSE Last(verifs).at)..MaxVerifs :
         verifs' = Append(verifs, [status |-> status, at |-> at, attributed |-> expected])
    /\ UNCHANGED <<clock, proc, outbox, upload, beats, expected, runtime, events, lost>>

RNext ==
    \/ ChurnError \/ RestartWorker \/ FlushList \/ FlushRemove \/ SendHeartbeat \/ ReplaceRun
    \/ \E e \in Events, fate \in {"ok", "unanswered", "gone"} : FlushPost(e, fate)
    \/ \E h \in beats : ReceiveHeartbeat(h)
    \/ \E s \in {"passed", "failed", "aborted", "pending"} : ReceiveVerification(s)

--------------------------------------------------------------------------
(* buildRunReliability.                                                       *)
Empty == [health |-> "unknown", complete |-> TRUE, count |-> 0, unexpected |-> 0, unattributed |-> 0,
          incomplete |-> 0, errors |-> 0, first |-> 0, last |-> 0, gap |-> 0, kinds |-> {},
          lastRun |-> 0, lastAt |-> 0, prev |-> [k \in 1..MaxEpochs |-> 0], beat |-> [k \in 1..MaxEpochs |-> 0], seen |-> {}]

\* The verifications, in their order.
FoldVerification(e, v) ==
    IF ~v.attributed
    THEN [e EXCEPT !.unattributed = @ + 1, !.complete = FALSE,
                   !.incomplete = IF v.status = "aborted" THEN @ + 1 ELSE @,
                   !.kinds = IF v.status = "failed" THEN @ \union {"failed"} ELSE @]
    ELSE IF v.status = "pending" THEN [e EXCEPT !.health = "pending"]
    ELSE IF v.status = "aborted" THEN [e EXCEPT !.incomplete = @ + 1, !.kinds = @ \union {"aborted"}]
    ELSE [e EXCEPT !.unexpected = IF v.status = "failed" THEN @ + 1 ELSE @,
                   !.kinds = IF v.status = "failed" THEN @ \union {"failed"} ELSE @,
                   !.count = @ + 1, !.health = v.status,
                   !.first = IF e.count = 0 THEN v.at ELSE @,
                   !.gap = IF e.count = 0 THEN @ ELSE Max({@, v.at - e.last}),
                   !.last = v.at]

\* Mutant: any heartbeat is taken for the latest.
ForwardAlways(e, r) == r.kind = "heartbeat"

\* A heartbeat that was collected after every one before it.
Forward(e, r) == r.kind = "heartbeat" /\ r.at > e.lastAt

\* Mutant: the counters of a record count again what an earlier one showed.
NewErrorsTwice(e, r) == r.errors

\* What a record adds to the errors already seen in its epoch.
NewErrors(e, r) == Max({r.errors, e.prev[r.epoch]}) - e.prev[r.epoch]

\* applyRuntimeEvidence: one runtime record.
FoldRuntime(e, r) ==
    LET f == Forward(e, r)
        replaced == f /\ e.lastRun \notin {0, r.epoch}
        reset == f /\ r.errors < e.beat[r.epoch]
        new == NewErrors(e, r)
    IN  IF r.kind = "event" /\ <<r.epoch, r.id>> \in e.seen THEN e
        ELSE IF ~r.attributed
        THEN [e EXCEPT !.unattributed = @ + 1, !.kinds = @ \union {"runtime_attribution_unproven"},
                       !.seen = IF r.kind = "event" THEN @ \union {<<r.epoch, r.id>>} ELSE @]
        ELSE [e EXCEPT
                !.seen = IF r.kind = "event" THEN @ \union {<<r.epoch, r.id>>} ELSE @,
                !.lastAt = IF f THEN r.at ELSE @,
                !.lastRun = IF f THEN r.epoch ELSE @,
                !.beat[r.epoch] = IF f THEN r.errors ELSE @,
                !.incomplete = @ + (IF replaced THEN 1 ELSE 0) + (IF reset THEN 1 ELSE 0),
                !.kinds = @ \union (IF replaced THEN {"workload_run_replaced"} ELSE {})
                            \union (IF reset THEN {"workload_counters_reset"} ELSE {})
                            \union (IF new > 0 THEN {"workload_errors"} ELSE {}),
                !.unexpected = @ + new, !.errors = @ + new,
                !.prev[r.epoch] = Max({@, r.errors})]

\* The events: those whose counters the runtime records carry are not counted again.
FoldEvent(e, v) ==
    IF <<v.epoch, v.id>> \in e.seen THEN e
    ELSE [e EXCEPT !.seen = @ \union {<<v.epoch, v.id>>}, !.kinds = @ \union {v.type},
                   !.unattributed = IF v.attributed THEN @ ELSE @ + 1]

Report ==
    LET v == FoldLeft(FoldVerification, Empty, verifs)
        r == FoldLeft(FoldRuntime, v, runtime)
        e == FoldLeft(FoldEvent, [r EXCEPT !.seen = {}], events)
    IN  [e EXCEPT !.complete = @ /\ e.count > 0]

\* evaluateRunEligibility at time "now" of a run that started at 0; the exposure to
\* maintenance and the workload's progress are taken as given.
CoverageComplete(e, now) ==
    /\ e.complete /\ e.unattributed = 0 /\ e.incomplete = 0
    /\ e.count >= 2 /\ e.last - e.first >= MinSpan
    /\ e.first <= MaxGap /\ e.gap <= MaxGap /\ now - e.last <= MaxGap
    /\ e.health # "pending"
Eligible(e, now) == CoverageComplete(e, now) /\ e.unexpected = 0 /\ e.health = "passed"

--------------------------------------------------------------------------
\* buildRunReliability: duplicated, reordered and overtaken reports count every workload error once: as many
\* as the highest counter that arrived in each epoch, and one per failed verification.
CountedOnce ==
    LET e == Report
        seen(k) == Max({0} \union {r.errors : r \in {q \in Range(runtime) : q.attributed /\ q.epoch = k}})
    IN  /\ e.errors = MapThenSumSet(seen, 1..MaxEpochs)
        /\ e.unexpected = e.errors + Cardinality({i \in DOMAIN verifs : verifs[i].status = "failed" /\ verifs[i].attributed})

\* applyRuntimeEvidence: an honest worker's counters never look reset, however its heartbeats overtake each
\* other; a process that was replaced between two of them is never a clean run.
ResetsAreReal ==
    LET e == Report
        heard == {r.epoch : r \in {q \in Range(runtime) : q.kind = "heartbeat" /\ q.attributed}}
        inOrder == \A i, j \in DOMAIN runtime : i < j /\ runtime[i].kind = "heartbeat" /\ runtime[j].kind = "heartbeat"
                        => runtime[i].at < runtime[j].at
    IN  /\ "workload_counters_reset" \notin e.kinds
        /\ Cardinality(heard) > 1 /\ inOrder => \A now \in 0..MaxVerifs : ~Eligible(e, now)

\* flushRunEvidence: an error of the workload is in the outbox until the control plane has it.
NothingForgotten ==
    \A k \in 1..MaxEpochs, n \in 1..MaxErrors :
        LET happened == k < proc.epoch \/ (k = proc.epoch /\ n <= proc.errors)
            journaled == \E i \in DOMAIN events : events[i].epoch = k /\ events[i].id = n
        IN  k = proc.epoch /\ happened /\ ~proc.stopped => journaled \/ [epoch |-> k, n |-> n] \in outbox
=============================================================================
