------------------------------ MODULE CostMeter ------------------------------
(* Metering of object-store work (model/cost_meter.go): a worker's heartbeats *)
(* carry counters of its process and of its Litestream process, each with an  *)
(* epoch that names the process; the control plane adds what is new to hourly *)
(* buckets.  Heartbeats are lost, repeated, late and out of order; both       *)
(* processes restart; the worker's clock may be set back by a restart; rows   *)
(* older than the retention are pruned.                                       *)
EXTENDS Integers, FiniteSets, FiniteSetsExt

CONSTANTS MaxWork, MaxEpochs, MaxSent, MaxTime, Retention, Skews

VARIABLES clock, proc,   \* the worker: epochs and counters
          sent,          \* heartbeats on their way
          done,          \* the work really done, by counter
          state,         \* row of cost_meter_state: a set of at most one
          hourly,        \* rows of cost_meter_hourly: hour -> counter -> total
          pruning,       \* cutoff of a prune that has deleted buckets, or none
          taken, gone,   \* what heartbeats taken into account reported, by epoch; what was pruned
          sends
mvars == <<clock, proc, sent, done, state, hourly, pruning, taken, gone, sends>>

Counters == {"worker", "litestream"}
Zero == [c \in Counters |-> 0]
NoEpoch == 0
MInit ==
    /\ clock = Retention /\ sent = {} /\ done = Zero /\ state = {} /\ hourly = <<>> /\ pruning = {} /\ sends = 0
    /\ taken = [c \in Counters |-> [e \in 1 .. MaxEpochs |-> 0]] /\ gone = Zero
    /\ proc = [epoch |-> [c \in Counters |-> 1], count |-> Zero, skew |-> 0]

Tick ==
    /\ clock < MaxTime /\ clock' = clock + 1
    /\ UNCHANGED <<proc, sent, done, state, hourly, pruning, sends, taken, gone>>

Work(c) ==
    /\ done["worker"] + done["litestream"] < MaxWork
    /\ done' = [done EXCEPT ![c] = @ + 1] /\ proc' = [proc EXCEPT !.count[c] = @ + 1]
    /\ UNCHANGED <<clock, sent, state, hourly, pruning, sends, taken, gone>>

\* The Litestream process restarts, or the worker with it.
Restart(cs, skew) ==
    /\ "litestream" \in cs /\ \A c \in cs : proc.epoch[c] < MaxEpochs
    /\ skew # proc.skew => "worker" \in cs
    /\ proc' = [epoch |-> [c \in Counters |-> IF c \in cs THEN proc.epoch[c] + 1 ELSE proc.epoch[c]],
                count |-> [c \in Counters |-> IF c \in cs THEN 0 ELSE proc.count[c]],
                skew |-> skew]
    /\ UNCHANGED <<clock, sent, done, state, hourly, pruning, sends, taken, gone>>

\* A heartbeat; its poll of Litestream's metrics may have failed.  No two carry the same
\* time: the skews are zero and odd.
Send(polled) ==
    /\ sends < MaxSent /\ clock < MaxTime
    /\ sends' = sends + 1 /\ clock' = clock + 1
    /\ sent' = sent \cup {[at |-> 2 * clock + proc.skew, epoch |-> proc.epoch, count |-> proc.count, polled |-> polled]}
    /\ UNCHANGED <<proc, done, state, hourly, pruning, taken, gone>>

Lose(b) == sent' = sent \ {b} /\ UNCHANGED <<clock, proc, done, state, hourly, pruning, sends, taken, gone>>

--------------------------------------------------------------------------
\* classifyCounterLifetime.
Lifetime(previous, current) ==
    IF NoEpoch \in {previous, current} THEN "unknown" ELSE IF previous = current THEN "continued" ELSE "restarted"

\* Mutant: the first value of a new process is only a baseline.
AdvanceFromBaseline(previous, current, lifetime) ==
    IF lifetime = "restarted" \/ current < previous THEN [delta |-> 0, next |-> current]
    ELSE [delta |-> current - previous, next |-> current]

\* advanceCounter.
Advance(previous, current, lifetime) ==
    IF lifetime = "restarted" THEN [delta |-> current, next |-> current]
    ELSE IF current >= previous THEN [delta |-> current - previous, next |-> current]
    ELSE IF lifetime = "unknown" THEN [delta |-> current, next |-> current]
    ELSE [delta |-> 0, next |-> previous]

\* costMeterDelta: Litestream's counters are forgotten when the worker restarted, and
\* left alone when they were not polled.
CostMeterDelta(row, b) ==
    LET restarted == Lifetime(row.epoch["worker"], b.epoch["worker"])
        forget == restarted = "restarted"
        lastL == IF forget THEN 0 ELSE row.count["litestream"]
        epochL == IF forget THEN NoEpoch ELSE row.epoch["litestream"]
        w == Advance(row.count["worker"], b.count["worker"], restarted)
        l == IF b.polled THEN Advance(lastL, b.count["litestream"], Lifetime(epochL, b.epoch["litestream"]))
             ELSE [delta |-> 0, next |-> lastL]
    IN  [delta |-> [c \in Counters |-> IF c = "worker" THEN w.delta ELSE l.delta],
         count |-> [c \in Counters |-> IF c = "worker" THEN w.next ELSE l.next],
         epoch |-> [c \in Counters |-> IF c = "worker" THEN b.epoch[c] ELSE IF b.polled THEN b.epoch[c] ELSE epochL]]

NewRow == [at |-> 0, epoch |-> [c \in Counters |-> NoEpoch], count |-> Zero]

TooLate(b) == \E row \in state : b.at < row.at

Hour(at) == at - (at % 4)

\* RecordCostMeter, one transaction; the bucket is that of the worker's time.
RecordCostMeter(b) ==
    LET d == CostMeterDelta(IF state = {} THEN NewRow ELSE CHOOSE r \in state : TRUE, b)
        hour == Hour(b.at)
        old == IF hour \in DOMAIN hourly THEN hourly[hour] ELSE Zero
        new == [c \in Counters |-> old[c] + d.delta[c]]
    IN  IF TooLate(b) THEN UNCHANGED <<state, hourly>>
        ELSE /\ state' = {[at |-> b.at, epoch |-> d.epoch, count |-> d.count]}
             /\ hourly' = IF d.delta = Zero THEN hourly
                          ELSE [h \in DOMAIN hourly \cup {hour} |-> IF h = hour THEN new ELSE hourly[h]]

\* A heartbeat is never under way for longer than the retention.
Receive(b, again) ==
    /\ b.at >= 2 * (clock - Retention)
    /\ RecordCostMeter(b)
    /\ sent' = IF again THEN sent ELSE sent \ {b}
    /\ taken' = [c \in Counters |->
          IF TooLate(b) \/ (c = "litestream" /\ ~b.polled) THEN taken[c] ELSE [taken[c] EXCEPT ![b.epoch[c]] = b.count[c]]]
    /\ UNCHANGED <<clock, proc, done, pruning, gone, sends>>

\* PruneCostMeterBefore: buckets first, then states; the process may stop in between.
\* Mutant: the states go first.
PruneBucketsLate ==
    /\ pruning' = {2 * (clock - Retention)}
    /\ state' = {r \in state : r.at >= 2 * (clock - Retention)}
    /\ UNCHANGED <<clock, proc, sent, done, hourly, sends, taken, gone>>
PruneBuckets ==
    /\ pruning' = {2 * (clock - Retention)}
    /\ gone' = [c \in Counters |-> gone[c] + MapThenSumSet(LAMBDA h : hourly[h][c], {k \in DOMAIN hourly : k < 2 * (clock - Retention)})]
    /\ hourly' = [h \in {k \in DOMAIN hourly : k >= 2 * (clock - Retention)} |-> hourly[h]]
    /\ UNCHANGED <<clock, proc, sent, done, state, taken, sends>>
PruneStates ==
    /\ pruning # {}
    /\ pruning' = {}
    /\ \/ state' = {r \in state : r.at >= CHOOSE cutoff \in pruning : TRUE}
       \/ UNCHANGED state
    /\ UNCHANGED <<clock, proc, sent, done, hourly, sends, taken, gone>>

MNext ==
    \/ Tick
    \/ \E c \in Counters : Work(c)
    \/ \E cs \in SUBSET Counters, skew \in Skews : Restart(cs, skew)
    \/ \E polled \in BOOLEAN : Send(polled)
    \/ \E b \in sent : Lose(b) \/ \E again \in BOOLEAN : Receive(b, again)
    \/ PruneBuckets \/ PruneStates

--------------------------------------------------------------------------
Billed(c) == MapThenSumSet(LAMBDA h : hourly[h][c], DOMAIN hourly)

\* RecordCostMeter: whatever is lost, repeated, reordered, restarted or pruned, the buckets never hold more
\* work than was done.
NeverOverbilled == \A c \in Counters : Billed(c) <= done[c]

\* advanceCounter: nothing a heartbeat reported and the meter took into account stays unbilled, however
\* many heartbeats before it were lost and whichever process restarted in between.
NothingUnbilled ==
    \A c \in Counters : Billed(c) + gone[c] >= MapThenSumSet(LAMBDA e : taken[c][e], 1 .. MaxEpochs)

=============================================================================
