---------------------------- MODULE ComparisonCache ----------------------------
(* Comparisons of deployments are slow to build: comparison_cache.go keeps the *)
(* built ones in memory and in the database, under the state of the            *)
(* deployments they are about, serves an old one while a new one is built, and *)
(* builds each only once at a time.  One comparison here; the states of its    *)
(* deployments are numbered.                                                   *)
EXTENDS Naturals, FiniteSets

CONSTANTS Readers, TTL, MaxStale,       \* ages, in steps of the clock
          MaxState, MaxTime, MaxFlights, MaxRestarts

VARIABLES now, state,   \* the clock, the deployments' state
          entries,      \* [1..MaxState -> [in, value, at, flight]], value 0 when there is none
          flights,      \* [1..MaxFlights -> [key, pc, value, err, at]]; flight 0 is none
          count,
          slot,         \* comparisonBuildSlot: the flight that builds
          stored,       \* comparison snapshots in the database: [1..MaxState -> [value, at]]
          reader,       \* [Readers -> [pc, key, flight, since, value, at]]
          restarts
kvars == <<now, state, entries, flights, count, slot, stored, reader, restarts>>

NoEntry == [in |-> FALSE, value |-> 0, at |-> 0, flight |-> 0]
NoFlight == [key |-> 0, pc |-> "none", value |-> 0, err |-> FALSE, at |-> 0]
Asleep == [pc |-> "idle", key |-> 0, flight |-> 0, since |-> 0, value |-> 0, at |-> 0]

KInit ==
    /\ now = 0 /\ state = 1 /\ entries = [k \in 1..MaxState |-> NoEntry] /\ flights = [f \in 1..MaxFlights |-> NoFlight]
    /\ count = 0 /\ slot = 0 /\ stored = [k \in 1..MaxState |-> [value |-> 0, at |-> 0]]
    /\ reader = [r \in Readers |-> Asleep] /\ restarts = 0

Clock == now < MaxTime /\ now' = now + 1 /\ UNCHANGED <<state, entries, flights, count, slot, stored, reader, restarts>>
Deploys == state < MaxState /\ state' = state + 1 /\ UNCHANGED <<now, entries, flights, count, slot, stored, reader, restarts>>

--------------------------------------------------------------------------
\* Mutant: the comparison is kept under its sources alone.
FingerprintNone == 1
\* comparisonDeploymentFingerprint.
Fingerprint == state
AskKey(r) ==
    /\ reader[r].pc \in {"idle", "done"}
    /\ reader' = [reader EXCEPT ![r] = [Asleep EXCEPT !.pc = "ask", !.key = Fingerprint, !.since = state]]
    /\ UNCHANGED <<now, state, entries, flights, count, slot, stored, restarts>>

\* Mutant: an entry goes although a flight is under way.
EmptyFlying(e) == e.value = 0
Empty(e) == e.value = 0 /\ e.flight = 0
\* evictExpiredLocked.
Evicted ==
    [k \in 1..MaxState |->
        LET e == IF entries[k].value # 0 /\ now - entries[k].at >= MaxStale THEN [entries[k] EXCEPT !.value = 0, !.at = 0] ELSE entries[k]
        IN  IF Empty(e) THEN NoEntry ELSE e]

\* Mutant: a stored comparison is taken at any age.
LoadableAny(k) == stored[k].value # 0
\* loadComparisonSnapshot, for an entry that is new.
Loadable(k) == stored[k].value # 0 /\ now - stored[k].at < MaxStale
Looked(k) ==
    IF Evicted[k].in THEN Evicted[k]
    ELSE IF Loadable(k) THEN [NoEntry EXCEPT !.in = TRUE, !.value = stored[k].value, !.at = stored[k].at]
    ELSE [NoEntry EXCEPT !.in = TRUE]

\* deploymentComparison under its lock: a fresh value, an old one while a flight is under way, or wait for it.
Ask(r) ==
    LET k == reader[r].key
        e == Looked(k)
        fresh == e.value # 0 /\ now - e.at < TTL
        joins == e.flight # 0 \/ fresh
        f == IF joins THEN e.flight ELSE count + 1
    IN
    /\ reader[r].pc = "ask" /\ (joins \/ count < MaxFlights)
    /\ entries' = [Evicted EXCEPT ![k] = [e EXCEPT !.flight = f]]
    /\ IF joins THEN UNCHANGED <<flights, count>>
       ELSE count' = f /\ flights' = [flights EXCEPT ![f] = [@ EXCEPT !.key = k, !.pc = "queued"]]
    /\ reader' = [reader EXCEPT ![r] = IF e.value # 0 THEN [@ EXCEPT !.pc = "done", !.value = e.value, !.at = e.at]
                                       ELSE [@ EXCEPT !.pc = "wait", !.flight = f]]
    /\ UNCHANGED <<now, state, slot, stored, restarts>>

\* The flight is done, with an error perhaps, or the reader's context is.
Waited(r) ==
    /\ reader[r].pc = "wait"
    /\ LET f == flights[reader[r].flight] IN
       \/ f.pc \in {"store", "done"} /\ ~f.err /\ reader' = [reader EXCEPT ![r].pc = "done", ![r].flight = 0, ![r].value = f.value, ![r].at = now]
       \/ reader' = [reader EXCEPT ![r] = Asleep]
    /\ UNCHANGED <<now, state, entries, flights, count, slot, stored, restarts>>
--------------------------------------------------------------------------
(* runComparisonFlight.                                                      *)
\* The slot, or the queue's timeout.
Slot(f) ==
    /\ flights[f].pc = "queued"
    /\ \/ slot = 0 /\ slot' = f /\ flights' = [flights EXCEPT ![f].pc = "building"]
       \/ flights' = [flights EXCEPT ![f].pc = "built", ![f].err = TRUE] /\ UNCHANGED slot
    /\ UNCHANGED <<now, state, entries, count, stored, reader, restarts>>
\* buildRequestedDeploymentComparison reads the deployments of its own time.
Built(f) ==
    /\ flights[f].pc = "building" /\ slot' = 0
    /\ \/ flights' = [flights EXCEPT ![f].pc = "built", ![f].value = state]
       \/ flights' = [flights EXCEPT ![f].pc = "built", ![f].err = TRUE]
    /\ UNCHANGED <<now, state, entries, count, stored, reader, restarts>>

\* The value enters the cache if it was dear to build; an entry without one goes.
Land(f) ==
    LET k == flights[f].key
        e == entries[k]
    IN
    /\ flights[f].pc = "built"
    /\ \E dear \in BOOLEAN :
          LET keep == IF flights[f].err THEN [e EXCEPT !.flight = 0]
                      ELSE IF dear THEN [e EXCEPT !.flight = 0, !.value = flights[f].value, !.at = now]
                      ELSE [e EXCEPT !.flight = 0, !.value = 0, !.at = 0]
          IN  /\ entries' = [entries EXCEPT ![k] = IF keep.value = 0 THEN NoEntry ELSE keep]
              /\ flights' = [flights EXCEPT ![f].pc = IF dear /\ ~flights[f].err THEN "store" ELSE "done", ![f].at = IF dear THEN now ELSE 0]
    /\ UNCHANGED <<now, state, count, slot, stored, reader, restarts>>
\* storeComparisonSnapshot, which also deletes the ones past their age; it may fail.
Store(f) ==
    /\ flights[f].pc = "store" /\ flights' = [flights EXCEPT ![f].pc = "done", ![f].at = 0]
    /\ \/ stored' = [k \in 1..MaxState |-> IF k = flights[f].key THEN [value |-> flights[f].value, at |-> flights[f].at]
                                           ELSE IF now - stored[k].at >= MaxStale THEN [value |-> 0, at |-> 0] ELSE stored[k]]
       \/ UNCHANGED stored
    /\ UNCHANGED <<now, state, entries, count, slot, reader, restarts>>

Restart ==
    /\ restarts < MaxRestarts /\ restarts' = restarts + 1 /\ entries' = [k \in 1..MaxState |-> NoEntry] /\ slot' = 0
    /\ flights' = [f \in 1..MaxFlights |-> NoFlight]
    /\ reader' = [r \in Readers |-> Asleep]
    /\ UNCHANGED <<now, state, count, stored>>

KNext ==
    \/ Clock \/ Deploys \/ Restart
    \/ \E r \in Readers : AskKey(r) \/ Ask(r) \/ Waited(r)
    \/ \E f \in 1..MaxFlights : Slot(f) \/ Built(f) \/ Land(f) \/ Store(f)

--------------------------------------------------------------------------
\* deploymentComparison: what a reader gets is never about deployments older than those at its request, although
\* it may have been built for another reader, kept in memory or in the database across a restart.
NotOfBefore == \A r \in Readers : reader[r].pc = "done" => reader[r].value >= reader[r].since

\* comparisonCacheMaxStale: a comparison a reader takes is younger than that, also one kept in the database across a restart.
NotTooOld == \A r \in Readers : (reader[r].pc # "done" /\ reader'[r].pc = "done") => now - reader'[r].at < MaxStale

\* comparisonFlight: a comparison is built by one flight at a time, whatever was evicted or landed meanwhile.
OneFlight == \A f, g \in 1..MaxFlights : (f # g /\ flights[f].key = flights[g].key) => ~({flights[f].pc, flights[g].pc} \subseteq {"queued", "building", "built"})
=============================================================================
