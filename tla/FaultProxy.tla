-------------------------------- MODULE FaultProxy --------------------------------
(* The S3 fault proxy (s3_fault_proxy.go) between Litestream and its bucket, with   *)
(* the guards the verification loop puts on its counters (runner.go). Litestream's   *)
(* requests and the bucket's answers are external.                                   *)
EXTENDS Naturals, FiniteSets

CONSTANTS Keys, Slots,                  \* object keys; requests in flight at once
          FailFirst, MaxFailures, MaxKeys,      \* the configuration; maxS3FaultProxyAttemptKeys
          MaxRequests, MaxCycles

Modes == {"uploadpart-reset", "source-get-reset", "provider-http-408", "provider-request-canceled", "connect-reset", "observe"}
Kinds == {"part", "get", "range", "list", "put", "complete", "connect"}

VARIABLES mode, required,       \* the mode; S3ObserveProxyRequired
          up,                   \* the proxy: "starting", "up", "direct" (unavailable, bypassed), "refused" (the worker fails)
          attempts, total, observedGET, observedRange,  \* the fault counters
          puts,                 \* levelPuts
          req,                  \* slot -> request in flight, or none
          sent, cycle, cycles, result,
          injected, perKey, drops,      \* ghosts since the reset: faults, per key; times the attempt map was dropped
          confirmed             \* ghost: objects created whose whole answer was forwarded
pvars == <<mode, required, up, attempts, total, observedGET, observedRange, puts, req, sent, cycle, cycles, result, injected, perKey, drops, confirmed>>
counters == <<attempts, total, injected, perKey, drops>>
seen == <<observedGET, observedRange>>

Idle == [kind |-> "none", key |-> "none", at |-> "none", status |-> "none"]
Zero == [k \in Keys |-> 0]
PInit ==
    /\ mode \in Modes /\ required \in BOOLEAN /\ up = "starting"
    /\ attempts = << >> /\ total = 0 /\ observedGET = 0 /\ observedRange = 0 /\ puts = 0
    /\ req = [s \in Slots |-> Idle] /\ sent = 0 /\ cycle = "idle" /\ cycles = 0 /\ result = "none"
    /\ injected = 0 /\ perKey = Zero /\ drops = 0 /\ confirmed = 0

\* newS3FaultProxy: observe injects nothing.
FailFirstAttempts == IF mode = "observe" THEN 0 ELSE FailFirst

\* startS3FaultProxy. Only an observing proxy the run does not need may be missing.
Start(ok) ==
    /\ up = "starting"
    /\ up' = IF ok THEN "up" ELSE IF mode = "observe" /\ ~required THEN "direct" ELSE "refused"
    /\ UNCHANGED <<mode, required, counters, seen, puts, req, sent, cycle, cycles, result, confirmed>>

--------------------------------------------------------------------------
(* recordFault and ResetCycle, under the proxy's lock.                       *)

\* The map is dropped when it holds more than MaxKeys keys.
Tried == IF Cardinality(DOMAIN attempts) > MaxKeys THEN << >> ELSE attempts
Count(key) == (IF key \in DOMAIN Tried THEN Tried[key] ELSE 0) + 1
\* Mutant: the budget of the cycle is not consulted.
ExhaustedNever == FALSE
Exhausted == MaxFailures > 0 /\ total >= MaxFailures
Faults(key) == FailFirstAttempts > 0 /\ ~Exhausted /\ Count(key) <= FailFirstAttempts
RecordFault(key) ==
    IF FailFirstAttempts = 0 THEN UNCHANGED counters
    ELSE /\ drops' = drops + (IF Tried # attempts THEN 1 ELSE 0)
         /\ attempts' = IF Exhausted THEN Tried ELSE [k \in DOMAIN Tried \cup {key} |-> IF k = key THEN Count(key) ELSE Tried[k]]
         /\ IF Faults(key) THEN total' = total + 1 /\ injected' = injected + 1 /\ perKey' = [perKey EXCEPT ![key] = @ + 1]
            ELSE UNCHANGED <<total, injected, perKey>>
\* Mutant: what the last cycle saw stays.
ResetCycleKeeps == attempts' = << >> /\ UNCHANGED <<total, seen>>
ResetCycle == attempts' = << >> /\ total' = 0 /\ observedGET' = 0 /\ observedRange' = 0

--------------------------------------------------------------------------
(* ServeHTTP, in steps a reset may fall between.                             *)

Target(kind) ==
    CASE mode = "uploadpart-reset" -> kind = "part"
      [] mode = "source-get-reset" -> kind \in {"get", "range"}
      [] mode \in {"provider-http-408", "provider-request-canceled"} -> kind \in {"get", "range", "list"}
      [] mode = "connect-reset" -> kind = "connect"
      [] mode = "observe" -> FALSE
\* A request the mode does not aim at passes untouched; only observe looks at its answer.
Request(s, kind, key) ==
    /\ up = "up" /\ req[s] = Idle /\ (mode = "observe" \/ Target(kind)) /\ sent < MaxRequests /\ sent' = sent + 1
    /\ req' = [req EXCEPT ![s] = [Idle EXCEPT !.kind = kind, !.key = key, !.at = IF Target(kind) THEN "observe" ELSE "forward"]]
    /\ UNCHANGED <<mode, required, up, counters, seen, puts, cycle, cycles, result, confirmed>>
\* recordObservedSourceGET.
ObserveGET(s) ==
    /\ req[s].at = "observe" /\ req' = [req EXCEPT ![s].at = "decide"]
    /\ observedGET' = observedGET + (IF mode = "source-get-reset" THEN 1 ELSE 0)
    /\ observedRange' = observedRange + (IF mode = "source-get-reset" /\ req[s].kind = "range" THEN 1 ELSE 0)
    /\ UNCHANGED <<mode, required, up, counters, puts, sent, cycle, cycles, result, confirmed>>
\* A faulted request never reaches the bucket, or loses its answer; any other passes.
Decide(s) ==
    /\ req[s].at = "decide" /\ RecordFault(req[s].key)
    /\ req' = [req EXCEPT ![s] = Idle]
    /\ UNCHANGED <<mode, required, up, seen, puts, sent, cycle, cycles, result, confirmed>>

\* The status the meter keeps for a response. Mutant: an interim answer is kept.
StatusInterim(interim, final) == IF interim THEN "1xx" ELSE final
Status(interim, final) == final
\* The bucket answers, after 100 Continue for a large body; the copy of its answer may be cut (the handler panics).
Answer(s, interim, final) ==
    /\ req[s].at = "forward" /\ (interim => req[s].kind \in {"put", "part"}) /\ (final = "error in body" => req[s].kind = "complete")
    /\ req' = [req EXCEPT ![s].at = "answered", ![s].status = Status(interim, final)]
    /\ confirmed' = confirmed + (IF req[s].kind \in {"put", "complete"} /\ final = "2xx" THEN 1 ELSE 0)
    /\ UNCHANGED <<mode, required, up, counters, seen, puts, sent, cycle, cycles, result>>
\* recordUpload: a finished answer of an object's creation, in observe mode only.
Metered(r) == r.status = "2xx" /\ r.kind \in {"put", "complete"}
Done(s) ==
    /\ req[s].at = "answered" /\ req' = [req EXCEPT ![s] = Idle] /\ puts' = puts + (IF Metered(req[s]) THEN 1 ELSE 0)
    /\ UNCHANGED <<mode, required, up, counters, seen, sent, cycle, cycles, result, confirmed>>

--------------------------------------------------------------------------
(* The verification loop around a cycle.                                     *)

BeginCycle ==
    /\ up \in {"up", "direct"} /\ cycle = "idle" /\ cycles < MaxCycles /\ cycles' = cycles + 1 /\ cycle' = "run" /\ result' = "none"
    /\ IF up = "up" THEN ResetCycle ELSE UNCHANGED <<attempts, total, seen>>
    /\ injected' = 0 /\ perKey' = Zero /\ drops' = 0
    /\ UNCHANGED <<mode, required, up, puts, req, sent, confirmed>>
\* applyS3FaultProxyVerificationGuards: a pass without the fault it was to survive is a failure.
Guarded(passed) ==
    IF ~passed THEN "failed"
    ELSE IF mode = "observe" THEN "passed"
    ELSE IF mode = "source-get-reset" /\ (observedGET = 0 \/ observedRange = 0) THEN "failed"
    ELSE IF FailFirst > 0 /\ total = 0 THEN "failed" ELSE "passed"
EndCycle(passed) ==
    /\ cycle = "run" /\ cycle' = "idle" /\ result' = Guarded(passed)
    /\ UNCHANGED <<mode, required, up, counters, seen, puts, req, sent, cycles, confirmed>>

PNext ==
    \/ (\E ok \in BOOLEAN : Start(ok)) \/ BeginCycle \/ (\E passed \in BOOLEAN : EndCycle(passed))
    \/ \E s \in Slots :
        \/ (\E kind \in Kinds, key \in Keys : Request(s, kind, key))
        \/ ObserveGET(s) \/ Decide(s) \/ Done(s)
        \/ (\E interim \in BOOLEAN, final \in {"2xx", "error", "error in body", "cut"} : Answer(s, interim, final))

--------------------------------------------------------------------------
\* applyS3FaultProxyVerificationGuards: a cycle of a fault profile is reported passed only when a fault was injected after its
\* own reset: neither the last cycle's faults nor a bypassed proxy can vouch for it.
GuardHonest == result = "passed" /\ cycle = "idle" /\ mode # "observe" => up = "up" /\ (FailFirst > 0 => injected > 0)

\* recordFault: the faults of a cycle stay within the budget, and a request that is retried gets
\* through: its key fails at most FailFirst times unless the attempt map was dropped.
FaultBudget ==
    /\ MaxFailures > 0 /\ cycle = "run" => injected <= MaxFailures
    /\ \A k \in Keys : perKey[k] <= FailFirst * (1 + drops)

\* recordUpload: the meter counts every object whose creation the bucket confirmed, and no other.
MeterExact == puts + Cardinality({s \in Slots : req[s].at = "answered" /\ Metered(req[s])}) = confirmed
=============================================================================
