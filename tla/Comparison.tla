----------------------------- MODULE Comparison -----------------------------
(* How two deployments are compared (builders_deployment.go, reliability.go): *)
(* each side has a scorecard of its workers' latest verification and the      *)
(* evidence of their complete runs; a verdict is inferred from the scorecards *)
(* and then corrected by the evidence (applyReliabilityVerdict).  The base is *)
(* finished; the head's workers keep verifying while the comparison is read.  *)
(* A run is the sequence of its verifications, oldest first, and whether      *)
(* evaluateRunEligibility found its coverage complete.                        *)
EXTENDS Integers, Sequences, FiniteSets, FiniteSetsExt

CONSTANTS Workers,         \* numbers: the order of the workers' names
          MaxHistory,
          EscalateAfter,   \* consecutive provider failures that count again
          RampUp           \* verifications that start within rampUpFailureDeadline

VARIABLES base, head,      \* worker -> [history, covered]
          shape            \* what else the comparison depends on
cvars == <<base, head, shape>>

BaseRuns == {[history |-> <<>>, covered |-> FALSE], [history |-> <<"pass">>, covered |-> TRUE],
             [history |-> <<"pass", "other">>, covered |-> TRUE]}

\* shape.completed: the head ended in a success teardown; shape.shared: its workers have
\* the same profile; shape.alike: same workload, profile and number of verifications.
Plain == [completed |-> FALSE, shared |-> FALSE, alike |-> TRUE]
CInit ==
    /\ base \in [Workers -> BaseRuns]
    /\ head = [w \in Workers |-> [history |-> <<>>, covered |-> FALSE]]
    /\ shape \in {Plain, [Plain EXCEPT !.completed = TRUE], [Plain EXCEPT !.shared = TRUE], [Plain EXCEPT !.alike = FALSE]}

Verified(w, kind) ==
    /\ Len(head[w].history) < MaxHistory
    /\ head' = [head EXCEPT ![w].history = Append(@, kind)]
    /\ UNCHANGED <<base, shape>>

\* The run of a head worker has the coverage evaluateRunEligibility asks for, or loses it.
Coverage(w) ==
    /\ head[w].history # <<>>
    /\ head' = [head EXCEPT ![w].covered = ~@]
    /\ UNCHANGED <<base, shape>>

CNext ==
    \/ \E w \in Workers, kind \in {"pass", "transient", "disk", "other"} : Verified(w, kind)
    \/ \E w \in Workers : Coverage(w)

--------------------------------------------------------------------------
\* environmentalStreakEscalated: the failure at i and the provider failures right before it.
StreakEscalated(h, i) ==
    \E n \in EscalateAfter .. i : \A j \in i - n + 1 .. i : h[j] = "transient"

IsRampUpFailure(h, i) == i <= RampUp /\ \A j \in 1 .. i - 1 : h[j] # "pass"

\* deploymentFailureCategory of a run's latest verification (scoreDeploymentWorker).
Outcome(run) ==
    LET h == run.history  i == Len(h)
    IN  CASE i = 0 -> "none"
          [] i > 0 /\ h[i] = "pass" -> "passed"
          [] i > 0 /\ h[i] = "disk" -> "soak_fixture"
          [] i > 0 /\ h[i] = "transient" /\ ~StreakEscalated(h, i) -> "environmental"
          [] OTHER -> IF IsRampUpFailure(h, i) THEN "ramp_up" ELSE "actionable"
OutcomePassed(o) == o \in {"passed", "environmental", "ramp_up"}
OutcomeFailed(o) == o \in {"actionable", "soak_fixture"}

Last(ws) == CHOOSE w \in ws : \A v \in ws : v <= w
Scored(side) == {w \in Workers : side[w].history # <<>>}

\* countDeploymentScorecardOutcome, comparisonPassedWorkers and comparisonFailedWorkers:
\* the workers by category, and the failure signatures; a signature has the category of
\* the last worker that shows it.
PassedWorkers(side) == Cardinality({w \in Workers : OutcomePassed(Outcome(side[w]))})
FailedWorkers(side) == Cardinality({w \in Workers : OutcomeFailed(Outcome(side[w]))})
Signature(run) == run.history[Len(run.history)]
Signatures(side) ==
    {s \in {"transient", "disk", "other"} :
        LET ws == {w \in Scored(side) : Signature(side[w]) = s}
        IN  ws # {} /\ OutcomeFailed(Outcome(side[Last(ws)]))}

\* comparisonOutcomeKey: the profile; a map by profile keeps its last worker's outcome.
Key(w) == IF shape.shared THEN Last(Workers) ELSE w
Keys == {Key(w) : w \in Workers}
ByKey(side) ==
    [k \in {Key(w) : w \in Scored(side)} |-> Outcome(side[Last({w \in Scored(side) : Key(w) = k})])]

\* finalizeDeploymentComparison.
Both == DOMAIN ByKey(base) \cap DOMAIN ByKey(head)
Improved == {k \in Both : ~OutcomePassed(ByKey(base)[k]) /\ OutcomePassed(ByKey(head)[k])}
Regressed == {k \in Both : OutcomePassed(ByKey(base)[k]) /\ OutcomeFailed(ByKey(head)[k])}
PassDelta == PassedWorkers(head) - PassedWorkers(base)
FailDelta == FailedWorkers(head) - FailedWorkers(base)

InferVerdict ==
    IF shape.completed THEN "passed"
    ELSE IF Scored(base) = {} \/ Scored(head) = {} THEN "insufficient_data"
    ELSE IF Regressed # {} /\ Improved = {} THEN "worse"
    ELSE IF Improved # {} /\ Regressed = {} /\ FailDelta <= 0 THEN "better"
    ELSE IF PassDelta > 0 /\ FailDelta < 0 THEN "better"
    ELSE IF PassDelta < 0 \/ FailDelta > 0 THEN "worse"
    ELSE IF Improved # {} \/ Regressed # {} \/ Signatures(head) # Signatures(base) THEN "mixed"
    ELSE "unchanged"

--------------------------------------------------------------------------
\* buildRunReliability counts every failed verification of the run.
Failures(run) == Cardinality({i \in 1 .. Len(run.history) : run.history[i] # "pass"})

\* evaluateRunEligibility: the run's coverage, incidents and health.
Eligible(run) == run.covered /\ Failures(run) = 0

\* compareRunReliability: the evidence by profile and region; runs of one profile are
\* added up, and then no longer have coverage.
Merged(side, k) ==
    LET ws == {w \in Workers : Key(w) = k}
    IN  [failures |-> MapThenSumSet(LAMBDA w : Failures(side[w]), ws),
         covered |-> Cardinality(ws) = 1 /\ \A w \in ws : side[w].covered]

\* Mutant: recovered health cancels the incidents of the run.
FindingByHealth(k) ==
    LET b == Merged(base, k)  h == Merged(head, k)
    IN  IF ~(b.covered /\ h.covered /\ shape.alike) THEN "inconclusive"
        ELSE IF k \in DOMAIN ByKey(head) /\ ByKey(head)[k] = "passed" THEN "unchanged"
        ELSE IF h.failures > b.failures THEN "new" ELSE "improved"

\* reliabilityFinding.
Finding(k) ==
    LET b == Merged(base, k)  h == Merged(head, k)
    IN  IF ~(b.covered /\ h.covered /\ shape.alike) THEN "inconclusive"
        ELSE IF b.failures > 0 /\ h.failures = 0 THEN "fixed"
        ELSE IF b.failures = 0 /\ h.failures > 0 THEN "new"
        ELSE IF h.failures > b.failures THEN "regressed"
        ELSE IF h.failures < b.failures THEN "improved" ELSE "unchanged"

\* Mutant: the eligibility of the head's runs is not looked at.
VerdictByFindings ==
    LET v == InferVerdict
    IN  IF v \in {"worse", "mixed"} \/ \E k \in Keys : Finding(k) \in {"new", "regressed"} THEN "worse"
        ELSE IF \E k \in Keys : Finding(k) = "inconclusive" THEN "insufficient_data"
        ELSE v

\* applyReliabilityVerdict.
Verdict ==
    LET v == InferVerdict
    IN  IF v \in {"worse", "mixed"} \/ \E k \in Keys : Finding(k) \in {"new", "regressed"} THEN "worse"
        ELSE IF (\E k \in Keys : Finding(k) = "inconclusive") \/ (\E w \in Workers : ~Eligible(head[w])) THEN "insufficient_data"
        ELSE v

--------------------------------------------------------------------------
Favourable == {"passed", "better", "unchanged"}

\* applyReliabilityVerdict: a favourable verdict needs every head worker's complete run to be clean and covered,
\* and the same profiles covered on the base.
FavourableIsProven ==
    Verdict \in Favourable =>
        \A w \in Workers : Eligible(head[w]) /\ base[w].covered

\* compareRunReliability, "recovered current health does not cancel them": with comparable coverage a profile
\* that failed more often than in the base is worse, whatever its latest verification.
IncidentsCount ==
    \A w \in Workers : ~shape.shared /\ shape.alike /\ head[w].covered /\ base[w].covered
        /\ Failures(head[w]) > Failures(base[w]) => Verdict = "worse"
=============================================================================
