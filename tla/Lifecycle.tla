----------------------------- MODULE Lifecycle ------------------------------
(***************************************************************************)
(* The policies that end or pause the runs of one source                   *)
(* (internal/orchestrator/lifecycle.go, dormancy.go): success teardown,     *)
(* failed-source pause, PR max age, sustained-failure dormancy and the      *)
(* teardown of a source, each in a goroutine of its own, with the           *)
(* deployments, reports and operators they run beside.                      *)
(*                                                                         *)
(* Success teardown, failed-source pause, source teardown and rollouts hold *)
(* the source lock, so one job stands for the holder; max age and dormancy  *)
(* decide on lists they read without it.  Success teardown also holds the   *)
(* locks of its workers, which the verification handler needs; every other  *)
(* operation takes a worker's lock for one step.  Destroying one worker is  *)
(* one step here (Provisioning has its parts).                             *)
(***************************************************************************)
EXTENDS Naturals, FiniteSets, Sequences

CONSTANTS
    Workers,
    Scored,            \* the workers that count for release quality
    Loops,             \* the policies whose allowlists match the source
    Kinds,             \* the verifications that are reported
    MinPair, MinFleet, MinConsecutive,  \* FailedSourcePausePolicy
    MinFailures,       \* DormancyPolicy
    EscalateAfter,     \* EnvironmentalFailurePolicy
    MaxReports, MaxDeployments, MaxRuns,
    MaxFaults          \* failed operations and alarms

VARIABLES
    dep,       \* GetLatestDeployment: deployments are numbered
    old,       \* it is older than the policies' thresholds
    rows,      \* worker -> [st, v, run, trig, sick]
    hist,      \* worker -> its verifications, newest first
    archives,  \* run_archives: <<type, deployment, worker or "">>
    job,       \* the holder of the source lock
    age,       \* evaluatePRMaxAge
    dorm,      \* evaluateDormancy
    paused,    \* history: the evidence of the last failed-source pause
    faults

lvars == <<dep, old, rows, hist, archives, job, age, dorm, paused, faults>>

None == <<>>
Count(S) == Cardinality(S)
SetSt(w, s) == [rows EXCEPT ![w].st = s]

(***************************************************************************)
(* What a verification counts for.                                         *)
(***************************************************************************)
Inconclusive(k) == k \in {"abort", "pending"}
Succeeded(k) == k \in {"pass", "latepass"}
Failed(k) == ~Inconclusive(k) /\ ~Succeeded(k)
Conclusive(h) == SelectSeq(h, LAMBDA e : ~Inconclusive(e.k))

\* environmentalVerificationIDs walks from the oldest to the newest; "env" is a
\* transient object store failure, and a long enough streak of them counts again.
StreakAborts(h) == \* slip: an aborted check ends a streak
    LET s[i \in 1..(Len(h) + 1)] == IF i > Len(h) \/ h[i].k # "env" THEN 0 ELSE s[i + 1] + 1 IN s
Streak(h) ==
    LET s[i \in 1..(Len(h) + 1)] ==
            IF i > Len(h) THEN 0 ELSE IF Inconclusive(h[i].k) THEN s[i + 1]
            ELSE IF h[i].k = "env" THEN s[i + 1] + 1 ELSE 0
    IN s
Environmental(h) == {i \in DOMAIN h : h[i].k = "env" /\ Streak(h)[i] <= EscalateAfter}

\* environmentalWithoutEscalation looks back from the report that arrives.
Run(c) == {i \in DOMAIN c : \A j \in 1..i : c[j].k = "env"}
WithoutEscalation(h, k) == k = "env" /\ 1 + Count(Run(Conclusive(h))) <= EscalateAfter

\* A verification that weighs against the deployment.
Actionable(h, i) == Failed(h[i].k) /\ i \notin Environmental(h)
Since(h) == {i \in DOMAIN h : h[i].dep = dep}
Current(w) == {i \in Since(hist[w]) : hist[w][i].run = rows[w].run}

(***************************************************************************)
(* buildDeploymentRollout.                                                 *)
(***************************************************************************)
Listed == {w \in Workers : rows[w].st \notin {"none", "stopped", "failed"}}
Matches(w, d) == rows[w].v = d
AttentionAwake(w) == rows[w].st \notin {"running", "dormant"} \/ rows[w].sick \* slip: a paused worker is at rest
NeedsAttention(w) == rows[w].st # "running" \/ rows[w].sick
NeedsVerification(w) == rows[w].st \in {"running", "probing", "degraded", "starting"}

\* latestVerificationInWindow over the run's own checks: a pass under a newer
\* pending check does not count.
Verified(w) ==
    LET seen == {i \in Current(w) : ~Inconclusive(hist[w][i].k)} IN
    /\ seen # {}
    /\ LET i == CHOOSE x \in seen : \A y \in seen : x <= y IN
       ~(Succeeded(hist[w][i].k) /\ \E j \in Current(w) : j < i /\ hist[w][j].k = "pending")

RolloutStatus ==
    CASE Listed = {} -> "no_workers"
      [] \E w \in Listed : ~Matches(w, dep) -> "rolling_out"
      [] \E w \in Listed : rows[w].st = "probing" -> "probing"
      [] \E w \in Listed : rows[w].st \in {"dormant", "degraded"} \/ rows[w].sick -> "needs_attention"
      [] \E w \in Listed : NeedsVerification(w) /\ ~Verified(w) -> "settling"
      [] OTHER -> "stable"

(***************************************************************************)
(* Success teardown.                                                       *)
(***************************************************************************)
\* workerPassedSuccessWindow: no failure that counts, and a pass after the
\* threshold that is newer than every pending check.
Clean(w, d) ==
    LET h == SelectSeq(hist[w], LAMBDA e : e.dep = d /\ e.run = rows[w].run) IN
    /\ \A i \in DOMAIN h : ~Actionable(h, i)
    /\ \E i \in DOMAIN h : h[i].k = "latepass" /\ \A j \in 1..i : h[j].k # "pending"
PassedSuccessWindow(w, d) == rows[w].st = "running" /\ Matches(w, d) /\ ~rows[w].sick /\ Clean(w, d)

\* successTeardownCandidate.  The measured coverage and the age of the heartbeat
\* only narrow it: an evaluation may give up at any time.
SuccessCandidate == old /\ RolloutStatus = "stable" /\ \A w \in Listed : PassedSuccessWindow(w, dep)

StartSuccess ==
    /\ job = None /\ "success" \in Loops /\ SuccessCandidate
    /\ job' = [k |-> "success", pc |-> "lock", dep |-> dep, todo |-> Listed, locked |-> {},
               was |-> [w \in Workers |-> rows[w].run]]
    /\ UNCHANGED <<dep, old, rows, hist, archives, age, dorm, paused, faults>>

LockedBySuccess == IF job # None /\ job.k = "success" THEN job.locked ELSE {}
LockOne(w) ==
    /\ job # None /\ job.k = "success" /\ job.pc = "lock" /\ w \in job.todo \ job.locked
    /\ job' = [job EXCEPT !.locked = @ \union {w}]
    /\ UNCHANGED <<dep, old, rows, hist, archives, age, dorm, paused, faults>>

\* The second look, with every worker locked.
RevalidateAnySet == \* slip: the workers listed now may be others than the locked ones
    SuccessCandidate /\ dep = job.dep
Revalidate ==
    /\ dep = job.dep /\ \A w \in job.locked : rows[w].run = job.was[w] /\ Matches(w, dep)
    /\ SuccessCandidate /\ Listed = job.locked

\* RecordRunArchive inserts or finds the row.
ArchiveOrGoOn(a) == \* best effort: a failed archive is logged
    \/ archives' = archives \union {a} /\ UNCHANGED faults
    \/ faults < MaxFaults /\ faults' = faults + 1 /\ UNCHANGED archives
Archive(a) == archives' = archives \union {a} /\ UNCHANGED faults

RevalidateAndArchive ==
    /\ job # None /\ job.k = "success" /\ job.pc = "lock" /\ job.locked = job.todo
    /\ \/ Revalidate /\ Archive(<<"success", dep, "">>)
          /\ job' = [job EXCEPT !.pc = "destroy", !.todo = Listed]
       \/ job' = None /\ UNCHANGED <<archives, faults>>
    /\ UNCHANGED <<dep, old, rows, hist, age, dorm, paused>>

\* destroyWorker: a worker under an evidence hold is retained as stopped; a failed
\* cleanup leaves its status.
Destroyed(w) ==
    \/ rows' = SetSt(w, "stopped") /\ UNCHANGED faults
    \/ faults < MaxFaults /\ faults' = faults + 1 /\ UNCHANGED rows

Drop(w) == job' = IF job.todo = {w} THEN None ELSE [job EXCEPT !.todo = @ \ {w}]
DestroyNext(w) ==
    /\ job # None /\ job.k \in {"success", "teardown"} /\ job.pc = "destroy" /\ w \in job.todo
    /\ Destroyed(w) /\ Drop(w)
    /\ UNCHANGED <<dep, old, hist, archives, age, dorm, paused>>

\* archiveAndDestroySourceWorkers: the workers already stopped are passed over.
StartTeardown ==
    /\ job = None /\ "teardown" \in Loops /\ \E w \in Workers : rows[w].st # "none"
    /\ Archive(<<"teardown", dep, "">>)
    /\ job' = IF Listed = {} THEN None ELSE [k |-> "teardown", pc |-> "destroy", dep |-> dep, todo |-> Listed]
    /\ UNCHANGED <<dep, old, rows, hist, age, dorm, paused>>

(***************************************************************************)
(* Failed-source pause.                                                    *)
(***************************************************************************)
\* releaseQualityActionableAttentionFailures: the newest conclusive check of each
\* scored worker that needs attention.
AttentionFailure(w) ==
    /\ w \in Listed \cap Scored /\ NeedsAttention(w)
    /\ \E i \in Since(hist[w]) : /\ \A j \in 1..(i - 1) : Inconclusive(hist[w][j].k)
                                 /\ Actionable(hist[w], i)
Domain(w) == LET c == Conclusive(hist[w])[1].k IN IF c = "env" THEN "object_store" ELSE c
AttentionFailures == {w \in Workers : AttentionFailure(w)}

\* multiWorkerFailuresCorroborated: "other" never corroborates in a pair.
MultiWorker(S) ==
    \/ Count(S) >= MinFleet
    \/ \E d \in {"object_store", "sync"} : Count({w \in S : Domain(w) = d}) >= MinPair

\* walkConsecutiveActionable.
Consecutive(w) ==
    Count({i \in Since(hist[w]) : ~Inconclusive(hist[w][i].k)
              /\ \A j \in 1..i : Inconclusive(hist[w][j].k) \/ Actionable(hist[w], j)})
SingleWorker(S) == \E w \in S : Consecutive(w) >= MinConsecutive

Verdict ==
    IF \/ Listed \cap Scored = {} \/ RolloutStatus # "needs_attention"
       \/ \E w \in Listed : NeedsVerification(w) /\ ~Verified(w)
    THEN "inconclusive"
    ELSE IF MultiWorker(AttentionFailures) \/ SingleWorker(AttentionFailures) THEN "bad" ELSE "cleared"

ActiveForPause(w, d) == Matches(w, d) /\ rows[w].st \in {"running", "degraded", "probing", "starting"}
Evidence == <<dep, Listed, hist, [w \in Workers |-> rows[w].sick]>>

\* evaluateFailedSourcePauseLocked; the archive is best effort.
StartPause ==
    /\ job = None /\ "pause" \in Loops
    /\ \/ /\ Verdict = "bad" /\ \E w \in Listed : ActiveForPause(w, dep)
          /\ ArchiveOrGoOn(<<"failure", dep, "">>)
          /\ job' = [k |-> "pause", todo |-> {w \in Listed : ActiveForPause(w, dep)}]
          /\ paused' = Evidence
       \/ /\ Verdict = "cleared" /\ \E w \in Listed : rows[w].st = "dormant" /\ rows[w].trig = "known_bad_source"
          /\ job' = [k |-> "resume", dep |-> dep,
                     todo |-> {w \in Listed : rows[w].st = "dormant" /\ rows[w].trig = "known_bad_source"}]
          /\ UNCHANGED <<archives, paused, faults>>
    /\ UNCHANGED <<dep, old, rows, hist, age, dorm>>

\* dormantWorkerLocked.
Pause(w, trigger) ==
    rows' = IF rows[w].st \in {"stopped", "failed"} THEN rows
            ELSE [rows EXCEPT ![w].st = "dormant", ![w].trig = trigger]
PauseNext(w) ==
    /\ job # None /\ job.k = "pause" /\ w \in job.todo /\ Drop(w)
    /\ \/ Pause(w, "known_bad_source") /\ UNCHANGED faults
       \/ faults < MaxFaults /\ faults' = faults + 1 /\ UNCHANGED rows
    /\ UNCHANGED <<dep, old, hist, archives, age, dorm, paused>>

\* resumeDormantWorker looks at the status again under the worker's lock.
NextRun(w) == rows[w].run + 1
ResumeNext(w) ==
    /\ job # None /\ job.k = "resume" /\ w \in job.todo /\ Drop(w)
    /\ \/ /\ rows[w].st = "dormant" /\ NextRun(w) <= MaxRuns
          /\ rows' = [rows EXCEPT ![w].st = "probing", ![w].run = @ + 1, ![w].v = job.dep, ![w].sick = FALSE]
       \/ UNCHANGED rows
    /\ UNCHANGED <<dep, old, hist, archives, age, dorm, paused, faults>>

(***************************************************************************)
(* The policies that hold no source lock.                                  *)
(***************************************************************************)
\* evaluatePRMaxAge, with the action "destroy".
EligibleForMaxAge(w, d) ==
    Matches(w, d) /\ rows[w].st \in {"running", "degraded", "probing", "starting", "dormant"}
StartMaxAge ==
    /\ age = None /\ "age" \in Loops /\ old /\ \E w \in Listed : EligibleForMaxAge(w, dep)
    /\ Archive(<<"expired", dep, "">>)
    /\ age' = [dep |-> dep, todo |-> {w \in Listed : EligibleForMaxAge(w, dep)}]
    /\ UNCHANGED <<dep, old, rows, hist, job, dorm, paused>>
DestroyExpired(w) ==
    /\ age # None /\ w \in age.todo \ LockedBySuccess /\ Destroyed(w)
    /\ age' = IF age.todo = {w} THEN None ELSE [age EXCEPT !.todo = @ \ {w}]
    /\ UNCHANGED <<dep, old, hist, archives, job, dorm, paused>>

\* detectDormancyCandidate over the checks of the run (dormancyVerifications):
\* the same failure, often enough.  How long it lasted is left open.
DormancyCandidate(w) ==
    LET h == SelectSeq(hist[w], LAMBDA e : e.run = rows[w].run) IN
    /\ rows[w].st \in {"running", "degraded"} /\ Len(h) >= MinFailures
    /\ \A i \in 1..MinFailures : Failed(h[i].k) /\ h[i].k = h[1].k
StartDormancy ==
    /\ dorm = None /\ "dormancy" \in Loops
    /\ \E w \in Workers : /\ DormancyCandidate(w) /\ ArchiveOrGoOn(<<"failure", rows[w].v, w>>)
                          /\ dorm' = [w |-> w]
    /\ UNCHANGED <<dep, old, rows, hist, job, age, paused>>
DormancyPause ==
    /\ dorm # None /\ dorm.w \notin LockedBySuccess
    /\ Pause(dorm.w, "sustained_failure") /\ dorm' = None
    /\ UNCHANGED <<dep, old, hist, archives, job, age, paused, faults>>

(***************************************************************************)
(* What they run beside.                                                   *)
(***************************************************************************)
Reports == LET n[S \in SUBSET Workers] ==
                   IF S = {} THEN 0 ELSE LET w == CHOOSE x \in S : TRUE IN Len(hist[w]) + n[S \ {w}]
           IN n[Workers]

\* handleVerification, under the worker's lock.  A failed probe goes back to sleep.
StateAfter(w, k) ==
    IF Inconclusive(k) \/ WithoutEscalation(hist[w], k) \/ rows[w].st \in {"stopped", "failed", "dormant"} THEN rows
    ELSE IF Succeeded(k) THEN [rows EXCEPT ![w].st = "running", ![w].trig = ""]
    ELSE IF rows[w].st = "probing" THEN [rows EXCEPT ![w].st = "dormant", ![w].trig = "probe_failed"]
    ELSE SetSt(w, "degraded")
HandleVerification(w, kind) ==
    LET k == IF kind = "pass" /\ old THEN "latepass" ELSE kind IN
    /\ w \notin LockedBySuccess /\ rows[w].st \notin {"none", "stopped"} /\ Reports < MaxReports
    /\ hist' = [hist EXCEPT ![w] = <<[k |-> k, dep |-> dep, run |-> rows[w].run]>> \o @]
    /\ rows' = StateAfter(w, k)
    /\ UNCHANGED <<dep, old, archives, job, age, dorm, paused, faults>>

\* A heartbeat brings the runtime snapshot, and the stale monitor marks a worker
\* that misses it; neither takes the worker's lock.
Heartbeat(w) ==
    /\ "sick" \in Kinds /\ rows[w].st \in {"running", "degraded", "probing"}
    /\ rows' \in {[rows EXCEPT ![w].sick = ~@], SetSt(w, "degraded")}
    /\ faults < MaxFaults /\ faults' = faults + 1
    /\ UNCHANGED <<dep, old, hist, archives, job, age, dorm, paused>>

Ages == ~old /\ old' = TRUE /\ UNCHANGED <<dep, rows, hist, archives, job, age, dorm, paused, faults>>

\* A ready deployment is recorded without the source lock and rolled out under it.
RecordDeployment ==
    /\ dep < MaxDeployments /\ dep' = dep + 1 /\ old' = FALSE
    /\ UNCHANGED <<rows, hist, archives, job, age, dorm, paused, faults>>
Replaced(w) ==
    /\ NextRun(w) <= MaxRuns
    /\ rows' = [rows EXCEPT ![w] = [st |-> "running", v |-> dep, run |-> NextRun(w), trig |-> "", sick |-> FALSE]]
RollWorker(w) ==
    /\ job = None /\ ~Matches(w, dep) /\ Replaced(w)
    /\ UNCHANGED <<dep, old, hist, archives, job, age, dorm, paused, faults>>

\* An operator stops a worker or creates it again, under its lock.
Operator(w) ==
    /\ "operator" \in Loops /\ w \notin LockedBySuccess
    /\ IF rows[w].st \in {"none", "stopped"} THEN Replaced(w) ELSE rows' = SetSt(w, "stopped")
    /\ UNCHANGED <<dep, old, hist, archives, job, age, dorm, paused, faults>>

LInit ==
    /\ dep = 1 /\ old = FALSE /\ job = None /\ age = None /\ dorm = None /\ paused = None /\ faults = 0
    /\ archives = {} /\ hist = [w \in Workers |-> <<>>]
    /\ rows = [w \in Workers |-> [st |-> "running", v |-> 1, run |-> 1, trig |-> "", sick |-> FALSE]]

LNext ==
    \/ StartSuccess \/ RevalidateAndArchive \/ StartTeardown \/ StartPause \/ StartMaxAge
    \/ StartDormancy \/ DormancyPause \/ Ages \/ RecordDeployment
    \/ \E w \in Workers : LockOne(w) \/ DestroyNext(w) \/ PauseNext(w) \/ ResumeNext(w) \/ DestroyExpired(w)
    \/ \E w \in Workers : Heartbeat(w) \/ RollWorker(w) \/ Operator(w)
    \/ \E w \in Workers, k \in Kinds \ {"sick"} : HandleVerification(w, k)

(***************************************************************************)
(* Properties.                                                             *)
(***************************************************************************)
\* evaluateSuccessTeardownLocked: as long as a worker is still to be destroyed it
\* is the run the archive holds, and nothing has come to weigh against it.
StillClean ==
    job # None /\ job.k = "success" /\ job.pc = "destroy" =>
        /\ <<"success", job.dep, "">> \in archives
        /\ \A w \in job.todo : rows[w].run = job.was[w] /\ Matches(w, job.dep) /\ Clean(w, job.dep)

\* archiveDeploymentRun: the policies that destroy have archived the deployment they judged.
ArchivedFirst ==
    /\ job # None /\ job.k \in {"success", "teardown"} /\ job.pc = "destroy" => <<job.k, job.dep, "">> \in archives
    /\ age # None => <<"expired", age.dep, "">> \in archives

\* evaluateFailedSourcePause never takes back its own pause: workers it paused are
\* resumed on other evidence than it paused them on.
NoFlapping == job = None /\ job' # None /\ job'.k = "resume" => paused # Evidence

\* The walk over the whole history (environmentalVerificationIDs) and the look back
\* of the report handler agree on every report.
OneVerdictOnWeather ==
    \A w \in Workers : hist[w] # <<>> =>
        (1 \in Environmental(hist[w]) <=> WithoutEscalation(Tail(hist[w]), hist[w][1].k))
=============================================================================
