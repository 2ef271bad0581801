------------------------------ MODULE GateScore ------------------------------
(* The verdict of a release-candidate gate (rc_gate.go, buildRCGateResults):  *)
(* what the verifications of the two sides in the gate's window say of one    *)
(* scenario, mode by mode.  Counts are kept as "at least one"; a side's fault *)
(* is what GateFaults derives from its worker, and may come and go.           *)
EXTENDS Integers, FiniteSets

CONSTANTS Scenarios      \* [check, required]: "restore", "vfs" (or coverage) or "walreset", and its required modes

VARIABLES scenario, side      \* side: "candidate" or "baseline" -> its worker's evidence
gsvars == <<scenario, side>>

Sides == {"candidate", "baseline"}
Rotating == {"txid", "latest"}
ModesOf(sc) == IF sc.required = {} THEN Rotating ELSE sc.required
Unseen == [passed |-> FALSE, failed |-> FALSE, reproduced |-> FALSE]

GSInit ==
    /\ scenario \in Scenarios
    /\ side = [s \in Sides |-> [present |-> FALSE, rotation |-> FALSE, fault |-> "none",
                                mode |-> [m \in ModesOf(scenario) |-> Unseen]]]

\* The side's pinned build is deployed and the gate's own worker exists.
Provisioned(s) ==
    /\ ~side[s].present /\ side' = [side EXCEPT ![s].present = TRUE] /\ UNCHANGED scenario

\* A verification in the window that matches the deployment; a rotating worker may still
\* have to fall back to txid.
Verified(s, m, result, rotating) ==
    /\ side[s].present
    /\ result = "reproduced" => scenario.check = "walreset"
    /\ rotating => scenario.required = {}
    /\ ~rotating => m = "txid" \/ scenario.required # {}
    /\ side' = [side EXCEPT ![s].rotation = @ \/ rotating,
                            ![s].mode[m] = [passed |-> @.passed \/ result = "passed",
                                            failed |-> @.failed \/ result # "passed",
                                            reproduced |-> @.reproduced \/ result = "reproduced"]]
    /\ UNCHANGED scenario

FaultChanges(s, f) ==
    /\ side[s].present /\ side[s].fault # f
    /\ f = "harness_inconclusive" => \A m \in ModesOf(scenario) : side[s].mode[m] = Unseen
    /\ side' = [side EXCEPT ![s].fault = f] /\ UNCHANGED scenario

GSNext ==
    \/ \E s \in Sides : Provisioned(s)
    \/ \E s \in Sides, m \in ModesOf(scenario), r \in {"passed", "failed", "reproduced"}, rot \in BOOLEAN : Verified(s, m, r, rot)
    \/ \E s \in Sides, f \in {"none", "worker_degraded", "harness_inconclusive"} : FaultChanges(s, f)

--------------------------------------------------------------------------
\* rcGateSideStatus, with rcGateHardFault.
Status(failed, passed, fault) ==
    IF failed \/ fault \notin {"none", "harness_inconclusive"} THEN "failing"
    ELSE IF passed THEN "passing" ELSE "no_coverage"

AnyMode(s, P(_)) == \E m \in ModesOf(scenario) : P(side[s].mode[m])
Failed(s) == AnyMode(s, LAMBDA v : v.failed)
Reproduced(s) == AnyMode(s, LAMBDA v : v.reproduced)

\* rcGateSide.
SideStatus(s) ==
    IF side[s].present THEN Status(Failed(s), AnyMode(s, LAMBDA v : v.passed), side[s].fault) ELSE "missing"

\* Mutant: the result of a missing mode does not say so.
ModeStatusOfSide(s, m) ==
    IF side[s].mode[m] = Unseen THEN SideStatus(s)
    ELSE Status(side[s].mode[m].failed, side[s].mode[m].passed, side[s].fault)

\* rcGateModeResults: a mode nobody verified has the side's fault and no counts.
ModeStatus(s, m) ==
    IF side[s].present THEN Status(side[s].mode[m].failed, side[s].mode[m].passed, side[s].fault) ELSE "missing"

\* rcGateScenarioVerdict.
ScenarioVerdict(candidate, baseline) ==
    IF ~({candidate, baseline} \subseteq {"passing", "failing"}) THEN "incomplete"
    ELSE IF candidate = "failing" THEN IF baseline = "failing" THEN "both_failing" ELSE "regression"
    ELSE "pass"

\* rcGateRequiredModes, and the other modes that were seen.
RequiredModes ==
    IF scenario.required # {} THEN scenario.required
    ELSE IF \E s \in Sides : side[s].rotation THEN Rotating ELSE {"txid"}
Names == RequiredModes \cup {m \in ModesOf(scenario) : \E s \in Sides : side[s].mode[m] # Unseen}

\* rcGateModesVerdict: the worst of the modes.
ModesVerdict ==
    LET vs == {ScenarioVerdict(ModeStatus("candidate", m), ModeStatus("baseline", m)) : m \in Names}
    IN  IF "regression" \in vs THEN "regression"
        ELSE IF "both_failing" \in vs THEN "both_failing"
        ELSE IF "incomplete" \in vs THEN "incomplete" ELSE "pass"

\* Mutant: hard evidence counts only against a covered baseline.
CoverageVerdictIfCovered(v) ==
    IF Failed("candidate") /\ ~Failed("baseline") /\ SideStatus("baseline") = "passing" THEN "regression" ELSE v

\* rcGateCoverageVerdict and rcGateWALResetVerdict.
CoverageVerdict(v) ==
    IF Failed("candidate") /\ ~Failed("baseline") /\ SideStatus("baseline") # "failing" THEN "regression" ELSE v
WALResetVerdict(v) == IF v = "pass" /\ ~Reproduced("baseline") THEN "no_reproduction" ELSE v

\* buildRCGateResults for one scenario.
Result ==
    LET sides == ScenarioVerdict(SideStatus("candidate"), SideStatus("baseline"))
        modes == IF sides = "incomplete" THEN sides ELSE ModesVerdict
    IN  CASE scenario.check = "restore" -> modes
          [] scenario.check = "vfs" -> CoverageVerdict(modes)
          [] scenario.check = "walreset" -> WALResetVerdict(CoverageVerdict(modes))
\* Neither side runs the check: the scenario is skipped.
Counted == scenario.check = "restore" \/ \E s \in Sides : side[s].present
GateVerdict ==
    IF Counted /\ Result \in {"regression", "both_failing"} THEN "fail"
    ELSE IF Counted /\ Result \in {"incomplete", "no_reproduction"} THEN "incomplete" ELSE "pass"

--------------------------------------------------------------------------
\* buildRCGateResults: a gate that passes a scenario has seen the candidate pass, and nothing else, in every
\* mode the scenario requires, and has evidence of the baseline in each of them.
PassIsEarned ==
    Counted /\ GateVerdict = "pass" =>
        /\ ~Failed("candidate") /\ side["candidate"].fault \in {"none", "harness_inconclusive"}
        /\ \A m \in RequiredModes :
              /\ side["candidate"].mode[m].passed
              /\ side["baseline"].mode[m] # Unseen \/ side["baseline"].fault = "worker_degraded"
        /\ scenario.check = "walreset" => Reproduced("baseline")

\* rcGateCoverageVerdict, "a candidate failure is a regression whenever the baseline has none, even when the
\* baseline has no evidence yet": a coverage, VFS or WAL reset failure of the candidate
\* alone fails the gate, whatever modes are still missing.
HardEvidence ==
    scenario.check # "restore" /\ Failed("candidate") /\ ~Failed("baseline") => GateVerdict = "fail"
=============================================================================
