-------------------------------- MODULE UpgradeRig --------------------------------
(* The persistent upgrade rig (internal/upgrade): a baseline binary ages a fixture,  *)
(* sealed copies of it are continued by the baseline and by the candidate, and the   *)
(* candidate's state is rolled back to the baseline; every restore is compared.      *)
(* The binaries are external; each may be wrong.                                     *)
EXTENDS Naturals, Sequences, FiniteSets

CONSTANTS Flaws         \* the flaws tried: each a set of the flaws named below

States == {"fixture", "baseline", "candidate", "rollback"}
Names == <<"fixture", "pre-baseline", "pre-candidate", "baseline-continuation", "candidate-upgrade",
           "post-baseline", "post-candidate", "rollback", "post-rollback">>

VARIABLES mode, rollback, reuse,        \* the configuration
          flaw, aged,                   \* what is wrong with the binaries; the fixture saw maintenance
          db, replica,                  \* per state: the version of its database, and of its replica
          seal,                         \* the fixture's sealed contents and failure
          checks, upc, verdict
uvars == <<mode, rollback, reuse, flaw, aged, db, replica, seal, checks, upc, verdict>>
config == <<mode, rollback, reuse, flaw>>

UInit ==
    /\ mode \in {"fresh-start", "persistent-upgrade", "unsupported"} /\ rollback \in BOOLEAN
    /\ reuse \in (IF mode = "persistent-upgrade" THEN BOOLEAN ELSE {FALSE})
    /\ flaw \in Flaws /\ aged = FALSE
    /\ db = [s \in States |-> 0] /\ replica = [s \in States |-> 0] /\ seal = [at |-> <<0, 0>>, failure |-> FALSE]
    /\ checks = [n \in {Names[i] : i \in DOMAIN Names} |-> "unexecuted"]
    /\ upc = "start" /\ verdict = "none"

Record(n, ok) == [checks EXCEPT ![n] = IF ok THEN "passed" ELSE "failed"]
\* The candidate reads or writes the old format wrongly, or the baseline the candidate's.
Wrong(binary, state) ==
    \/ binary = "candidate" /\ state = "candidate" /\ "candidate loses" \in flaw
    \/ binary = "baseline" /\ state = "rollback" /\ "rollback loses" \in flaw
    \/ binary = "baseline" /\ state \in {"fixture", "baseline"} /\ "baseline loses" \in flaw
\* exercise: writes, a quiet second, a clean stop. Replicated unless something is wrong or goes wrong.
Exercised(binary, state, ok) ==
    /\ db' = [db EXCEPT ![state] = @ + 1]
    /\ replica' = [replica EXCEPT ![state] = IF ok /\ ~Wrong(binary, state) THEN db[state] + 1 ELSE @]
\* restore and compare with the quiescent source.
Restored(state, ok) == ok /\ replica[state] = db[state]
\* importFixture: the copy must match the seal, and the seal carry no failure.
Imported(source) == seal.at = <<db[source], replica[source]>> /\ ~seal.failure

--------------------------------------------------------------------------
Unsupported ==
    /\ upc = "start" /\ mode = "unsupported" /\ checks' = [n \in DOMAIN checks |-> "unsupported"] /\ upc' = "end"
    /\ UNCHANGED <<config, aged, db, replica, seal, verdict>>
\* A fixture is made, exercised and sealed with its failure, or one made earlier is imported.
Fixture(ok, mature, tampered) ==
    /\ upc = "start" /\ mode # "unsupported" /\ (tampered => reuse)
    /\ Exercised("baseline", "fixture", ok) /\ aged' = mature
    /\ seal' = [at |-> <<IF tampered THEN 0 ELSE db'["fixture"], replica'["fixture"]>>, failure |-> ~ok]
    /\ LET good == ok /\ ~tampered IN
       IF mode = "persistent-upgrade" /\ good /\ ~mature
       THEN checks' = [checks EXCEPT !["fixture"] = "inconclusive"] /\ upc' = "end"
       ELSE checks' = Record("fixture", good) /\ upc' = IF good THEN "arms" ELSE "end"
    /\ UNCHANGED <<config, verdict>>
\* Both arms start from a copy of the sealed fixture, or fresh; the first that cannot ends the run.
Arms(ok) ==
    /\ upc = "arms" /\ UNCHANGED <<config, aged, seal, verdict>>
    /\ LET arms == {"baseline", "candidate"} IN
       IF mode = "persistent-upgrade"
       THEN LET good == ok /\ Imported("fixture") IN
            /\ db' = [s \in States |-> IF s \in arms /\ good THEN db["fixture"] ELSE db[s]]
            /\ replica' = [s \in States |-> IF s \in arms /\ good THEN replica["fixture"] ELSE replica[s]]
            /\ IF good THEN upc' = "pre-baseline" /\ UNCHANGED checks
               ELSE upc' = "end" /\ \E a \in {"pre-baseline", "pre-candidate"} : checks' = Record(a, FALSE)
       ELSE /\ db' = [s \in States |-> IF s \in arms THEN 1 ELSE db[s]]
            /\ replica' = [s \in States |-> IF s \in arms /\ ok /\ ~Wrong(s, s) THEN 1 ELSE replica[s]]
            /\ IF ok THEN upc' = "pre-baseline" /\ UNCHANGED checks
               ELSE upc' = "end" /\ \E a \in {"pre-baseline", "pre-candidate"} : checks' = Record(a, FALSE)
Pre(arm, ok) ==
    /\ upc = "pre-" \o arm /\ checks' = Record("pre-" \o arm, Restored(arm, ok)) /\ upc' = "continue-" \o arm
    /\ UNCHANGED <<config, aged, db, replica, seal, verdict>>
Continue(arm, ok) ==
    /\ upc = "continue-" \o arm /\ Exercised(arm, arm, ok) /\ upc' = "post-" \o arm
    /\ checks' = Record(IF arm = "baseline" THEN "baseline-continuation" ELSE "candidate-upgrade", ok)
    /\ UNCHANGED <<config, aged, seal, verdict>>
Post(arm, ok) ==
    /\ upc = "post-" \o arm /\ checks' = Record("post-" \o arm, Restored(arm, ok))
    /\ upc' = (IF arm = "baseline" THEN "pre-candidate" ELSE "rollback") /\ UNCHANGED <<config, aged, db, replica, seal, verdict>>
\* The rollback runs the baseline on a copy of the candidate's state, when declared supported.
Rollback(copied, ok) ==
    /\ upc = "rollback" /\ UNCHANGED <<config, aged, seal, verdict>>
    /\ IF ~rollback THEN /\ checks' = [checks EXCEPT !["rollback"] = "unsupported", !["post-rollback"] = "unsupported"]
                         /\ upc' = "end" /\ UNCHANGED <<db, replica>>
       ELSE IF ~copied THEN checks' = Record("rollback", FALSE) /\ upc' = "end" /\ UNCHANGED <<db, replica>>
       ELSE /\ db' = [db EXCEPT !["rollback"] = db["candidate"] + 1]
            /\ replica' = [replica EXCEPT !["rollback"] =
                    IF ok /\ ~Wrong("baseline", "rollback") THEN db["candidate"] + 1 ELSE replica["candidate"]]
            /\ checks' = Record("rollback", ok) /\ upc' = "post-rollback"
PostRollback(ok) ==
    /\ upc = "post-rollback" /\ checks' = Record("post-rollback", Restored("rollback", ok)) /\ upc' = "end"
    /\ UNCHANGED <<config, aged, db, replica, seal, verdict>>

\* Mutant: a check that did not run does not count against the pass.
VerdictRan == IF \E n \in DOMAIN checks : checks[n] = "failed" THEN "failed" ELSE "passed"
Verdict ==
    IF \E n \in DOMAIN checks : checks[n] = "failed" THEN "failed"
    ELSE IF \A n \in DOMAIN checks : checks[n] = "passed" THEN "passed" ELSE "inconclusive"
End == upc = "end" /\ verdict = "none" /\ verdict' = Verdict /\ UNCHANGED <<config, aged, db, replica, seal, checks, upc>>

UNext ==
    \/ Unsupported \/ (\E ok, mature, tampered \in BOOLEAN : Fixture(ok, mature, tampered)) \/ (\E ok \in BOOLEAN : Arms(ok))
    \/ (\E arm \in {"baseline", "candidate"}, ok \in BOOLEAN : Pre(arm, ok) \/ Continue(arm, ok) \/ Post(arm, ok))
    \/ (\E copied, ok \in BOOLEAN : Rollback(copied, ok)) \/ (\E ok \in BOOLEAN : PostRollback(ok)) \/ End

--------------------------------------------------------------------------
\* Verdict (upgrade): an upgrade passes only when both arms and the rollback were continued from the aged
\* fixture the seal describes and all came back whole: a candidate that damages what the
\* baseline wrote, or writes what the baseline cannot read, never passes.
UpgradePassEarned ==
    verdict = "passed" =>
        /\ rollback /\ flaw = {} /\ (mode = "persistent-upgrade" => aged /\ seal.at = <<db["fixture"], replica["fixture"]>>)
        /\ \A s \in {"baseline", "candidate", "rollback"} : replica[s] = db[s]
        /\ (mode = "persistent-upgrade" => db["baseline"] = db["fixture"] + 1 /\ db["rollback"] = db["fixture"] + 2)
=============================================================================
