------------------------------- MODULE RecoveryRig -------------------------------
(* The recovery rig (internal/recovery): a script that writes rows, kills and       *)
(* restarts the replicator, interrupts a restore, follows, restores under           *)
(* retention and after losing the local state, and judges the attempts it recorded. *)
(* Litestream is external: right, or losing a row at one step of the script.        *)
EXTENDS Naturals, Sequences

VARIABLES flaw, caps,                   \* the step at which a row is lost, or "none"; the restore options
          committed, confirmed, replicated, target,     \* row counts; the point-in-time target's
          repl, local,                  \* the replicator; the local database is there
          step, loop, engaged, attempts, status
qvars == <<flaw, caps, committed, confirmed, replicated, target, repl, local, step, loop, engaged, attempts, status>>

Script == <<"replicate", "confirm", "target", "kill", "write", "offline", "replicate", "confirm", "pit", "interrupt", "retry",
            "follow", "write one", "resume", "retention", "exposure", "confirm", "boundary", "stop", "quarantine", "local loss">>
At(s) == status = "running" /\ step <= Len(Script) /\ Script[step] = s

QInit ==
    /\ flaw \in {"none", "replicate", "confirm", "offline", "pit", "retry", "follow", "resume", "retention", "boundary", "local loss"}
    /\ caps \in [timestamp : BOOLEAN, follow : BOOLEAN]
    /\ committed = 2 /\ confirmed = 0 /\ replicated = 0 /\ target = 0 /\ repl = "none" /\ local = TRUE
    /\ step = 1 /\ loop = 0 /\ engaged = FALSE /\ attempts = {} /\ status = "running"

Blank == [name |-> "", status |-> "", engaged |-> FALSE, oracle |-> FALSE, error |-> FALSE, expected |-> FALSE, loss |-> 0, lost |-> FALSE]
Add(a) == attempts' = attempts \cup {a}
\* MeasureBoundary: rows confirmed on the replica that a restore did not bring back.
ReplicatedLoss(sure, restored) == IF sure > restored THEN sure - restored ELSE 0

\* What a restore brings back: every row on the replica, or one fewer.
Short(n) == IF At(flaw) /\ n > 0 THEN {n, n - 1} ELSE {n}
Restores == Short(replicated)
\* restore: too few rows, or a process that fails, is an error with nothing restored.
Attempt(name, minimum, got) ==
    LET ok == got >= minimum /\ got > 0 IN
    [Blank EXCEPT !.name = name, !.engaged = TRUE, !.oracle = ok, !.error = ~ok,
                  !.loss = ReplicatedLoss(IF confirmed < minimum THEN confirmed ELSE minimum, got), !.lost = got < minimum]

steps == <<flaw, caps, target, local>>
Goes == step' = step + 1 /\ UNCHANGED <<loop, engaged, status>>

--------------------------------------------------------------------------
\* replicator, then settle: it uploaded, and had the time to catch up.
Replicate ==
    /\ At("replicate") /\ repl' = "up" /\ replicated' \in Short(committed) /\ Goes /\ UNCHANGED <<steps, committed, confirmed, attempts>>
\* confirm: what a restore brings back counts as confirmed from here on.
Confirm ==
    /\ At("confirm") /\ UNCHANGED <<steps, committed, replicated, repl>>
    /\ \E got \in Restores :
        LET a == Attempt("confirm", confirmed, got) IN
        /\ Add(a) /\ IF a.error THEN status' = "error" /\ UNCHANGED <<confirmed, step, loop, engaged>> ELSE confirmed' = got /\ Goes
Target == At("target") /\ target' = confirmed /\ Goes /\ UNCHANGED <<flaw, caps, local, committed, confirmed, replicated, repl, attempts>>
\* recordStop: a kill is expected to end the child by SIGKILL; it may have died before.
Kill ==
    /\ At("kill") /\ repl' = "none" /\ Goes /\ UNCHANGED <<steps, committed, confirmed, replicated>>
    /\ \E killed \in BOOLEAN : Add([Blank EXCEPT !.name = "kill", !.engaged = killed, !.error = TRUE, !.expected = killed])
Write ==
    /\ (At("write") \/ At("write one")) /\ Goes /\ UNCHANGED <<steps, confirmed, repl, attempts>>
    /\ IF At("write one") /\ ~caps.follow THEN UNCHANGED <<committed, replicated>>
       ELSE committed' = committed + 1 /\ IF repl = "up" THEN replicated' = committed + 1 ELSE UNCHANGED replicated
\* A restore whose error ends the scenarios.
MustRestore(name) ==
    /\ UNCHANGED <<steps, committed, confirmed, replicated, repl>>
    /\ \E got \in Restores :
        LET a == Attempt(name, confirmed, got) IN
        Add(a) /\ IF a.error THEN status' = "error" /\ UNCHANGED <<step, loop, engaged>> ELSE Goes
Offline == At("offline") /\ MustRestore("offline")
Retry == At("retry") /\ MustRestore("retry")
LocalLoss == At("local loss") /\ MustRestore("local loss")

Unexecuted(name) == Add([Blank EXCEPT !.name = name, !.status = "unexecuted"])
\* The target's restore must give exactly the target's rows.
HistoricalOf(got) == [Attempt("pit", target, got) EXCEPT !.loss = ReplicatedLoss(target, got), !.error = @ \/ got # target]
PIT ==
    /\ At("pit") /\ Goes /\ UNCHANGED <<steps, committed, confirmed, replicated, repl>>
    /\ IF caps.timestamp THEN \E got \in Short(target) : Add(HistoricalOf(got)) ELSE Unexecuted("pit")
\* After retention the target may be rejected, which is expected, or must still be right.
RetentionBoundary ==
    /\ At("boundary") /\ Goes /\ UNCHANGED <<steps, committed, confirmed, replicated, repl>>
    /\ IF ~caps.timestamp THEN UNCHANGED attempts
       ELSE \/ Add([Blank EXCEPT !.name = "boundary", !.engaged = TRUE, !.error = TRUE, !.expected = TRUE])
            \/ \E got \in Short(target) :
                   Add([HistoricalOf(got) EXCEPT !.name = "boundary", !.oracle = @ /\ got = target])

\* interruptRestore: partial output was seen and the child then died by SIGKILL.
Interrupt ==
    /\ At("interrupt") /\ Goes /\ UNCHANGED <<steps, committed, confirmed, replicated, repl>>
    /\ \E seen, killed \in BOOLEAN :
        Add([Blank EXCEPT !.name = "interrupt", !.engaged = seen /\ killed, !.error = TRUE, !.expected = seen /\ killed])
\* follow: both rounds must show every committed row; a failed round ends it.
Follow(first) ==
    /\ At(IF first THEN "follow" ELSE "resume") /\ Goes /\ UNCHANGED <<steps, committed, confirmed, replicated, repl>>
    /\ IF ~caps.follow THEN IF first THEN Unexecuted("follow") ELSE UNCHANGED attempts
       ELSE IF ~first /\ \E a \in attempts : a.name = "follow" /\ a.error THEN UNCHANGED attempts
       ELSE \E shown \in IF At(flaw) \/ replicated # committed THEN BOOLEAN ELSE {TRUE}, resumed \in IF first THEN {TRUE} ELSE BOOLEAN :
                Add([Blank EXCEPT !.name = IF first THEN "follow" ELSE "resume", !.engaged = resumed, !.oracle = shown, !.error = ~shown])

\* activeRetention: restores beside a writer until one was exposed to maintenance.
Retention ==
    /\ At("retention") /\ loop < 2 /\ loop' = loop + 1 /\ UNCHANGED <<steps, confirmed, repl, step, status>>
    /\ committed' = committed + 1 /\ replicated' = committed + 1
    /\ \E got \in Restores, exposed \in BOOLEAN :
        LET a == Attempt("retention", confirmed, got) IN
        /\ Add([a EXCEPT !.engaged = exposed, !.status = IF ~exposed /\ ~a.error THEN "observation" ELSE ""])
        /\ engaged' = (engaged \/ (exposed /\ a.oracle))
RetentionEnds ==
    /\ At("retention") /\ loop > 0 /\ step' = step + 1 /\ UNCHANGED <<steps, committed, confirmed, replicated, repl, loop, engaged, attempts, status>>
Exposure ==
    /\ At("exposure") /\ Add([Blank EXCEPT !.name = "exposure", !.engaged = engaged, !.oracle = engaged])
    /\ Goes /\ UNCHANGED <<steps, committed, confirmed, replicated, repl>>
Stop ==
    /\ At("stop") /\ repl' = "none" /\ Goes /\ UNCHANGED <<steps, committed, confirmed, replicated>>
    /\ \E clean \in BOOLEAN : Add([Blank EXCEPT !.name = "stop", !.engaged = clean, !.oracle = clean, !.error = ~clean])
Quarantine == At("quarantine") /\ local' = FALSE /\ Goes /\ UNCHANGED <<flaw, caps, target, committed, confirmed, replicated, repl, attempts>>
\* Any step may fail on its own account; the replicator is stopped and the run judged.
Breaks ==
    /\ status = "running" /\ step <= Len(Script) /\ status' = "error" /\ UNCHANGED <<steps, committed, confirmed, replicated, repl, step, loop, engaged, attempts>>

--------------------------------------------------------------------------
\* Mutant: the last word of a scenario counts, not every attempt.
VerdictRecovered(as) ==
    IF \E a \in as : a.error /\ ~a.expected THEN "failed"
    ELSE IF \E a \in as : a.oracle /\ a.engaged /\ ~a.expected THEN "passed" ELSE "inconclusive"
Verdict(as) ==
    IF \E a \in as : (a.error /\ ~a.expected) \/ a.loss > 0 THEN "failed"
    ELSE LET judged == {a \in as : a.status # "observation"} IN
         IF (\E a \in judged : a.engaged) /\ (\E a \in judged : a.oracle /\ a.engaged /\ ~a.expected)
            /\ \A a \in judged : a.status # "unexecuted" /\ a.engaged /\ (a.oracle \/ a.expected)
         THEN "passed" ELSE "inconclusive"
\* The deferred end of Run: the runner's error and the logs' incidents are attempts too.
Judge ==
    /\ \/ status = "error"
       \/ status = "running" /\ step > Len(Script)
    /\ \E incident \in IF flaw # "none" THEN BOOLEAN ELSE {FALSE} :
        LET more == IF status = "error" \/ incident THEN {[Blank EXCEPT !.name = "error", !.error = TRUE]} ELSE {}
        IN  attempts' = attempts \cup more /\ status' = Verdict(attempts \cup more)
    /\ repl' = "none" /\ UNCHANGED <<steps, committed, confirmed, replicated, step, loop, engaged>>

QNext ==
    \/ Replicate \/ Confirm \/ Target \/ Kill \/ Write \/ Offline \/ Retry \/ LocalLoss \/ PIT \/ RetentionBoundary \/ Interrupt
    \/ Follow(TRUE) \/ Follow(FALSE) \/ Retention \/ RetentionEnds \/ Exposure \/ Stop \/ Quarantine \/ Breaks \/ Judge

--------------------------------------------------------------------------
Named(n) == {a \in attempts : a.name = n}
\* Verdict (recovery): a run passes only when every fault really happened and none of its restores came back
\* short of what an earlier restore had confirmed, the last one from the replica alone.
RecoveryPassEarned ==
    status = "passed" =>
        /\ ~\E a \in attempts : a.lost
        /\ \A n \in {"kill", "interrupt", "exposure", "resume", "pit", "local loss"} : Named(n) # {} /\ \A a \in Named(n) : a.engaged
        /\ ~local /\ repl = "none"
=============================================================================
