------------------------------ MODULE WorkerRun ------------------------------
(* The worker process: Runner.Run with its deferred teardown (runner.go), the *)
(* Litestream child and its monitor (litestream_manager.go), the scheduled    *)
(* verification, and the WAL reset check (walreset_check.go), which stops and *)
(* replaces Litestream on purpose while the check gate keeps the two apart.   *)
EXTENDS Naturals, FiniteSets

CONSTANTS MaxProcs,      \* Litestream processes of one run
          MaxCycles,     \* cycles of the WAL reset check
          MaxCrashes     \* exits nobody asked for

Procs == 1 .. MaxProcs

VARIABLES phase,      \* of Run: its start-up phases, "serve", the teardown's steps, "ended"
          cause,      \* of the run context's cancellation; "none" while it is alive
          told,       \* failure events sent
          cur,        \* litestreamProc: the newest process, 0 before the first
          proc,       \* [os: "none" | "alive" | "dead" | "done", why, expected, owner, sent]
          watching,   \* processes whose monitor still waits
          pending,    \* processes whose SIGTERM goroutine has not sent yet
          killing,    \* litestreamCtx has been cancelled
          gate,       \* holder of the check gate
          paused,     \* who paused the load
          pc, main,   \* the check's step, and whether its restart is the first or the recovery
          back,       \* did the cycle restart Litestream: "no", "yes", "failed"
          downtime, cycles, crashes
rvars == <<phase, cause, told, cur, proc, watching, pending, killing, gate, paused, pc, main, back, downtime, cycles, crashes>>
check == <<pc, main, back, downtime>>
child == <<cur, proc, watching, pending, killing>>

NoProc == [os |-> "none", why |-> "none", expected |-> FALSE, owner |-> "none", sent |-> {}]

RInit ==
    /\ phase = "proxy" /\ cause = "none" /\ told = {} /\ cur = 0
    /\ proc = [p \in Procs |-> NoProc] /\ watching = {} /\ pending = {} /\ killing = FALSE
    /\ gate = "free" /\ paused = "no" /\ pc = "idle" /\ main = TRUE /\ back = "no" /\ downtime = FALSE
    /\ cycles = 0 /\ crashes = 0

Cancelled == cause # "none"
Alive(p) == p # 0 /\ proc[p].os = "alive"
Running(p) == p # 0 /\ proc[p].os # "done"        \* the done channel is open

--------------------------------------------------------------------------
(* The child process.                                                        *)

\* startLitestream and monitorLitestream.
StartProcess ==
    /\ cur < MaxProcs /\ cur' = cur + 1
    /\ proc' = [proc EXCEPT ![cur + 1].os = "alive"] /\ watching' = watching \cup {cur + 1}
    /\ UNCHANGED <<pending, killing>>

\* beginStop by one of the three who stop a process; a later one takes the stop over.
BeginStop(p, who) == proc' = [proc EXCEPT ![p].expected = TRUE, ![p].owner = who]
\* signal: only the owner of the stop sends.
Signal(p, who) ==
    proc' = IF proc[p].owner = who /\ proc[p].os = "alive" THEN [proc EXCEPT ![p].sent = @ \cup {who}] ELSE proc

\* The process ends, asked to or not; cmd.Wait then closes its done channel.
Exit(p) ==
    /\ proc[p].os = "alive"
    /\ \E why \in proc[p].sent \cup (IF killing THEN {"context"} ELSE {}) : proc' = [proc EXCEPT ![p].os = "dead", ![p].why = why]
    /\ UNCHANGED <<phase, cause, told, cur, watching, pending, killing, gate, paused, check, cycles, crashes>>
Crash(p) ==
    /\ proc[p].os = "alive" /\ crashes < MaxCrashes /\ crashes' = crashes + 1
    /\ proc' = [proc EXCEPT ![p].os = "dead", ![p].why = "crash"]
    /\ UNCHANGED <<phase, cause, told, cur, watching, pending, killing, gate, paused, check, cycles>>
Finish(p) ==
    /\ proc[p].os = "dead" /\ proc' = [proc EXCEPT ![p].os = "done"]
    /\ UNCHANGED <<phase, cause, told, cur, watching, pending, killing, gate, paused, check, cycles, crashes>>

\* Mutant: the monitor reads the flag of the current process.
MonitorCurrent(p) ==
    /\ p \in watching /\ proc[p].os = "done" /\ watching' = watching \ {p}
    /\ cause' = IF Cancelled \/ proc[cur].expected THEN cause ELSE "litestream"
    /\ UNCHANGED <<phase, told, cur, proc, pending, killing, gate, paused, check, cycles, crashes>>
Monitor(p) ==
    /\ p \in watching /\ proc[p].os = "done" /\ watching' = watching \ {p}
    /\ cause' = IF Cancelled \/ proc[p].expected THEN cause ELSE "litestream"
    /\ UNCHANGED <<phase, told, cur, proc, pending, killing, gate, paused, check, cycles, crashes>>

--------------------------------------------------------------------------
(* Run.                                                                      *)

PreStart == {"proxy", "populate", "reserve", "config", "launch", "sync"}
After == [proxy |-> "populate", populate |-> "reserve", reserve |-> "config", config |-> "launch", launch |-> "sync", sync |-> "load", load |-> "serve"]

\* One start-up phase.  Launching starts Litestream; a failed load sends no event.
Startup ==
    /\ phase \in DOMAIN After
    /\ \/ phase' = After[phase] /\ (phase = "sync" => ~Cancelled) /\ UNCHANGED told
          /\ IF phase = "launch" THEN StartProcess ELSE UNCHANGED child
       \/ /\ phase' = "stop_check" /\ UNCHANGED child
          /\ told' = told \cup (IF phase \in PreStart THEN {"prestart"} ELSE {})
    /\ UNCHANGED <<cause, gate, paused, check, cycles, crashes>>

\* The process is told to end, or evidence cannot be persisted.
Cancel ==
    /\ ~Cancelled /\ phase # "ended" /\ cause' \in {"parent", "evidence"}
    /\ UNCHANGED <<phase, told, child, gate, paused, check, cycles, crashes>>

\* runVerifyLoop: a cycle runs under the gate; its own steps are in VerifyCycle.
VerifyStart ==
    /\ phase = "serve" /\ gate = "free" /\ ~Cancelled /\ gate' = "verify" /\ paused' = "verify"
    /\ UNCHANGED <<phase, cause, told, child, check, cycles, crashes>>
VerifyEnd ==
    /\ gate = "verify" /\ gate' = "free" /\ paused' = "no"
    /\ UNCHANGED <<phase, cause, told, child, check, cycles, crashes>>
LoopEnds ==
    /\ phase = "serve" /\ Cancelled /\ gate # "verify" /\ phase' = "stop_check"
    /\ told' = told \cup (IF cause = "parent" THEN {} ELSE {"failure"})
    /\ UNCHANGED <<cause, child, gate, paused, check, cycles, crashes>>

\* Mutant: the deferred stop of the check is not waited for.
StopCheckNoWait ==
    /\ phase = "stop_check" /\ phase' = "kill"
    /\ UNCHANGED <<cause, told, child, gate, paused, check, cycles, crashes>>
\* The deferred calls, last first: the check is stopped and waited for ...
StopCheck ==
    /\ phase = "stop_check" /\ pc = "idle" /\ phase' = "kill"
    /\ UNCHANGED <<cause, told, child, gate, paused, check, cycles, crashes>>
\* ... cancelLitestream kills the child ...
CancelLitestream ==
    /\ phase = "kill" /\ killing' = TRUE /\ phase' = "interrupt"
    /\ UNCHANGED <<cause, told, cur, proc, watching, pending, gate, paused, check, cycles, crashes>>
\* ... and stopLitestream interrupts what is left and waits for it.
StopLitestream ==
    \/ /\ phase = "interrupt"
       /\ IF Running(cur) THEN BeginStop(cur, "interrupt") /\ phase' = "signal" ELSE phase' = "ended" /\ UNCHANGED proc
       /\ UNCHANGED <<cause, told, cur, watching, pending, killing, gate, paused, check, cycles, crashes>>
    \/ /\ phase = "signal" /\ Signal(cur, "interrupt") /\ phase' = "wait"
       /\ UNCHANGED <<cause, told, cur, watching, pending, killing, gate, paused, check, cycles, crashes>>
    \/ /\ phase = "wait" /\ ~Running(cur) /\ phase' = "ended"
       /\ UNCHANGED <<cause, told, child, gate, paused, check, cycles, crashes>>

--------------------------------------------------------------------------
(* The WAL reset check.                                                      *)

Stopping == Cancelled \/ phase = "stop_check"       \* its context has ended
other == <<phase, cause, told, crashes>>

\* Start: a cycle begins; it waits for the gate, and is skipped when it cannot have it.
CycleStart ==
    /\ pc = "idle" /\ phase = "serve" /\ ~Stopping /\ cycles < MaxCycles
    /\ pc' = "gate" /\ cycles' = cycles + 1 /\ main' = TRUE
    /\ UNCHANGED <<other, child, gate, paused, back, downtime>>
CycleGate ==
    /\ pc = "gate"
    /\ \/ gate = "free" /\ gate' = "check" /\ pc' = "burst"
       \/ (gate # "free" \/ Stopping) /\ pc' = "idle" /\ UNCHANGED gate
    /\ UNCHANGED <<other, child, paused, main, back, downtime, cycles>>

\* Mutant: the load is not resumed on every path.
ReturnPaused == pc' = "idle" /\ gate' = "free" /\ downtime' = FALSE /\ UNCHANGED paused
\* The end of run and its deferred calls: the load resumes, the gate is released.
Return == pc' = "idle" /\ gate' = "free" /\ paused' = "no" /\ downtime' = FALSE
\* Mutant: the recovery is not installed, and the cycle just ends.
RecoverNot == pc' = "idle" /\ gate' = "free" /\ paused' = "no" /\ downtime' = FALSE /\ UNCHANGED main
\* An early return after the stop was begun: the deferred recovery ensures Litestream runs.
Recover == pc' = "ensure" /\ main' = FALSE /\ paused' = "no" /\ UNCHANGED <<gate, downtime>>

\* (1) The burst, which can fail before anything was stopped.
Burst ==
    /\ pc = "burst"
    /\ \/ pc' = "stop" /\ downtime' = TRUE /\ back' = "no" /\ UNCHANGED <<gate, paused>>
       \/ Return /\ UNCHANGED back
    /\ UNCHANGED <<other, child, main, cycles>>

\* (2) stopLitestreamForCheck marks the process as stopping before its goroutine signals it.
StopForCheck ==
    /\ pc = "stop"
    /\ \/ /\ Running(cur) /\ BeginStop(cur, "term") /\ pending' = pending \cup {cur} /\ pc' = "stopping"
          /\ UNCHANGED <<main, paused, gate, downtime>>
       \/ Recover /\ UNCHANGED <<proc, pending>>      \* exited already, or the WAL cannot be read
    /\ UNCHANGED <<other, cur, watching, killing, back, cycles>>
SendTerm(p) ==
    /\ p \in pending /\ Signal(p, "term") /\ pending' = pending \ {p}
    /\ UNCHANGED <<other, cur, watching, killing, gate, paused, check, cycles>>
\* The wait ends with the exit, attributable or not, or with the stop budget.
StopWaited ==
    /\ pc = "stopping"
    /\ \/ proc[cur].os = "done" /\ proc[cur].why = "term" /\ pc' = "down" /\ UNCHANGED <<main, paused, gate, downtime>>
       \/ Recover
    /\ UNCHANGED <<other, child, back, cycles>>

\* (3) The generations written while Litestream is down, then the writers paused and drained.
Down ==
    /\ pc = "down"
    /\ \/ pc' = "drained" /\ paused' = "check" /\ UNCHANGED <<main, gate, downtime>>
       \/ Recover
    /\ UNCHANGED <<other, child, back, cycles>>
Drained ==
    /\ pc = "drained"
    /\ \/ pc' = "ensure" /\ UNCHANGED <<main, paused, gate, downtime>>
       \/ Recover
    /\ UNCHANGED <<other, child, back, cycles>>

\* Mutant: a process that was asked to stop is taken for gone.
EnsureGone == pc = "ensure" /\ pc' = IF Running(cur) /\ ~proc[cur].expected THEN "await" ELSE "start"
\* Mutant: a process that was asked to stop is waited for like any other.
EnsureAny == pc = "ensure" /\ pc' = IF Running(cur) THEN "await" ELSE "start"
\* ensureLitestreamForCheck: what is running, and was it asked to stop.
Ensure == pc = "ensure" /\ pc' = IF ~Running(cur) THEN "start" ELSE IF proc[cur].expected THEN "replace" ELSE "await"
EnsureLook == Ensure /\ UNCHANGED <<other, child, gate, paused, main, back, downtime, cycles>>

\* (4) Litestream runs and is ready: on with the cycle, or done with the recovery.
Ready ==
    /\ back' = "yes"
    /\ IF main THEN pc' = "caught_up" /\ downtime' = FALSE /\ UNCHANGED <<gate, paused, main>> ELSE Return /\ UNCHANGED main
NotReady == IF main THEN Recover /\ UNCHANGED back ELSE Return /\ back' = "failed" /\ UNCHANGED main

EnsureAwait ==
    /\ pc = "await"
    /\ \/ Alive(cur) /\ Ready
       \/ pc' = "replace" /\ UNCHANGED <<main, back, gate, paused, downtime>>
    /\ UNCHANGED <<other, child, cycles>>
EnsureReplace ==
    \/ /\ pc = "replace"
       /\ IF Running(cur) THEN BeginStop(cur, "kill") /\ pc' = "kill" ELSE pc' = "start" /\ UNCHANGED proc
       /\ UNCHANGED <<other, cur, watching, pending, killing, gate, paused, main, back, downtime, cycles>>
    \/ /\ pc = "kill" /\ Signal(cur, "kill") /\ pc' = "killed"
       /\ UNCHANGED <<other, cur, watching, pending, killing, gate, paused, main, back, downtime, cycles>>
    \/ /\ pc = "killed" /\ ~Running(cur) /\ pc' = "start"
       /\ UNCHANGED <<other, child, gate, paused, main, back, downtime, cycles>>
EnsureStart ==
    /\ pc = "start"
    /\ \/ StartProcess /\ pc' = "ready" /\ UNCHANGED <<main, back, gate, paused, downtime>>
       \/ NotReady /\ UNCHANGED child
    /\ UNCHANGED <<other, cycles>>
EnsureReady ==
    /\ pc = "ready" /\ (Ready \/ NotReady) /\ UNCHANGED <<other, child, cycles>>

\* Catching up with the load paused, (5) the restores with it paused again.
CatchUp ==
    /\ pc = "caught_up"
    /\ \/ pc' = "validate" /\ paused' = "check" /\ UNCHANGED <<gate, downtime>>
       \/ Return
    /\ UNCHANGED <<other, child, main, back, cycles>>
Validate == pc = "validate" /\ Return /\ UNCHANGED <<other, child, main, back, cycles>>

--------------------------------------------------------------------------
CheckStep ==
    \/ CycleGate \/ Burst \/ StopForCheck \/ StopWaited \/ Down \/ Drained
    \/ EnsureLook \/ EnsureAwait \/ EnsureReplace \/ EnsureStart \/ EnsureReady \/ CatchUp \/ Validate
RunStep == Startup \/ VerifyEnd \/ LoopEnds \/ StopCheck \/ CancelLitestream \/ StopLitestream
ProcStep == \E p \in Procs : Exit(p) \/ Finish(p) \/ Monitor(p) \/ SendTerm(p)
RNext == CheckStep \/ RunStep \/ ProcStep \/ CycleStart \/ VerifyStart \/ Cancel \/ \E p \in Procs : Crash(p)

--------------------------------------------------------------------------
\* ensureLitestreamForCheck: "A second process is never started next to a live one."
OneLitestream == Cardinality({p \in Procs : Alive(p)}) <= 1

\* Run's deferred calls: a run that ended left no Litestream behind, although the check may
\* have been restarting it.
NothingLeft == phase = "ended" => \A p \in Procs : ~Alive(p)

\* monitorProcess: the run fails because of Litestream only when a process ended on its own.
BlamedRightly == cause = "litestream" => \E p \in Procs : proc[p].why = "crash" \/ killing

\* ensureLitestreamForCheck: after a cycle that restarted Litestream, its exit would be noticed: the process is not
\* taken for one that was asked to stop, unless the run itself is being torn down.
StillWatched ==
    pc = "idle" /\ back = "yes" /\ phase = "serve" => ~proc[cur].expected /\ (proc[cur].os # "done" \/ cur \in watching \/ Cancelled)

\* checkGate: nobody leaves the load paused: it is paused only by the holder of the gate.
PausedByHolder == paused \in {"no", gate}

\* monitorProcess and the check's deferred recovery: Litestream gone means that the run ends,
\* or another process is started, or the attempt to start one failed and was reported.
Lost == cur # 0 /\ proc[cur].os = "done"
Noticed == phase = "ended" \/ Alive(cur) \/ back = "failed"
=============================================================================
