---------------------------- MODULE WorkerRunProofs ----------------------------
(* One Litestream at a time, none left behind, and no pause without its holder, *)
(* for any number of processes, cycles and crashes.                            *)
EXTENDS WorkerRun, FiniteSetTheorems, TLAPS

RSpec == RInit /\ [][RNext]_rvars

Who == {"interrupt", "term", "kill"}
ProcRec == [os : {"none", "alive", "dead", "done"}, why : Who \cup {"none", "crash", "context"},
            expected : BOOLEAN, owner : Who \cup {"none"}, sent : SUBSET Who]

ChildOK == cur \in 0..MaxProcs /\ proc \in [Procs -> ProcRec]
\* Only the newest process may live.
OthersOut == \A p \in Procs : p # cur => proc[p].os # "alive"

Before == {"proxy", "populate", "reserve", "config", "launch"}
Teardown == {"kill", "interrupt", "signal", "wait", "ended"}
\* The check runs between the launch and the teardown; it starts a process only when the
\* last one is done, and so does the launch, which comes first.
Orderly ==
    /\ phase \in Before => cur = 0 /\ pc = "idle"
    /\ phase \in Teardown => pc = "idle"
    /\ phase = "ended" => ~Running(cur)
    /\ pc = "start" => ~Running(cur)
    /\ phase = "signal" \/ pc = "kill" => cur # 0
\* The check works under the gate, and only the holder pauses.
GateInv ==
    /\ pc \notin {"idle", "gate"} => gate = "check"
    /\ paused \in {"no", gate} /\ paused # "free"

RunInv == ChildOK /\ OthersOut /\ Orderly /\ GateInv

LEMMA RunInit == ASSUME MaxProcs \in Nat, RInit PROVE RunInv
  BY DEF RInit, RunInv, ChildOK, OthersOut, Orderly, GateInv, NoProc, ProcRec, Who, Running, Before, Teardown, Procs

\* What every step but a start does to the processes: none comes to life, none comes back.
Ages ==
    /\ cur' = cur /\ proc' \in [Procs -> ProcRec]
    /\ \A p \in Procs : /\ proc'[p].os = "alive" => proc[p].os = "alive"
                        /\ proc[p].os = "done" => proc'[p].os = "done"

\* One process becomes another record, no younger.
LEMMA OneAges ==
    ASSUME ChildOK, cur' = cur, NEW p \in Procs, NEW r \in ProcRec, proc' = [proc EXCEPT ![p] = r],
           r.os = "alive" => proc[p].os = "alive", proc[p].os = "done" => r.os = "done"
    PROVE  Ages
  BY DEF ChildOK, Ages

LEMMA BeginStopAges ==
    ASSUME ChildOK, cur' = cur, NEW p \in Procs, NEW who \in Who, BeginStop(p, who) PROVE Ages
<1> DEFINE r == [proc[p] EXCEPT !.expected = TRUE, !.owner = who]
<1>1. r \in ProcRec /\ r.os = proc[p].os
  BY DEF ChildOK, ProcRec
<1>2. proc' = [proc EXCEPT ![p] = r]
  BY DEF ChildOK, BeginStop
<1> QED
  BY <1>1, <1>2, OneAges

LEMMA SignalAges ==
    ASSUME ChildOK, cur' = cur, NEW p \in Procs, NEW who \in Who, Signal(p, who) PROVE Ages
  BY DEF ChildOK, Signal, Ages, ProcRec

LEMMA SameAges == ASSUME ChildOK, UNCHANGED <<cur, proc>> PROVE Ages
  BY DEF ChildOK, Ages

LEMMA ExitAges ==
    ASSUME ChildOK, NEW p \in Procs, Exit(p) \/ Crash(p) \/ Finish(p) PROVE Ages
<1>t. proc[p] \in ProcRec
  BY DEF ChildOK
<1>1. ASSUME NEW why \in Who \cup {"crash", "context"}, proc[p].os = "alive", cur' = cur,
             proc' = [proc EXCEPT ![p].os = "dead", ![p].why = why]
      PROVE  Ages
  <2> DEFINE r == [proc[p] EXCEPT !.os = "dead", !.why = why]
  <2>1. r \in ProcRec /\ r.os = "dead"
    BY <1>t DEF ProcRec
  <2>2. proc' = [proc EXCEPT ![p] = r]
    BY <1>1
  <2> QED
    BY <1>1, <2>1, <2>2, OneAges
<1>2. CASE Exit(p)
  <2>1. PICK why \in proc[p].sent \cup (IF killing THEN {"context"} ELSE {}) :
            proc' = [proc EXCEPT ![p].os = "dead", ![p].why = why]
    BY <1>2 DEF Exit
  <2>2. why \in Who \cup {"crash", "context"}
    BY <1>t, <2>1 DEF ProcRec
  <2>3. proc[p].os = "alive" /\ cur' = cur
    BY <1>2 DEF Exit
  <2> QED
    BY <1>1, <2>1, <2>2, <2>3
<1>3. CASE Crash(p)
  <2>1. proc[p].os = "alive" /\ cur' = cur /\ proc' = [proc EXCEPT ![p].os = "dead", ![p].why = "crash"]
    BY <1>3 DEF Crash
  <2> QED
    BY <1>1, <2>1
<1>4. CASE Finish(p)
  <2>1. cur' = cur /\ proc' = [proc EXCEPT ![p].os = "done"]
    BY <1>4 DEF Finish
  <2> DEFINE r == [proc[p] EXCEPT !.os = "done"]
  <2>2. r \in ProcRec /\ r.os = "done" /\ proc' = [proc EXCEPT ![p] = r]
    BY <1>t, <2>1 DEF ProcRec
  <2> QED
    BY <2>1, <2>2, OneAges
<1> QED
  BY <1>2, <1>3, <1>4

\* An ageing step keeps what is known of the processes.
LEMMA AgesKeeps ==
    ASSUME MaxProcs \in Nat, ChildOK, OthersOut, Ages
    PROVE  ChildOK' /\ OthersOut' /\ (~Running(cur) => ~Running(cur)')
  BY DEF ChildOK, OthersOut, Ages, Running, Procs

\* A start next to nothing alive.
LEMMA StartKeeps ==
    ASSUME MaxProcs \in Nat, ChildOK, OthersOut, ~Running(cur), StartProcess
    PROVE  ChildOK' /\ OthersOut'
<1>1. cur + 1 \in Procs /\ cur' = cur + 1 /\ proc' = [proc EXCEPT ![cur + 1].os = "alive"]
  BY DEF ChildOK, StartProcess, Procs
<1>2. ChildOK'
  <2>1. [proc[cur + 1] EXCEPT !.os = "alive"] \in ProcRec
    BY <1>1 DEF ChildOK, ProcRec
  <2> QED
    BY <1>1, <2>1 DEF ChildOK, Procs
<1>3. \A p \in Procs : proc[p].os # "alive"
  BY DEF OthersOut, Running, ChildOK, Procs
<1>4. \A p \in Procs : p # cur + 1 => proc'[p] = proc[p]
  BY <1>1 DEF ChildOK
<1> QED
  BY <1>1, <1>2, <1>3, <1>4 DEF OthersOut

LEMMA RunStepKeeps ==
    ASSUME MaxProcs \in Nat, RunInv, [RNext]_rvars PROVE RunInv'
<1> USE DEF RunInv
<1>c. cur # 0 => cur \in Procs
  BY DEF ChildOK, Procs
\* Steps that start no process.
<1>a. ASSUME Ages, Orderly', GateInv' PROVE RunInv'
  BY <1>a, AgesKeeps
<1>s. ASSUME UNCHANGED child PROVE Ages /\ Running(cur)' = Running(cur)
  BY <1>s, SameAges DEF child, Running
<1>1. ASSUME NEW p \in Procs, Exit(p) \/ Crash(p) \/ Finish(p) PROVE RunInv'
  <2>1. Ages
    BY <1>1, ExitAges
  <2>2. UNCHANGED <<phase, pc, gate, paused>>
    BY <1>1 DEF Exit, Crash, Finish, check
  <2> QED
    BY <1>a, <2>1, <2>2, AgesKeeps DEF Orderly, GateInv, Ages
<1>2. ASSUME NEW p \in Procs, Monitor(p) PROVE RunInv'
  <2>1. UNCHANGED <<phase, pc, gate, paused, cur, proc>>
    BY <1>2 DEF Monitor, check
  <2> QED
    BY <1>a, <2>1, SameAges DEF Orderly, GateInv, Running
<1>3. ASSUME NEW p \in Procs, SendTerm(p) PROVE RunInv'
  <2>1. UNCHANGED <<phase, pc, gate, paused, cur>> /\ Signal(p, "term")
    BY <1>3 DEF SendTerm, check, other
  <2>2. Ages
    BY <2>1, SignalAges DEF Who
  <2> QED
    BY <1>a, <2>1, <2>2, AgesKeeps DEF Orderly, GateInv
\* The launch comes before any other start.
<1>4. CASE Startup
  <2>1. phase \in Before /\ phase # "launch" => phase' \in Before \cup {"sync", "stop_check"}
    BY <1>4 DEF Startup, After, Before
  <2>2. phase' \notin Teardown /\ UNCHANGED <<pc, gate, paused>>
    BY <1>4 DEF Startup, After, Teardown, check
  <2>3. phase \notin Before => phase' \notin Before
    BY <1>4 DEF Startup, After, Before
  <2>4. CASE UNCHANGED child
    <3>1. Orderly'
      BY <1>s, <2>2, <2>3, <2>4 DEF Orderly, child, Before, Teardown
    <3> QED
      BY <1>a, <1>s, <2>2, <2>4, <3>1 DEF GateInv
  <2>5. CASE phase = "launch" /\ phase' = "sync" /\ StartProcess
    <3>1. ~Running(cur) /\ pc = "idle"
      BY <2>5 DEF Orderly, Before, Running
    <3>2. ChildOK' /\ OthersOut'
      BY <2>5, <3>1, StartKeeps
    <3> QED
      BY <2>2, <2>5, <3>1, <3>2 DEF Orderly, GateInv, Before, Teardown
  <2> QED
    BY <1>4, <2>4, <2>5 DEF Startup, After
<1>5. CASE Cancel \/ VerifyStart \/ VerifyEnd \/ LoopEnds \/ StopCheck
  <2>1. UNCHANGED child /\ UNCHANGED pc
    BY <1>5 DEF Cancel, VerifyStart, VerifyEnd, LoopEnds, StopCheck, check
  <2>2. Orderly'
    BY <1>5, <1>s, <2>1 DEF Cancel, VerifyStart, VerifyEnd, LoopEnds, StopCheck, Orderly, child, Before, Teardown
  <2>3. GateInv'
    BY <1>5, <2>1 DEF Cancel, VerifyStart, VerifyEnd, LoopEnds, StopCheck, GateInv
  <2> QED
    BY <1>a, <1>s, <2>1, <2>2, <2>3
\* The teardown ends when the newest process is done.
<1>6. CASE CancelLitestream \/ StopLitestream
  <2>1. phase \in Teardown /\ phase' \in Teardown /\ UNCHANGED <<pc, gate, paused, cur>>
    BY <1>6 DEF CancelLitestream, StopLitestream, Teardown, check, child
  <2>2. Ages
    <3>1. CASE UNCHANGED proc
      BY <2>1, <3>1, SameAges
    <3>2. CASE cur # 0 /\ BeginStop(cur, "interrupt")
      BY <1>c, <2>1, <3>2, BeginStopAges DEF Who
    <3>3. CASE cur # 0 /\ Signal(cur, "interrupt")
      BY <1>c, <2>1, <3>3, SignalAges DEF Who
    <3> QED
      BY <1>6, <3>1, <3>2, <3>3 DEF CancelLitestream, StopLitestream, Running, child, Orderly
  <2>3. (phase' = "ended" => ~Running(cur)) /\ (phase' = "signal" => cur # 0)
    BY <1>6 DEF CancelLitestream, StopLitestream, Running
  <2> QED
    BY <1>a, <2>1, <2>2, <2>3, AgesKeeps DEF Orderly, GateInv, Before, Teardown
<1>7. CASE CycleStart
  <2>1. phase = "serve" /\ pc' = "gate" /\ UNCHANGED <<phase, gate, paused>> /\ UNCHANGED child
    BY <1>7 DEF CycleStart, other
  <2> QED
    BY <1>a, <1>s, <2>1 DEF Orderly, GateInv, Before, Teardown
<1>8. CASE UNCHANGED rvars
  BY <1>8, <1>a, SameAges DEF rvars, Orderly, GateInv, Running
\* A step of the check: it holds the gate, outside launch and teardown.
<1>g. ASSUME Return \/ Recover, pc \notin {"idle", "gate"} PROVE GateInv'
  BY <1>g DEF Return, Recover, GateInv
<1>r. ASSUME Return \/ Recover, pc # "idle", UNCHANGED phase, cur' = cur PROVE Orderly'
  BY <1>r DEF Return, Recover, Orderly, Before, Teardown
<1>9. CASE CycleGate
  <2>1. UNCHANGED child /\ UNCHANGED <<phase, paused>> /\ pc = "gate" /\ pc' \in {"idle", "burst"}
    BY <1>9 DEF CycleGate, other
  <2>2. GateInv'
    BY <1>9, <2>1 DEF CycleGate, GateInv
  <2>3. Orderly'
    BY <1>s, <2>1 DEF Orderly, child
  <2> QED
    BY <1>a, <1>s, <2>1, <2>2, <2>3
<1>10. CASE Burst \/ StopWaited \/ Down \/ Drained \/ CatchUp \/ Validate
  <2>1. UNCHANGED child /\ UNCHANGED phase /\ pc \notin {"idle", "gate"}
    BY <1>10 DEF Burst, StopWaited, Down, Drained, CatchUp, Validate, other
  <2>2. CASE Return \/ Recover
    BY <1>a, <1>g, <1>r, <1>s, <2>1, <2>2 DEF child
  <2>3. CASE pc' \in {"stop", "down", "drained", "ensure", "validate"} /\ gate' = gate /\ paused' \in {paused, "check"}
    <3>1. GateInv'
      BY <2>1, <2>3 DEF GateInv
    <3>2. Orderly'
      BY <1>s, <2>1, <2>3 DEF Orderly, child
    <3> QED
      BY <1>a, <1>s, <2>1, <3>1, <3>2
  <2> QED
    BY <1>10, <2>2, <2>3 DEF Burst, StopWaited, Down, Drained, CatchUp, Validate
<1>w. ASSUME pc \notin {"idle", "gate"}, UNCHANGED <<phase, gate, paused>> PROVE GateInv'
  BY <1>w DEF GateInv
<1>o. ASSUME pc # "idle", UNCHANGED phase, pc' \notin {"idle", "start", "kill"} PROVE Orderly'
  BY <1>o DEF Orderly, Before, Teardown
<1>11. CASE StopForCheck
  <2>1. pc = "stop" /\ UNCHANGED <<phase, cur>>
    BY <1>11 DEF StopForCheck, other
  <2>2. CASE Running(cur) /\ BeginStop(cur, "term") /\ pc' = "stopping" /\ UNCHANGED <<paused, gate>>
    <3>1. Ages
      BY <1>c, <2>1, <2>2, BeginStopAges DEF Who, Running
    <3> QED
      BY <1>a, <1>w, <1>o, <2>1, <2>2, <3>1
  <2>3. CASE Recover /\ UNCHANGED proc
    BY <1>a, <1>g, <1>r, <2>1, <2>3, SameAges
  <2> QED
    BY <1>11, <2>2, <2>3 DEF StopForCheck
<1>n. ASSUME Ready \/ NotReady, pc \notin {"idle", "gate"}, UNCHANGED phase, UNCHANGED child PROVE RunInv'
  <2>1. CASE Return \/ Recover
    BY <1>a, <1>g, <1>r, <1>s, <1>n, <2>1 DEF child
  <2>2. CASE pc' = "caught_up" /\ UNCHANGED <<gate, paused>>
    BY <1>a, <1>w, <1>o, <1>s, <1>n, <2>2
  <2> QED
    BY <1>n, <2>1, <2>2 DEF Ready, NotReady
<1>12. CASE EnsureLook
  <2>1. pc = "ensure" /\ UNCHANGED <<phase, gate, paused>> /\ UNCHANGED child
    BY <1>12 DEF EnsureLook, Ensure, other
  <2>2. pc' \in {"start", "replace", "await"} /\ (pc' = "start" => ~Running(cur))
    BY <1>12 DEF EnsureLook, Ensure
  <2>3. Orderly'
    BY <1>s, <2>1, <2>2 DEF Orderly, child, Before, Teardown
  <2> QED
    BY <1>a, <1>s, <1>w, <2>1, <2>3
<1>13. CASE EnsureAwait \/ EnsureReady
  <2>1. pc \in {"await", "ready"} /\ UNCHANGED phase /\ UNCHANGED child
    BY <1>13 DEF EnsureAwait, EnsureReady, other
  <2>2. CASE Ready \/ NotReady
    BY <1>n, <2>1, <2>2
  <2>3. CASE pc' = "replace" /\ UNCHANGED <<gate, paused>>
    BY <1>a, <1>w, <1>o, <1>s, <2>1, <2>3
  <2> QED
    BY <1>13, <2>2, <2>3 DEF EnsureAwait, EnsureReady
<1>14. CASE EnsureReplace
  <2>1. pc \in {"replace", "kill", "killed"} /\ UNCHANGED <<phase, gate, paused, cur>>
    BY <1>14 DEF EnsureReplace, other, child
  <2>2. Ages
    <3>1. CASE UNCHANGED proc
      BY <2>1, <3>1, SameAges
    <3>2. CASE cur # 0 /\ BeginStop(cur, "kill")
      BY <1>c, <2>1, <3>2, BeginStopAges DEF Who
    <3>3. CASE cur # 0 /\ Signal(cur, "kill")
      BY <1>c, <2>1, <3>3, SignalAges DEF Who
    <3> QED
      BY <1>14, <3>1, <3>2, <3>3 DEF EnsureReplace, Running, child, Orderly
  <2>3. /\ pc' \in {"kill", "killed", "start"}
        /\ pc' = "kill" => cur # 0
        /\ pc' = "start" => ~Running(cur)
    BY <1>14 DEF EnsureReplace, Running
  <2>4. Orderly'
    BY <2>1, <2>2, <2>3, AgesKeeps DEF Orderly, Before, Teardown
  <2> QED
    BY <1>a, <1>w, <2>1, <2>2, <2>4
<1>15. CASE EnsureStart
  <2>1. pc = "start" /\ UNCHANGED phase /\ ~Running(cur)
    BY <1>15 DEF EnsureStart, other, Orderly
  <2>2. CASE StartProcess /\ pc' = "ready" /\ UNCHANGED <<gate, paused>>
    BY <1>w, <1>o, <2>1, <2>2, StartKeeps
  <2>3. CASE NotReady /\ UNCHANGED child
    BY <1>n, <2>1, <2>3
  <2> QED
    BY <1>15, <2>2, <2>3 DEF EnsureStart
<1> QED
  BY <1>1, <1>2, <1>3, <1>4, <1>5, <1>6, <1>7, <1>8, <1>9, <1>10, <1>11, <1>12, <1>13, <1>14, <1>15
     DEF RNext, CheckStep, RunStep, ProcStep

\* The invariant holds throughout every run.
LEMMA RunAlways == ASSUME MaxProcs \in Nat PROVE RSpec => []RunInv
<1>1. RInit => RunInv
  BY RunInit
<1>2. RunInv /\ [RNext]_rvars => RunInv'
  BY RunStepKeeps
<1> QED
  BY <1>1, <1>2, PTL DEF RSpec

\* ensureLitestreamForCheck: "A second process is never started next to a live one", however
\* the launch, the check's restarts, their failures and the crashes of the child interleave.
THEOREM OneLitestreamAlways == ASSUME MaxProcs \in Nat PROVE RSpec => []OneLitestream
<1>1. ASSUME RunInv PROVE OneLitestream
  <2>1. {p \in Procs : Alive(p)} \subseteq {cur}
    BY <1>1 DEF RunInv, OthersOut, Alive
  <2>2. IsFiniteSet({cur}) /\ Cardinality({cur}) = 1
    BY FS_Singleton
  <2>3. Cardinality({p \in Procs : Alive(p)}) <= Cardinality({cur})
    BY <2>1, <2>2, FS_Subset
  <2> QED
    BY <2>2, <2>3 DEF OneLitestream
<1>2. RunInv => OneLitestream
  BY <1>1
<1> QED
  BY <1>2, RunAlways, PTL

\* Run's deferred calls: when Run has returned, no Litestream of it lives on, although the check
\* may have been restarting one when the run was told to end.
THEOREM NothingLeftAlways == ASSUME MaxProcs \in Nat PROVE RSpec => []NothingLeft
<1>1. RunInv => NothingLeft
  BY DEF RunInv, ChildOK, OthersOut, Orderly, NothingLeft, Alive, Running, Procs
<1> QED
  BY <1>1, RunAlways, PTL

\* checkGate: the load is paused only while the gate is held, by its holder: no path out of a
\* verification or of a check leaves it paused.
THEOREM PauseHasHolder == ASSUME MaxProcs \in Nat PROVE RSpec => []PausedByHolder
<1>1. RunInv => PausedByHolder
  BY DEF RunInv, GateInv, PausedByHolder
<1> QED
  BY <1>1, RunAlways, PTL
=============================================================================
