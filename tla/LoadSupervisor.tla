----------------------------- MODULE LoadSupervisor -----------------------------
(* The supervisor of the load generator's process (load_supervisor.go): the    *)
(* supervise goroutine restarts it, while the verifier pauses and resumes it   *)
(* and the runner stops it.                                                    *)
EXTENDS Naturals, TLAPS

CONSTANTS MaxProcs, MaxCalls

VARIABLES proc,         \* the newest process: "none", "run", "stop" (SIGSTOPped), "gone"
          intr,         \* an interrupt is pending or delivered
          known,        \* s.cmd is the newest process
          exited, paused, stopped, resumeCh,
          woken,        \* the channel the supervisor took is closed
          spc,          \* supervise: "wait", "check", "backoff", "held", "start", "commit", "signal", "end"
          sawStopped,   \* the local stopped of the commit
          waiting,      \* Stop waits for the process it signalled
          cancelled,    \* ctx
          procs, calls
svars == <<proc, intr, known, exited, paused, stopped, resumeCh, woken, spc, sawStopped, waiting, cancelled, procs, calls>>
flags == <<paused, stopped, resumeCh, woken>>

\* start has been called.
SInit ==
    /\ proc = "run" /\ intr = FALSE /\ known = TRUE /\ exited = FALSE /\ paused = FALSE /\ stopped = FALSE
    /\ resumeCh = "nil" /\ woken = FALSE /\ spc = "wait" /\ sawStopped = FALSE /\ waiting = FALSE /\ cancelled = FALSE /\ procs = 1 /\ calls = 0

Alive == proc \in {"run", "stop"}

--------------------------------------------------------------------------
(* The process. A stopped one handles an interrupt only when continued.      *)

Exits ==
    /\ Alive /\ proc' = "gone"
    /\ \/ proc = "run" /\ (intr \/ procs < MaxProcs)
       \/ cancelled                                   \* exec.CommandContext kills it
    /\ UNCHANGED <<intr, known, exited, flags, spc, sawStopped, waiting, cancelled, procs, calls>>

--------------------------------------------------------------------------
(* supervise.                                                                *)

WaitReturns ==
    /\ spc = "wait" /\ proc = "gone" /\ exited' = TRUE /\ spc' = "check"
    /\ UNCHANGED <<proc, intr, known, flags, sawStopped, waiting, cancelled, procs, calls>>
CheckStop ==
    /\ spc = "check" /\ spc' = IF cancelled \/ stopped THEN "end" ELSE "backoff"
    /\ UNCHANGED <<proc, intr, known, exited, flags, sawStopped, waiting, cancelled, procs, calls>>
BackoffEnds ==
    /\ spc = "backoff" /\ spc' \in (IF cancelled THEN {"end", "held"} ELSE {"held"})
    /\ UNCHANGED <<proc, intr, known, exited, flags, sawStopped, waiting, cancelled, procs, calls>>

\* waitWhilePaused.
WaitWhilePaused ==
    /\ spc = "held"
    /\ \/ stopped /\ spc' = "end" /\ UNCHANGED <<resumeCh, woken>>
       \/ ~stopped /\ ~paused /\ spc' = "start" /\ UNCHANGED <<resumeCh, woken>>
       \/ ~stopped /\ paused /\ spc' = "blocked" /\ resumeCh' = "open" /\ woken' = FALSE
    /\ UNCHANGED <<proc, intr, known, exited, paused, stopped, sawStopped, waiting, cancelled, procs, calls>>
\* The channel it took is closed by whoever clears resumeCh.
Unblocked ==
    /\ spc = "blocked"
    /\ \/ cancelled /\ spc' = "end"
       \/ woken /\ spc' = "held"
    /\ UNCHANGED <<proc, intr, known, exited, flags, sawStopped, waiting, cancelled, procs, calls>>

StartCmd ==
    /\ spc = "start"
    /\ \/ spc' = "backoff" /\ UNCHANGED <<proc, intr, known, procs>>
       \/ /\ ~cancelled /\ procs < MaxProcs /\ procs' = procs + 1 /\ proc' = "run" /\ intr' = FALSE
          /\ known' = FALSE /\ spc' = "commit"
    /\ UNCHANGED <<exited, flags, sawStopped, waiting, cancelled, calls>>

\* Mutant: a Pause since the wait is not honoured.
CommitRunning ==
    /\ spc = "commit" /\ known' = TRUE /\ exited' = FALSE /\ sawStopped' = stopped /\ spc' = "signal"
    /\ UNCHANGED <<proc, intr, flags, waiting, cancelled, procs, calls>>
Commit ==
    /\ spc = "commit" /\ known' = TRUE /\ exited' = FALSE /\ sawStopped' = stopped /\ spc' = "signal"
    /\ proc' = IF paused /\ proc = "run" THEN "stop" ELSE proc
    /\ UNCHANGED <<intr, flags, waiting, cancelled, procs, calls>>
SignalNew ==
    /\ spc = "signal" /\ spc' = "wait" /\ intr' = (intr \/ sawStopped)
    /\ UNCHANGED <<proc, known, exited, flags, sawStopped, waiting, cancelled, procs, calls>>

--------------------------------------------------------------------------
(* The callers.                                                              *)

Call == calls < MaxCalls /\ calls' = calls + 1 /\ ~stopped
Target == known /\ ~exited
Close(does) == resumeCh' = (IF does THEN "nil" ELSE resumeCh) /\ woken' = (woken \/ does)

Pause ==
    /\ Call /\ paused' = TRUE /\ resumeCh' = "open" /\ UNCHANGED woken
    /\ proc' = IF Target /\ proc = "run" THEN "stop" ELSE proc
    /\ UNCHANGED <<intr, known, exited, stopped, spc, sawStopped, waiting, cancelled, procs>>
\* Mutant: the channel is only closed when there is a process to continue.
ResumeProcess ==
    /\ paused /\ Call /\ paused' = FALSE /\ Close(Target)
    /\ proc' = IF Target /\ proc = "stop" THEN "run" ELSE proc
    /\ UNCHANGED <<intr, known, exited, stopped, spc, sawStopped, waiting, cancelled, procs>>
Resume ==
    /\ paused /\ Call /\ paused' = FALSE /\ Close(TRUE)
    /\ proc' = IF Target /\ proc = "stop" THEN "run" ELSE proc
    /\ UNCHANGED <<intr, known, exited, stopped, spc, sawStopped, waiting, cancelled, procs>>

\* Mutant: a stopped process is interrupted without being continued.
StopPaused ==
    /\ ~stopped /\ stopped' = TRUE /\ Close(TRUE) /\ intr' = (intr \/ Target) /\ waiting' = Target
    /\ UNCHANGED <<proc, known, exited, paused, spc, sawStopped, cancelled, procs, calls>>
\* Stop: continued, then interrupted; it returns once the process it saw is done.
Stop ==
    /\ ~stopped /\ stopped' = TRUE /\ Close(TRUE)
    /\ proc' = (IF Target /\ proc = "stop" THEN "run" ELSE proc)
    /\ intr' = (intr \/ Target) /\ waiting' = Target
    /\ UNCHANGED <<known, exited, paused, spc, sawStopped, cancelled, procs, calls>>
StopReturns ==
    /\ stopped /\ waiting /\ exited /\ waiting' = FALSE
    /\ UNCHANGED <<proc, intr, known, exited, flags, spc, sawStopped, cancelled, procs, calls>>
\* The runner cancels the context after Stop.
Cancel ==
    /\ stopped /\ ~waiting /\ ~cancelled /\ cancelled' = TRUE
    /\ UNCHANGED <<proc, intr, known, exited, flags, spc, sawStopped, waiting, procs, calls>>

\* What makes the process end for certain.
Interrupted == intr /\ Exits
Killed == cancelled /\ Exits

SuperviseStep == WaitReturns \/ CheckStop \/ BackoffEnds \/ WaitWhilePaused \/ Unblocked \/ StartCmd \/ Commit \/ SignalNew
SNext == Exits \/ SuperviseStep \/ Pause \/ Resume \/ Stop \/ StopReturns \/ Cancel

--------------------------------------------------------------------------
\* Pause and the commit in supervise: while the load is paused no process writes, the one the supervisor has started and
\* not yet committed excepted; Stop continues the process to interrupt it.
PausedIsQuiet == paused /\ ~stopped /\ proc = "run" => spc = "commit"

\* Resume: the supervisor does not stay blocked once the load is resumed.
Held == ~paused /\ ~stopped /\ spc = "blocked"

\* Stop: once the runner has stopped the load and cancelled, neither process nor supervisor
\* is left.
Stopped == stopped
Over == ~Alive /\ spc = "end"

-----------------------------------------------------------------------------
(* A paused load is quiet, for any number of processes and calls.             *)

SSpec == SInit /\ [][SNext]_svars

\* A process that s.cmd does not name, or that is taken for exited, is between its
\* start and its commit; the supervisor waits only for a process it has committed.
Registered ==
    /\ proc = "run" /\ ~(known /\ ~exited) => spc = "commit"
    /\ spc = "commit" => proc # "stop" /\ ~known
    /\ spc \in {"start", "backoff", "held", "blocked", "check", "end"} => proc \notin {"run", "stop"}

QuietInv == PausedIsQuiet /\ Registered

LEMMA QuietInit == SInit => QuietInv
  BY DEF SInit, QuietInv, PausedIsQuiet, Registered

LEMMA QuietStep == QuietInv /\ [SNext]_svars => QuietInv'
<1> SUFFICES ASSUME QuietInv, [SNext]_svars PROVE QuietInv'
  OBVIOUS
<1> USE DEF QuietInv, PausedIsQuiet, Registered
<1>1. CASE Exits
  BY <1>1 DEF Exits, Alive, flags
<1>2. CASE WaitReturns \/ CheckStop \/ BackoffEnds
  BY <1>2 DEF WaitReturns, CheckStop, BackoffEnds, flags
<1>3. CASE WaitWhilePaused \/ Unblocked
  BY <1>3 DEF WaitWhilePaused, Unblocked, flags
\* A new process runs uncommitted.
<1>4. CASE StartCmd
  BY <1>4 DEF StartCmd, flags
\* The commit stops it when the load was paused meanwhile.
<1>5. CASE Commit
  BY <1>5 DEF Commit, flags
<1>6. CASE SignalNew
  BY <1>6 DEF SignalNew, flags
\* Pause stops the process it finds registered.
<1>7. CASE Pause
  BY <1>7 DEF Pause, Call, Target
<1>8. CASE Resume
  BY <1>8 DEF Resume, Call, Target, Close
<1>9. CASE Stop
  BY <1>9 DEF Stop, Target, Close
<1>10. CASE StopReturns \/ Cancel
  BY <1>10 DEF StopReturns, Cancel, flags
<1>11. CASE UNCHANGED svars
  BY <1>11 DEF svars
<1> QED
  BY <1>1, <1>2, <1>3, <1>4, <1>5, <1>6, <1>7, <1>8, <1>9, <1>10, <1>11 DEF SNext, SuperviseStep

\* Pause and the commit in supervise: while the load is paused no process writes, but
\* the one the supervisor has started and not yet committed.
THEOREM PausedLoadQuiet == SSpec => []PausedIsQuiet
<1>1. QuietInv => PausedIsQuiet
  BY DEF QuietInv
<1> QED
  BY <1>1, QuietInit, QuietStep, PTL DEF SSpec
=============================================================================
