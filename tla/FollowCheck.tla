------------------------------ MODULE FollowCheck ------------------------------
(* The follow check (follow_check.go): a `litestream restore -f` process that    *)
(* outlives verification cycles, compared with the source at every cycle's       *)
(* boundary and credited only for crossing new L9 snapshots. Litestream and its  *)
(* replica are external.                                                         *)
EXTENDS Naturals

CONSTANTS MaxTX, MaxSnaps, MaxCycles

VARIABLES tx, l9, snaps,        \* the primary; L9's newest transaction and object count; snapshots ever
          proc, pinned,         \* the follow process, the pinned probe: "none", "up", "exited"
          fpos, faithful,       \* the transaction the follower has applied, and whether rightly
          follow,               \* v.follow: the L9 summary it counts from; ghost: snaps at that listing
          fpc, boundary, cycles,
          innocent,             \* ghost: no follow process has exited, diverged or stalled, or failed to start, yet
          credit,               \* ghost: passes, minus what the snapshots since the listing allow
          result
fvars == <<tx, l9, snaps, proc, pinned, fpos, faithful, follow, fpc, boundary, cycles, innocent, credit, result>>

NoFollow == [on |-> FALSE, l9 |-> <<0, 0>>, at |-> 0]
FInit ==
    /\ tx = 1 /\ l9 = <<1, 1>> /\ snaps = 1 /\ proc = "none" /\ pinned = "none" /\ fpos = 0 /\ faithful = TRUE
    /\ follow = NoFollow /\ fpc = "idle" /\ boundary = 0 /\ cycles = 0 /\ innocent = TRUE /\ credit = 0 /\ result = "none"

cycle == <<follow, fpc, boundary, cycles, credit, result>>

\* The load writes only between cycles.
Write == fpc = "idle" /\ tx < MaxTX /\ tx' = tx + 1 /\ UNCHANGED <<l9, snaps, proc, pinned, fpos, faithful, innocent, cycle>>
\* Litestream takes snapshots on its own schedule, and retention removes old ones.
Snapshot ==
    /\ snaps < MaxSnaps /\ snaps' = snaps + 1 /\ l9' = <<tx, l9[2] + 1>>
    /\ UNCHANGED <<tx, proc, pinned, fpos, faithful, innocent, cycle>>
Retain == l9[2] > 1 /\ l9' = <<l9[1], l9[2] - 1>> /\ UNCHANGED <<tx, snaps, proc, pinned, fpos, faithful, innocent, cycle>>
Follows == proc = "up" /\ fpos < tx /\ fpos' = tx /\ UNCHANGED <<tx, l9, snaps, proc, pinned, faithful, innocent, cycle>>
Diverges == proc = "up" /\ faithful /\ faithful' = FALSE /\ innocent' = FALSE /\ UNCHANGED <<tx, l9, snaps, proc, pinned, fpos, cycle>>
Exits == proc = "up" /\ proc' = "exited" /\ innocent' = FALSE /\ UNCHANGED <<tx, l9, snaps, pinned, fpos, faithful, cycle>>

--------------------------------------------------------------------------
\* stop: the process is interrupted and waited for, its files removed.
StopFollow == proc' = "none" /\ fpos' = 0 /\ faithful' = TRUE /\ follow' = NoFollow /\ UNCHANGED pinned
Ends(status) == fpc' = "idle" /\ boundary' = 0 /\ result' = status /\ UNCHANGED <<tx, l9, snaps, cycles>>

\* A cycle with the load paused at its boundary.
RunFollowCheck ==
    /\ fpc = "idle" /\ cycles < MaxCycles /\ cycles' = cycles + 1 /\ boundary' = tx
    /\ fpc' = IF follow.on THEN "running" ELSE "pinned"
    /\ UNCHANGED <<tx, l9, snaps, proc, pinned, fpos, faithful, follow, innocent, credit, result>>
\* The process died since the last cycle.
FindExited ==
    /\ fpc = "running" /\ proc = "exited" /\ StopFollow /\ Ends("failed") /\ UNCHANGED <<innocent, credit>>
FindAlive ==
    /\ fpc = "running" /\ proc = "up" /\ fpc' = "catch up"
    /\ UNCHANGED <<tx, l9, snaps, proc, pinned, fpos, faithful, follow, boundary, cycles, innocent, credit, result>>

\* followPinned: a rejected or matching probe goes on, and is stopped either way.
PinnedStart ==
    /\ fpc = "pinned" /\ pinned = "none" /\ pinned' = "up"
    /\ UNCHANGED <<tx, l9, snaps, proc, fpos, faithful, innocent, cycle>>
PinnedEnds(outcome) ==
    /\ fpc = "pinned" /\ pinned = "up" /\ pinned' = "none"
    /\ CASE outcome \in {"unsupported", "matched"} ->
                /\ fpc' = "baseline"
                /\ UNCHANGED <<tx, l9, snaps, proc, fpos, faithful, follow, boundary, cycles, innocent, credit, result>>
         [] outcome = "locked" ->
                Ends("aborted") /\ UNCHANGED <<proc, fpos, faithful, follow, innocent, credit>>
         [] outcome = "diverged or stalled" ->
                Ends("failed") /\ innocent' = FALSE /\ UNCHANGED <<proc, fpos, faithful, follow, credit>>

\* follow_start: the baseline listing, and only then the process.
Baseline(usable) ==
    /\ fpc = "baseline"
    /\ IF usable THEN /\ follow' = [on |-> FALSE, l9 |-> l9, at |-> snaps] /\ fpc' = "start"
                      /\ UNCHANGED <<tx, l9, snaps, proc, pinned, fpos, faithful, boundary, cycles, innocent, credit, result>>
       ELSE StopFollow /\ Ends("pending") /\ UNCHANGED <<innocent, credit>>
StartFollow ==
    /\ fpc = "start" /\ proc' = "up" /\ fpos' = l9[1] /\ faithful' = TRUE
    /\ follow' = [follow EXCEPT !.on = TRUE] /\ credit' = 0 /\ fpc' = "initial"
    /\ UNCHANGED <<tx, l9, snaps, pinned, boundary, cycles, innocent, result>>

\* Old artifacts cannot be removed, or a process cannot be started: counted as a failure.
StartError ==
    /\ fpc \in {"pinned", "baseline", "start"} /\ pinned = "none" /\ innocent' = FALSE
    /\ StopFollow /\ Ends("failed") /\ UNCHANGED credit

\* waitForFollowTXID: the position, then the exit, then the budget.
CaughtUp ==
    /\ fpc \in {"initial", "catch up"} /\ fpos >= boundary
    /\ fpc' = IF fpc = "initial" THEN "compare first" ELSE "compare"
    /\ UNCHANGED <<tx, l9, snaps, proc, pinned, fpos, faithful, follow, boundary, cycles, innocent, credit, result>>
CatchUpFails ==
    /\ fpc \in {"initial", "catch up"} /\ fpos < boundary /\ innocent' = FALSE
    /\ StopFollow /\ Ends("failed") /\ UNCHANGED credit

\* Mutant: a copy that stayed locked counts as diverged.
ComparedLockedFails(locked) == IF locked \/ ~faithful THEN "diverged" ELSE "same"
\* compareRestoredLogical.
Compared(locked) == IF locked THEN "locked" ELSE IF faithful THEN "same" ELSE "diverged"
CompareFirst(locked) ==
    /\ fpc = "compare first" /\ UNCHANGED <<innocent, credit>>
    /\ CASE Compared(locked) = "same" -> Ends("pending") /\ UNCHANGED <<proc, pinned, fpos, faithful, follow>>
         [] Compared(locked) = "locked" -> StopFollow /\ Ends("aborted")
         [] Compared(locked) = "diverged" -> StopFollow /\ Ends("failed")
\* A locked copy keeps the session for the next cycle.
Compare(locked) ==
    /\ fpc = "compare" /\ UNCHANGED <<innocent, credit>>
    /\ CASE Compared(locked) = "same" -> fpc' = "l9" /\ UNCHANGED <<tx, l9, snaps, proc, pinned, fpos, faithful, follow, boundary, cycles, result>>
         [] Compared(locked) = "locked" -> Ends("aborted") /\ UNCHANGED <<proc, pinned, fpos, faithful, follow>>
         [] Compared(locked) = "diverged" -> StopFollow /\ Ends("failed")

\* Mutant: any L9 listing that differs from the last one counts.
L9Changed(before, now) == before # now
L9Advanced(before, now) == now[1] > before[1] \/ (now[1] = before[1] /\ now[2] > before[2])
Credited(now) == [follow EXCEPT !.l9 = now]
JudgeL9(usable) ==
    /\ fpc = "l9" /\ UNCHANGED <<proc, pinned, fpos, faithful, innocent>>
    /\ IF usable /\ L9Advanced(follow.l9, l9) /\ boundary >= l9[1]
       THEN Ends("passed") /\ follow' = Credited(l9) /\ credit' = credit + 1
       ELSE Ends("pending") /\ UNCHANGED <<follow, credit>>

\* The worker ends: Run's deferred stopFollow.
WorkerEnds ==
    /\ fpc = "idle" /\ follow.on /\ cycles = MaxCycles /\ StopFollow /\ cycles' = cycles /\ result' = "none"
    /\ UNCHANGED <<tx, l9, snaps, fpc, boundary, innocent, credit>>

FNext ==
    \/ Write \/ Snapshot \/ Retain \/ Follows \/ Diverges \/ Exits
    \/ RunFollowCheck \/ FindExited \/ FindAlive \/ PinnedStart
    \/ (\E o \in {"unsupported", "matched", "locked", "diverged or stalled"} : PinnedEnds(o))
    \/ (\E usable \in BOOLEAN : Baseline(usable) \/ JudgeL9(usable))
    \/ StartFollow \/ StartError \/ CaughtUp \/ CatchUpFails \/ (\E locked \in BOOLEAN : CompareFirst(locked) \/ Compare(locked))
    \/ WorkerEnds

--------------------------------------------------------------------------
\* runFollowCheck: a follow process that kept running, kept up and applied rightly is never failed: an
\* unusable listing is pending, a locked copy inconclusive.
FollowBlame == result = "failed" => ~innocent

\* l9Advanced: every pass is earned by an L9 snapshot of its own, taken since the listing the session
\* counts from: however retention shrinks the level, no snapshot is credited twice.
PassPerSnapshot == follow.on => credit <= snaps - follow.at
=============================================================================
