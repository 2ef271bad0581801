----------------------------- MODULE PinnedReader -----------------------------
(* The pinned reader (pinned_reader.go): a loop that holds read transactions     *)
(* open so that the WAL cannot be truncated, and lets go while a verification    *)
(* pauses it.                                                                    *)
EXTENDS Naturals

CONSTANTS MaxCalls

VARIABLES paused, signal, chan, ppc, waiting, seen, calls, stopped
        \* the flag and its one-place signal; the resume channel's generation (0: nil); the loop;
        \* the generation it waits on and the flag it read; Pause and Resume calls; Stop was called
pvars == <<paused, signal, chan, ppc, waiting, seen, calls, stopped>>

PInit ==
    /\ paused = FALSE /\ signal = FALSE /\ chan = 0 /\ ppc = "wait" /\ waiting = 0 /\ seen = FALSE
    /\ calls = 0 /\ stopped = FALSE

Pause ==
    /\ calls < MaxCalls /\ calls' = calls + 1
    /\ IF paused THEN UNCHANGED <<paused, signal, chan>> ELSE paused' = TRUE /\ signal' = TRUE /\ chan' = calls + 1
    /\ UNCHANGED <<ppc, waiting, seen, stopped>>
Resume ==
    /\ calls < MaxCalls /\ calls' = calls + 1
    /\ IF paused THEN paused' = FALSE /\ chan' = 0 ELSE UNCHANGED <<paused, chan>>
    /\ UNCHANGED <<signal, ppc, waiting, seen, stopped>>
Stop == ~stopped /\ stopped' = TRUE /\ UNCHANGED <<paused, signal, chan, ppc, waiting, seen, calls>>

\* waitIfPaused.
TakeChannel ==
    /\ ppc = "wait" /\ waiting' = chan /\ ppc' = IF chan = 0 THEN "drain" ELSE "blocked"
    /\ UNCHANGED <<paused, signal, chan, seen, calls, stopped>>
Unblocked ==
    /\ ppc = "blocked" /\ (waiting # chan \/ stopped) /\ ppc' = IF waiting # chan THEN "wait" ELSE "done"
    /\ UNCHANGED <<paused, signal, chan, waiting, seen, calls, stopped>>
\* holdOnce. Mutant: the flag is read before old signals are thrown away.
DrainLate ==
    /\ ppc \in {"drain", "check"} /\ UNCHANGED <<paused, chan, waiting, calls, stopped>>
    /\ IF ppc = "drain" THEN seen' = paused /\ ppc' = "check" /\ UNCHANGED signal
       ELSE signal' = FALSE /\ ppc' = (IF seen THEN "rest" ELSE "hold") /\ UNCHANGED seen
Drain ==
    /\ ppc \in {"drain", "check"} /\ UNCHANGED <<paused, chan, waiting, calls, stopped>>
    /\ IF ppc = "drain" THEN signal' = FALSE /\ ppc' = "check" /\ UNCHANGED seen
       ELSE seen' = paused /\ ppc' = (IF paused THEN "rest" ELSE "hold") /\ UNCHANGED signal
\* The transaction is held until its window ends, a signal arrives or the reader stops.
LetGo ==
    /\ ppc = "hold" /\ UNCHANGED <<paused, chan, waiting, seen, calls, stopped>>
    /\ \/ signal /\ signal' = FALSE /\ ppc' = "rest"
       \/ stopped /\ ppc' = "done" /\ UNCHANGED signal
HoldElapses == ppc = "hold" /\ ppc' = "rest" /\ UNCHANGED <<paused, signal, chan, waiting, seen, calls, stopped>>
RestElapses ==
    /\ ppc = "rest" /\ ppc' = (IF stopped THEN "done" ELSE "wait")
    /\ UNCHANGED <<paused, signal, chan, waiting, seen, calls, stopped>>

Loop == TakeChannel \/ Unblocked \/ Drain \/ LetGo \/ RestElapses
PNext == Pause \/ Resume \/ Stop \/ Loop \/ HoldElapses

--------------------------------------------------------------------------
\* holdOnce: a paused reader lets its transaction go without waiting for its window to end;
\* the verifier's truncating checkpoint is not held up by a signal that got lost.
Holding == paused /\ ppc = "hold"
=============================================================================
