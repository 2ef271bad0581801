----------------------------- MODULE EventWindow -----------------------------
(* The platform log monitor (platform.go) and the rows it coalesces into      *)
(* (model/events.go, RecordWindowedEventAt).  Every minute the recent log     *)
(* lines are fetched again; a line is one occurrence, and equal messages      *)
(* within the window share a row.  Lines of one worker and one message.       *)
EXTENDS Integers, Sequences, FiniteSets, SequencesExt

CONSTANTS Window, MaxTime, MaxFetches, MaxFailures

VARIABLES clock, lines,    \* times of the log lines
          batch,           \* the lines of a fetch still to be recorded, oldest first
          rows,            \* rows of events: [at, keys, n]; keys in the order they came
          synced,          \* lines some fetch has recorded
          fetches, failures
wvars == <<clock, lines, batch, rows, synced, fetches, failures>>

WInit ==
    /\ clock = 0 /\ lines = {} /\ batch = <<>> /\ rows = {} /\ synced = {} /\ fetches = 0 /\ failures = 0

Tick == clock < MaxTime /\ clock' = clock + 1 /\ UNCHANGED <<lines, batch, rows, synced, fetches, failures>>
LogLine == lines' = lines \cup {clock} /\ UNCHANGED <<clock, batch, rows, synced, fetches, failures>>

\* fetchAppPlatformLogs: the log's buffer, of which the oldest lines may be gone and new
\* ones may not have arrived yet; syncAppPlatformLogs sorts them.
Fetch(seen) ==
    /\ batch = <<>> /\ seen # {} /\ fetches < MaxFetches
    /\ batch' = SetToSortSeq(seen, <) /\ fetches' = fetches + 1
    /\ UNCHANGED <<clock, lines, rows, synced, failures>>

--------------------------------------------------------------------------
\* Mutant: an occurrence is not looked up before it is counted.
SeenNever(row, key) == FALSE
Seen(row, key) == key \in row.keys

\* Mutant: only rows that are not newer than the line are looked at.
NearPast(t) == {r \in rows : r.at \in t - Window .. t}
Near(t) == {r \in rows : r.at \in t - Window .. t + Window}
\* RecordWindowedEventAt; the newest row in the window is the one to join.
RecordWindowedEventAt(t) ==
    IF Near(t) = {}
    THEN rows' = rows \cup {[at |-> t, keys |-> {t}, n |-> 1]}
    ELSE LET row == CHOOSE r \in Near(t) : \A q \in Near(t) : q.at <= r.at
         IN  rows' = IF Seen(row, t) THEN rows
                     ELSE (rows \ {row}) \cup {[at |-> IF t < row.at THEN row.at ELSE t, keys |-> row.keys \cup {t}, n |-> row.n + 1]}

\* Mutant: a failing line ends the round for good.
RecordLineForgets ==
    /\ batch # <<>> /\ RecordWindowedEventAt(Head(batch))
    /\ synced' = synced \cup {batch[i] : i \in DOMAIN batch} /\ batch' = <<>>
    /\ UNCHANGED <<clock, lines, fetches, failures>>
RecordLine ==
    /\ batch # <<>> /\ RecordWindowedEventAt(Head(batch))
    /\ synced' = synced \cup {Head(batch)} /\ batch' = Tail(batch)
    /\ UNCHANGED <<clock, lines, fetches, failures>>

\* A line that cannot be recorded ends the round; a restart does too.
Abort ==
    /\ batch # <<>> /\ failures < MaxFailures /\ failures' = failures + 1
    /\ batch' = <<>> /\ UNCHANGED <<clock, lines, rows, synced, fetches>>

WNext == Tick \/ LogLine \/ RecordLine \/ Abort \/ \E seen \in SUBSET lines : Fetch(seen)

--------------------------------------------------------------------------
\* syncAppPlatformLogs: a line that was recorded is an occurrence of some row, however the
\* rows were merged and rounds cut short since.
Recorded == \A t \in synced : \E r \in rows : t \in r.keys

\* RecordWindowedEventAt: a row counts each of its lines once, however often it is fetched.
EachLineOnce == \A r \in rows : r.n = Cardinality(r.keys)

\* RecordWindowedEventAt: a line fetched again is not counted again, unless later occurrences have since moved
\* the row it is counted in out of its window.
ReplayIsFree ==
    \A r, q \in rows : r # q => \A t \in r.keys \cap q.keys : r.at - t > Window \/ q.at - t > Window
=============================================================================
