-------------------------------- MODULE ManyDB --------------------------------
(* The many-database workload (manydb.go) and its verification in batches     *)
(* (verifier_manydb.go): which databases were written since they were last    *)
(* verified, kept in memory and, for a restart, in a file on the volume.      *)
EXTENDS Naturals, FiniteSets, Sequences, SequencesExt, TLAPS

CONSTANTS NumDatabases, Writers, Limit,
          MaxWrites, MaxFaults, MaxCrashes

DBs == 1 .. NumDatabases        \* in path order
None == {0}                     \* the state file is missing

VARIABLES changed,      \* [DBs -> [in, written, durable]]
          same,         \* databases whose generation is the one the verifier listed
          dirty,        \* stateDirty
          file, maybe,  \* the written set a reader of the file sees, and what a machine crash may leave
          writer,       \* [Writers -> [pc, db]]
          paused,
          vpc, targets, \* the verifier's step and the databases left in its batch
          lastAttempt,
          unverified,   \* databases with a row committed since they were last restored and compared
          writes, faults, crashes
dvars == <<changed, same, dirty, file, maybe, writer, paused, vpc, targets, lastAttempt, unverified, writes, faults, crashes>>
tracker == <<changed, same, dirty, file, maybe>>
bounds == <<writes, faults, crashes>>

Seeded == [in |-> TRUE, written |-> FALSE, durable |-> FALSE]
Gone == [in |-> FALSE, written |-> FALSE, durable |-> FALSE]
Idle == [pc |-> "idle", db |-> 0]

\* A fresh volume: populateManyDBs recorded the empty written set.
DInit ==
    /\ changed = [d \in DBs |-> Seeded] /\ same = {} /\ dirty = FALSE /\ file = {} /\ maybe = {{}}
    /\ writer = [w \in Writers |-> Idle] /\ paused = FALSE /\ vpc = "idle" /\ targets = <<>> /\ lastAttempt = 0
    /\ unverified = {} /\ writes = 0 /\ faults = 0 /\ crashes = 0

--------------------------------------------------------------------------
(* saveWrittenStateLocked, applied to the tracker ch.                        *)

WrittenIn(ch) == {d \in DBs : ch[d].in /\ ch[d].written}

Saved(ch) ==
    /\ file' = WrittenIn(ch) /\ maybe' = {WrittenIn(ch)} /\ dirty' = FALSE /\ UNCHANGED faults
    /\ changed' = [d \in DBs |-> IF d \in WrittenIn(ch) THEN [ch[d] EXCEPT !.durable = TRUE] ELSE ch[d]]

\* The save fails before or after the rename; the stale file is removed, or that fails too,
\* or the removal is not known to be on disk.
SaveFailed(ch, renamed, removed) ==
    /\ faults < MaxFaults /\ faults' = faults + 1 /\ dirty' = TRUE /\ changed' = ch
    /\ LET left == maybe \cup (IF renamed THEN {WrittenIn(ch)} ELSE {})
       IN  CASE removed = "durably"  -> file' = None /\ maybe' = {None}
             [] removed = "unsynced" -> file' = None /\ maybe' = left \cup {None}
             [] OTHER -> file' = (IF renamed THEN WrittenIn(ch) ELSE file) /\ maybe' = left

\* ok: the written set is on disk, or there is no file, so that a write may proceed.
Save(ch, ok) ==
    \/ ok /\ Saved(ch)
    \/ \E renamed \in BOOLEAN, removed \in {"durably", "unsynced", "not"} : ok = (removed = "durably") /\ SaveFailed(ch, renamed, removed)

--------------------------------------------------------------------------
(* writeWorker, performWrite.                                                *)

Goto(w, pc, d) == writer' = [writer EXCEPT ![w] = [pc |-> pc, db |-> d]]

\* beginWrite: not while paused.
BeginWrite(w, d) ==
    /\ writer[w].pc = "idle" /\ ~paused /\ writes < MaxWrites /\ writes' = writes + 1 /\ Goto(w, "mark", d)
    /\ UNCHANGED <<tracker, paused, vpc, targets, lastAttempt, unverified, faults, crashes>>

\* markDurableWrite: the fast path.
Fast(d) == ~dirty /\ changed[d].in /\ changed[d].written /\ changed[d].durable

\* mark(written): the generation moves on, the database enters the written set.
Marked(d) == [changed EXCEPT ![d] = [in |-> TRUE, written |-> TRUE, durable |-> @.written /\ @.durable]]
Bump(d) == same' = same \ {d}

PerformMark(w) ==
    LET d == writer[w].db IN
    /\ writer[w].pc = "mark"
    /\ Bump(d)
    /\ \/ Fast(d) /\ Goto(w, "row", d) /\ UNCHANGED <<changed, dirty, file, maybe, faults>>
       \/ ~Fast(d) /\ Save(Marked(d), TRUE) /\ Goto(w, "row", d)
       \/ ~Fast(d) /\ Save(Marked(d), FALSE) /\ Goto(w, "end", d)       \* the write is refused
    /\ UNCHANGED <<paused, vpc, targets, lastAttempt, unverified, writes, crashes>>

WriteRow(w) ==
    /\ writer[w].pc = "row" /\ Goto(w, "end", writer[w].db)
    /\ unverified' \in {unverified, unverified \cup {writer[w].db}}     \* the row's own write may fail
    /\ UNCHANGED <<tracker, paused, vpc, targets, lastAttempt, bounds>>
EndWrite(w) ==
    /\ writer[w].pc = "end" /\ writer' = [writer EXCEPT ![w] = Idle]
    /\ UNCHANGED <<tracker, paused, vpc, targets, lastAttempt, unverified, bounds>>

--------------------------------------------------------------------------
(* runManyDBCycle.                                                           *)

\* pauseLoad, which waits for the active writes or gives up and resumes.
Pause ==
    /\ vpc = "idle" /\ paused' = TRUE /\ vpc' = "pausing"
    /\ UNCHANGED <<tracker, writer, targets, lastAttempt, unverified, bounds>>

\* Mutant: an active write is not waited for.
QuietAlways == TRUE
Quiet == \A w \in Writers : writer[w].pc = "idle"
PauseEnds ==
    /\ vpc = "pausing"
    /\ \/ Quiet /\ vpc' = "list" /\ UNCHANGED paused
       \/ ~Quiet /\ vpc' = "idle" /\ paused' = FALSE
    /\ UNCHANGED <<tracker, writer, targets, lastAttempt, unverified, bounds>>

\* Mutant: the round always starts with the first path.
BeforePath(d, e) == IF changed[d].written # changed[e].written THEN changed[d].written ELSE d < e
\* pendingManyDBChanges: the written first, each group from the last attempt round.
Before(d, e) ==
    IF changed[d].written # changed[e].written THEN changed[d].written
    ELSE IF (d > lastAttempt) # (e > lastAttempt) THEN d > lastAttempt ELSE d < e

Pending == {d \in DBs : changed[d].in}
\* The batch: the first Limit databases of the pending set, or the active ones when none is.
List ==
    /\ vpc = "list" /\ vpc' = "verify"
    /\ LET order == SetToSortSeq(IF Pending = {} THEN DBs ELSE Pending, Before)
       IN  targets' = SubSeq(order, 1, IF Len(order) < Limit THEN Len(order) ELSE Limit)
    /\ same' = Pending
    /\ UNCHANGED <<changed, dirty, file, maybe, writer, paused, lastAttempt, unverified, bounds>>

\* One database: restored and compared, or the batch ends here.
Verify ==
    /\ vpc = "verify" /\ targets # <<>> /\ lastAttempt' = Head(targets)
    /\ \/ vpc' = "ack" /\ unverified' = unverified \ {Head(targets)} /\ UNCHANGED <<targets, paused>>
       \/ vpc' = "idle" /\ targets' = <<>> /\ paused' = FALSE /\ UNCHANGED unverified
    /\ UNCHANGED <<tracker, writer, bounds>>

\* acknowledgeManyDBChange: what was verified leaves the set, then the set is saved.
Ack ==
    LET d == Head(targets)
        verified == d \in same /\ changed[d].in
    IN
    /\ vpc = "ack" /\ changed' = (IF verified THEN [changed EXCEPT ![d] = Gone] ELSE changed)
    /\ vpc' = IF (verified /\ changed[d].written) \/ dirty THEN "save" ELSE "verify"
    /\ targets' = (IF vpc' = "save" THEN targets ELSE Tail(targets))
    /\ UNCHANGED <<same, dirty, file, maybe, writer, paused, lastAttempt, unverified, bounds>>
AckSave ==
    /\ vpc = "save" /\ vpc' = "verify" /\ targets' = Tail(targets) /\ \E ok \in BOOLEAN : Save(changed, ok)
    /\ UNCHANGED <<same, writer, paused, lastAttempt, unverified, writes, crashes>>

BatchEnds ==
    /\ vpc = "verify" /\ targets = <<>> /\ vpc' = "idle" /\ paused' = FALSE
    /\ UNCHANGED <<tracker, writer, targets, lastAttempt, unverified, bounds>>

--------------------------------------------------------------------------
\* restoreWrittenState of a new tracker; without the file every database counts as written.
Restored(content) == [d \in DBs |-> [Seeded EXCEPT !.written = content = None \/ d \in content]]
\* The process ends, or the machine does, which loses what was not synced.
Crash ==
    /\ crashes < MaxCrashes /\ crashes' = crashes + 1
    /\ \E content \in {file} \cup maybe :
          file' = content /\ maybe' = (IF content = file THEN maybe ELSE {content}) /\ changed' = Restored(content)
    /\ same' = {} /\ dirty' = FALSE /\ writer' = [w \in Writers |-> Idle] /\ paused' = FALSE
    /\ vpc' = "idle" /\ targets' = <<>> /\ lastAttempt' = 0
    /\ UNCHANGED <<unverified, writes, faults>>

VerifyStep == PauseEnds \/ List \/ Verify \/ Ack \/ AckSave \/ BatchEnds
WriteStep(w) == PerformMark(w) \/ WriteRow(w) \/ EndWrite(w)
DNext ==
    \/ VerifyStep \/ Pause \/ Crash
    \/ \E w \in Writers : WriteStep(w) \/ \E d \in DBs : BeginWrite(w, d)

--------------------------------------------------------------------------
\* markDurableWrite: a committed row is never forgotten before its database was verified: the database is
\* in the written set of the tracker, and of whatever file a restart may find.
NoWriteForgotten ==
    \A d \in unverified :
        /\ changed[d].in /\ changed[d].written
        /\ \A content \in {file} \cup maybe : content = None \/ d \in content

\* pendingManyDBChanges: no database is starved by others that fail or are written again;
\* a written one is attempted in the end.
Waiting(d) == changed[d].in /\ changed[d].written
Attempted(d) == lastAttempt = d \/ ~changed[d].written

-----------------------------------------------------------------------------
(* No written database is forgotten before it was verified, for any number of   *)
(* databases and writers, failed saves and crashes.                             *)

MSpec == DInit /\ [][DNext]_dvars

Track == [in : BOOLEAN, written : BOOLEAN, durable : BOOLEAN]
Contents == {file} \cup maybe

MTypeOK ==
    /\ changed \in [DBs -> Track] /\ dirty \in BOOLEAN
    /\ writer \in [Writers -> [pc : {"idle", "mark", "row", "end"}, db : DBs \cup {0}]]
    /\ \A w \in Writers : writer[w].pc # "idle" => writer[w].db \in DBs

\* Every file a restart may find names d, or there is none.
OnDisk(d) == \A content \in Contents : content = None \/ d \in content
Safe(d) == changed[d].in /\ changed[d].written /\ OnDisk(d)

\* Committed rows, and those about to be: their databases are safe.
SafeRows ==
    /\ unverified \subseteq DBs /\ \A d \in unverified : Safe(d)
    /\ \A w \in Writers : writer[w].pc = "row" => Safe(writer[w].db)

\* markDurableWrite's fast path: what counts as durable is on disk unless a save failed since.
Durable == \A d \in DBs : changed[d].durable => changed[d].in /\ changed[d].written /\ (~dirty => OnDisk(d))

\* The verifier works while nobody writes.
Exclusive ==
    /\ vpc # "idle" => paused
    /\ vpc \in {"list", "verify", "ack", "save"} => \A w \in Writers : writer[w].pc = "idle"
    /\ vpc = "ack" => Head(targets) \notin unverified

ManyInv == MTypeOK /\ SafeRows /\ Durable /\ Exclusive

LEMMA ManyInit == ASSUME DInit PROVE ManyInv
  BY DEF DInit, ManyInv, MTypeOK, SafeRows, Durable, Exclusive, Track, Seeded, Idle, DBs

\* A save of the tracker ch keeps safe what ch counts as written; one that lets the write
\* proceed also makes it safe.
LEMMA SaveKeeps ==
    ASSUME MTypeOK, NEW ch \in [DBs -> Track], NEW ok \in BOOLEAN, Save(ch, ok),
           \A d \in DBs : ch[d].durable => ch[d].in /\ ch[d].written /\ (~dirty => OnDisk(d))
    PROVE  /\ changed' \in [DBs -> Track] /\ dirty' \in BOOLEAN /\ Durable'
           /\ \A d \in DBs : ch[d].in /\ ch[d].written /\ (ok \/ OnDisk(d)) => Safe(d)'
<1>1. CASE Saved(ch)
  <2> DEFINE r(d) == IF d \in WrittenIn(ch) THEN [ch[d] EXCEPT !.durable = TRUE] ELSE ch[d]
  <2>1. \A d \in DBs : /\ r(d) \in Track /\ r(d).in = ch[d].in /\ r(d).written = ch[d].written
                       /\ r(d).durable => ch[d].durable \/ d \in WrittenIn(ch)
    BY DEF Track, WrittenIn
  <2>2. changed' = [d \in DBs |-> r(d)] /\ dirty' = FALSE /\ file' = WrittenIn(ch) /\ maybe' = {WrittenIn(ch)}
    BY <1>1 DEF Saved
  <2>3. Contents' = {WrittenIn(ch)}
    BY <2>2 DEF Contents
  <2>4. \A d \in DBs : changed'[d] = r(d)
    BY <2>2
  <2>5. changed' \in [DBs -> Track]
    BY <2>1, <2>2
  <2>6. \A d \in DBs : d \in WrittenIn(ch) <=> ch[d].in /\ ch[d].written
    BY DEF WrittenIn
  <2>7. \A d \in WrittenIn(ch) : OnDisk(d)'
    BY <2>3 DEF OnDisk
  <2>8. Durable'
    BY <2>1, <2>4, <2>6, <2>7 DEF Durable
  <2>9. \A d \in DBs : ch[d].in /\ ch[d].written => Safe(d)'
    BY <2>1, <2>4, <2>6, <2>7 DEF Safe
  <2> QED
    BY <2>2, <2>5, <2>8, <2>9
<1>2. ASSUME NEW renamed \in BOOLEAN, NEW removed \in {"durably", "unsynced", "not"},
             ok = (removed = "durably"), SaveFailed(ch, renamed, removed)
      PROVE  /\ changed' \in [DBs -> Track] /\ dirty' \in BOOLEAN /\ Durable'
             /\ \A d \in DBs : ch[d].in /\ ch[d].written /\ (ok \/ OnDisk(d)) => Safe(d)'
  <2>1. changed' = ch /\ dirty' = TRUE
    BY <1>2 DEF SaveFailed
  <2>2. ok => Contents' = {None}
    BY <1>2 DEF SaveFailed, Contents
  <2>3. ~ok => Contents' \subseteq Contents \cup {None, WrittenIn(ch)}
    BY <1>2 DEF SaveFailed, Contents
  <2> QED
    BY <2>1, <2>2, <2>3 DEF Durable, Safe, OnDisk, WrittenIn
<1> QED
  BY <1>1, <1>2 DEF Save

LEMMA ManyStep == ASSUME ManyInv, [DNext]_dvars PROVE ManyInv'
<1> USE DEF ManyInv
\* A step that leaves the tracker and its file alone.
<1>s. ASSUME UNCHANGED <<changed, dirty, file, maybe>>
      PROVE  Durable' /\ (\A d \in DBs : Safe(d)' = Safe(d)) /\ (\A d \in DBs : OnDisk(d)' = OnDisk(d))
  BY <1>s DEF Durable, Safe, OnDisk, Contents
<1>1. ASSUME NEW w \in Writers, NEW d \in DBs, BeginWrite(w, d) PROVE ManyInv'
  <2>1. UNCHANGED <<changed, dirty, file, maybe, paused, vpc, targets, unverified>> /\ ~paused /\ writer[w].pc = "idle"
    BY <1>1 DEF BeginWrite, tracker
  <2>2. writer' = [writer EXCEPT ![w] = [pc |-> "mark", db |-> d]]
    BY <1>1 DEF BeginWrite, Goto
  <2>3. MTypeOK'
    BY <2>1, <2>2 DEF MTypeOK
  <2>4. SafeRows'
    BY <1>s, <2>1, <2>2 DEF SafeRows, MTypeOK
  <2>5. Exclusive'
    BY <2>1 DEF Exclusive
  <2> QED
    BY <1>s, <2>1, <2>3, <2>4, <2>5
<1>2. ASSUME NEW w \in Writers, PerformMark(w) PROVE ManyInv'
  <2>0. PICK d \in DBs : d = writer[w].db
    BY <1>2 DEF PerformMark, MTypeOK
  <2>1. writer[w].pc = "mark" /\ d \in DBs /\ UNCHANGED <<paused, vpc, targets, unverified>>
    BY <1>2 DEF PerformMark
  <2>2. vpc \notin {"list", "verify", "ack", "save"}
    BY <2>1 DEF Exclusive
  <2>3. Exclusive'
    BY <2>1, <2>2 DEF Exclusive
  <2>w. ASSUME NEW next \in {"row", "end"}, Goto(w, next, d)
        PROVE  /\ writer' \in [Writers -> [pc : {"idle", "mark", "row", "end"}, db : DBs \cup {0}]]
               /\ \A v \in Writers : writer'[v].pc # "idle" => writer'[v].db \in DBs
               /\ \A v \in Writers : writer'[v].pc = "row" => (v = w /\ next = "row" /\ writer'[v].db = d) \/ (writer[v].pc = "row" /\ writer'[v] = writer[v])
    <3>1. /\ writer \in [Writers -> [pc : {"idle", "mark", "row", "end"}, db : DBs \cup {0}]]
          /\ \A v \in Writers : writer[v].pc # "idle" => writer[v].db \in DBs
      BY DEF MTypeOK
    <3>2. writer' = [writer EXCEPT ![w] = [pc |-> next, db |-> d]]
      BY <2>w DEF Goto
    <3>3. \A v \in Writers : writer'[v] = IF v = w THEN [pc |-> next, db |-> d] ELSE writer[v]
      BY <3>1, <3>2
    <3>4. [pc |-> next, db |-> d] \in [pc : {"idle", "mark", "row", "end"}, db : DBs \cup {0}]
      BY <2>1, <2>w
    <3>5. writer' \in [Writers -> [pc : {"idle", "mark", "row", "end"}, db : DBs \cup {0}]]
      BY <3>1, <3>2, <3>4
    <3>6. [pc |-> next, db |-> d].pc = next /\ [pc |-> next, db |-> d].db = d
      OBVIOUS
    <3>7. ASSUME NEW v \in Writers
          PROVE  /\ writer'[v].pc # "idle" => writer'[v].db \in DBs
                 /\ writer'[v].pc = "row" => (v = w /\ next = "row" /\ writer'[v].db = d) \/ (writer[v].pc = "row" /\ writer'[v] = writer[v])
      <4>1. CASE v = w
        <5>1. writer'[v].pc = next /\ writer'[v].db = d
          BY <3>3, <3>6, <4>1
        <5>2. writer'[v].db \in DBs
          BY <5>1
        <5>3. writer'[v].pc = "row" => v = w /\ next = "row" /\ writer'[v].db = d
          BY <4>1, <5>1
        <5> QED
          BY <5>2, <5>3, Zenon
      <4>2. CASE v # w
        BY <3>1, <3>3, <4>2
      <4> QED
        BY <4>1, <4>2
    <3> QED
      BY <3>5, <3>7
  <2>4. CASE Fast(d) /\ Goto(w, "row", d) /\ UNCHANGED <<changed, dirty, file, maybe, faults>>
    <3>1. Safe(d)
      BY <2>1, <2>4 DEF Fast, Durable, Safe
    <3>2. MTypeOK'
      BY <2>4, <2>w DEF MTypeOK
    <3>3. SafeRows'
      BY <1>s, <2>1, <2>4, <2>w, <3>1 DEF SafeRows, MTypeOK
    <3> QED
      BY <1>s, <2>3, <2>4, <3>2, <3>3
  <2>5. ASSUME NEW ok \in BOOLEAN, Save(Marked(d), ok), Goto(w, IF ok THEN "row" ELSE "end", d) PROVE ManyInv'
    <3> DEFINE ch == Marked(d)
    <3>1. ch \in [DBs -> Track] /\ \A e \in DBs : ch[e] = IF e = d THEN [in |-> TRUE, written |-> TRUE, durable |-> changed[d].written /\ changed[d].durable]
                                                            ELSE changed[e]
      BY <2>1 DEF Marked, MTypeOK, Track
    <3>a. ch[d].in /\ ch[d].written /\ (ch[d].durable => changed[d].durable)
      <4>1. ch[d] = [in |-> TRUE, written |-> TRUE, durable |-> changed[d].written /\ changed[d].durable]
        BY <2>1, <3>1
      <4>2. ch[d].in = TRUE /\ ch[d].written = TRUE /\ ch[d].durable = (changed[d].written /\ changed[d].durable)
        BY <4>1
      <4> QED
        BY <4>2
    <3>b. \A e \in DBs : e # d => ch[e] = changed[e]
      BY <3>1, Zenon
    <3>2. \A e \in DBs : ch[e].durable => ch[e].in /\ ch[e].written /\ (~dirty => OnDisk(e))
      BY <3>a, <3>b, Zenon DEF Durable
    <3>3. /\ changed' \in [DBs -> Track] /\ dirty' \in BOOLEAN /\ Durable'
          /\ \A e \in DBs : ch[e].in /\ ch[e].written /\ (ok \/ OnDisk(e)) => Safe(e)'
      BY <2>5, <3>1, <3>2, SaveKeeps
    <3>4. \A e \in DBs : Safe(e) => Safe(e)'
      <4> SUFFICES ASSUME NEW e \in DBs, Safe(e) PROVE ch[e].in /\ ch[e].written /\ OnDisk(e)
        BY <3>3
      <4> QED
        BY <3>a, <3>b, Zenon DEF Safe
    <3>5. ok => Safe(d)'
      BY <2>1, <3>a, <3>3
    <3>6. MTypeOK'
      BY <2>5, <2>w, <3>3 DEF MTypeOK
    <3>7. SafeRows'
      BY <2>1, <2>5, <2>w, <3>4, <3>5 DEF SafeRows, MTypeOK
    <3> QED
      BY <2>3, <3>3, <3>6, <3>7
  <2> QED
    BY <1>2, <2>0, <2>4, <2>5 DEF PerformMark
<1>3. ASSUME NEW w \in Writers, WriteRow(w) PROVE ManyInv'
  <2>1. UNCHANGED <<changed, dirty, file, maybe, paused, vpc, targets>> /\ writer[w].pc = "row" /\ writer[w].db \in DBs
    BY <1>3 DEF WriteRow, tracker, MTypeOK
  <2>2. writer' = [writer EXCEPT ![w] = [pc |-> "end", db |-> writer[w].db]]
    BY <1>3 DEF WriteRow, Goto
  <2>3. unverified' \subseteq unverified \cup {writer[w].db}
    BY <1>3 DEF WriteRow
  <2>4. MTypeOK'
    BY <2>1, <2>2 DEF MTypeOK
  <2>5. SafeRows'
    BY <1>s, <2>1, <2>2, <2>3 DEF SafeRows, MTypeOK
  <2>6. Exclusive'
    BY <2>1 DEF Exclusive
  <2> QED
    BY <1>s, <2>1, <2>4, <2>5, <2>6
<1>4. ASSUME NEW w \in Writers, EndWrite(w) PROVE ManyInv'
  <2>1. UNCHANGED <<changed, dirty, file, maybe, paused, vpc, targets, unverified>> /\ writer' = [writer EXCEPT ![w] = Idle]
    BY <1>4 DEF EndWrite, tracker
  <2>2. MTypeOK'
    BY <2>1 DEF MTypeOK, Idle
  <2>3. SafeRows' /\ Exclusive'
    BY <1>s, <2>1 DEF SafeRows, MTypeOK, Exclusive, Idle
  <2> QED
    BY <1>s, <2>1, <2>2, <2>3
\* The verifier, the tracker as it is.
<1>5. CASE Pause \/ PauseEnds \/ List \/ Verify \/ BatchEnds
  <2>1. UNCHANGED <<changed, dirty, file, maybe, writer>> /\ unverified' \subseteq unverified
    BY <1>5 DEF Pause, PauseEnds, List, Verify, BatchEnds, tracker
  <2>2. MTypeOK' /\ SafeRows'
    BY <1>s, <2>1 DEF MTypeOK, SafeRows
  <2>3. Exclusive'
    BY <1>5, <2>1 DEF Pause, PauseEnds, List, Verify, BatchEnds, Exclusive, Quiet
  <2> QED
    BY <1>s, <2>1, <2>2, <2>3
\* What was verified leaves the set: it is not among the rows still to verify.
<1>6. CASE Ack
  <2> DEFINE d == Head(targets)
  <2>1. vpc = "ack" /\ vpc' \in {"save", "verify"} /\ UNCHANGED <<dirty, file, maybe, writer, paused, unverified>>
    BY <1>6 DEF Ack
  <2>2. changed' = changed \/ changed' = [changed EXCEPT ![d] = Gone]
    BY <1>6 DEF Ack
  <2>3. \A e \in DBs : changed'[e] = changed[e] \/ (e = d /\ changed'[e] = Gone)
    BY <2>2 DEF MTypeOK
  <2>4. changed' \in [DBs -> Track]
    <3>1. Gone \in Track
      BY DEF Gone, Track
    <3> QED
      BY <2>2, <3>1 DEF MTypeOK
  <2>5. d \notin unverified /\ \A w \in Writers : writer[w].pc = "idle"
    BY <2>1 DEF Exclusive
  <2>6. MTypeOK'
    BY <2>1, <2>4 DEF MTypeOK
  <2>7. SafeRows'
    BY <2>1, <2>3, <2>5 DEF SafeRows, Safe, OnDisk, Contents
  <2>8. Durable'
    BY <2>1, <2>3 DEF Durable, OnDisk, Contents, Gone
  <2>9. Exclusive'
    BY <2>1 DEF Exclusive
  <2> QED
    BY <2>6, <2>7, <2>8, <2>9
<1>7. CASE AckSave
  <2>1. vpc = "save" /\ vpc' = "verify" /\ UNCHANGED <<writer, paused, unverified>>
    BY <1>7 DEF AckSave
  <2>2. PICK ok \in BOOLEAN : Save(changed, ok)
    BY <1>7 DEF AckSave
  <2>3. /\ changed' \in [DBs -> Track] /\ dirty' \in BOOLEAN /\ Durable'
        /\ \A d \in DBs : changed[d].in /\ changed[d].written /\ (ok \/ OnDisk(d)) => Safe(d)'
    BY <2>2, SaveKeeps DEF MTypeOK, Durable
  <2>4. MTypeOK' /\ SafeRows' /\ Exclusive'
    BY <2>1, <2>3 DEF MTypeOK, SafeRows, Exclusive, Safe
  <2> QED
    BY <2>3, <2>4
\* After a crash the tracker is rebuilt from one of the files that may be there.
<1>8. CASE Crash
  <2>1. /\ dirty' = FALSE /\ writer' = [w \in Writers |-> Idle] /\ paused' = FALSE /\ vpc' = "idle" /\ unverified' = unverified
    BY <1>8 DEF Crash
  <2>2. PICK content \in Contents : file' = content /\ maybe' = (IF content = file THEN maybe ELSE {content}) /\ changed' = Restored(content)
    BY <1>8 DEF Crash, Contents
  <2>3. Contents' \subseteq Contents
    BY <2>2 DEF Contents
  <2>4. \A d \in DBs : changed'[d] = [in |-> TRUE, written |-> content = None \/ d \in content, durable |-> FALSE]
    BY <2>2 DEF Restored, Seeded
  <2>5. changed' \in [DBs -> Track]
    BY <2>2, <2>4 DEF Restored, Track
  <2>6. MTypeOK'
    BY <2>1, <2>5 DEF MTypeOK, Idle
  <2>a. \A d \in DBs : changed'[d].in /\ ~changed'[d].durable /\ (content = None \/ d \in content => changed'[d].written)
    <3> SUFFICES ASSUME NEW d \in DBs
                 PROVE changed'[d].in /\ ~changed'[d].durable /\ (content = None \/ d \in content => changed'[d].written)
      OBVIOUS
    <3>1. changed'[d].in = TRUE /\ changed'[d].durable = FALSE
      <4>1. changed'[d] = [in |-> TRUE, written |-> TRUE, durable |-> FALSE] \/ changed'[d] = [in |-> TRUE, written |-> FALSE, durable |-> FALSE]
        <5>1. CASE content = None \/ d \in content
          BY <2>4, <5>1, Zenon
        <5>2. CASE ~(content = None \/ d \in content)
          BY <2>4, <5>2, Zenon
        <5> QED
          BY <5>1, <5>2
      <4> QED
        BY <4>1
    <3>2. ASSUME content = None \/ d \in content PROVE changed'[d].written
      <4>1. changed'[d] = [in |-> TRUE, written |-> TRUE, durable |-> FALSE]
        BY <2>4, <3>2, Zenon
      <4> QED
        BY <4>1
    <3> QED
      BY <3>1, <3>2
  <2>b. \A d \in DBs : Safe(d) => Safe(d)'
    BY <2>2, <2>3, <2>a DEF Safe, OnDisk
  <2>c. \A w \in Writers : writer'[w].pc # "row"
    BY <2>1 DEF Idle
  <2>7. SafeRows'
    BY <2>1, <2>b, <2>c DEF SafeRows
  <2>8. Durable' /\ Exclusive'
    BY <2>1, <2>a DEF Durable, Exclusive
  <2> QED
    BY <2>6, <2>7, <2>8
<1>9. CASE UNCHANGED dvars
  BY <1>9, <1>s DEF dvars, MTypeOK, SafeRows, Exclusive
<1> QED
  BY <1>1, <1>2, <1>3, <1>4, <1>5, <1>6, <1>7, <1>8, <1>9 DEF DNext, VerifyStep, WriteStep

\* markDurableWrite and acknowledgeManyDBChange: a committed row is never forgotten before its
\* database was verified: the tracker, and whatever file a restart may find after failed saves
\* and lost syncs, name its database or make every database count as written.
THEOREM NoWriteForgottenAlways == MSpec => []NoWriteForgotten
<1>1. ManyInv => NoWriteForgotten
  BY DEF ManyInv, SafeRows, Safe, OnDisk, Contents, NoWriteForgotten
<1> QED
  BY <1>1, ManyInit, ManyStep, PTL DEF MSpec
=============================================================================
