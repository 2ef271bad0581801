---------------------------- MODULE ProfileBlobs ----------------------------
(* The content-addressed store of profile snapshots (model/profile_blobs.go). *)
(* Rows of four columns refer to blobs by id: workers.last_runtime_json,      *)
(* evidence_verifications.evidence_runtime, evidence_events.details and       *)
(* events.details.  Reports and the compaction store a blob and then write    *)
(* the row that refers to it, both under the shared side of the lock          *)
(* blobs.sweep; the sweep deletes the blobs that no column refers to, one     *)
(* batch at a time under the exclusive side, and collects the references      *)
(* without the lock.  A row is abstracted to one blob; "said" is what the     *)
(* report contained, which no column stores.                                  *)
EXTENDS Naturals, FiniteSets, Sequences, FiniteSetsExt, TLC

CONSTANTS Contents,     \* the distinct items of profile_incidents and profile_records
          Legacy,       \* rows evidence_verifications holds with inline arrays from before the blobs
          Writers,      \* the reports: "snapshot" and "event"
          MaxId, MaxRows, MaxSweeps, MaxCrashes

VARIABLES blobs,        \* evidence_profile_blobs: id -> body
          cache,        \* profileBlobCache: ids (digest -> id), bodies (id -> body), pinning, pinned
          cols,         \* the four reference columns
          writer,       \* UpdateWorkerRuntimeSnapshot and RecordEvent between the blob and the row
          compact,      \* compactSnapshotTarget: its cursor and the row it works on
          sweep,        \* PruneProfileBlobs
          crashes
bvars == <<blobs, cache, cols, writer, compact, sweep, crashes>>

None == [form |-> "none"]                        \* no profile arrays, or no such row
Inline(c) == [form |-> "inline", said |-> c]
Ref(i, c) == [form |-> "ref", id |-> i, said |-> c]
Stripped(c) == [form |-> "stripped", said |-> c]

Idle == [form |-> "idle"]
NoCache == [ids |-> <<>>, bodies |-> <<>>, pinning |-> FALSE, pinned |-> {}]
NoSweep == [pc |-> "idle", max |-> 0, seen |-> {}, cand |-> {}, cleared |-> FALSE, at |-> 0]
NoCompact(cursor) == [pc |-> "idle", cursor |-> cursor, raw |-> None, new |-> None]

BInit ==
    /\ blobs = <<>>
    /\ cache = NoCache
    /\ cols = [workers |-> None, verifs |-> Legacy, journal |-> <<>>, events |-> None]
    /\ writer = [k \in Writers |-> Idle]
    /\ compact = NoCompact(0)
    /\ sweep = NoSweep @@ [left |-> MaxSweeps]
    /\ crashes = 0

--------------------------------------------------------------------------
\* hold: the shared side of blobs.sweep is held from the blob to the row.
Held == (\E k \in Writers : writer[k] # Idle) \/ compact.pc = "held"

\* profileBlobCache.store: past its limit the cache starts over.
CacheStore(ca, full, i, c, digest) ==
    LET old == IF full THEN [ca EXCEPT !.ids = <<>>, !.bodies = <<>>] ELSE ca
    IN  [old EXCEPT !.ids = IF digest THEN (c :> i) @@ @ ELSE @,
                    !.bodies = IF i \in DOMAIN @ THEN @ ELSE (i :> c) @@ @]

Pin(ca, i) == IF ca.pinning THEN [ca EXCEPT !.pinned = @ \union {i}] ELSE ca

\* storeProfileBlob: the id in the cache, of the row with this digest, or the next rowid.
StoreBlob(c, full) ==
    IF c \in DOMAIN cache.ids
    THEN [id |-> cache.ids[c], blobs |-> blobs, cache |-> Pin(cache, cache.ids[c])]
    ELSE LET same == {j \in DOMAIN blobs : blobs[j] = c}
             next == IF DOMAIN blobs = {} THEN 1 ELSE Max(DOMAIN blobs) + 1
             i == IF same = {} THEN next ELSE Min(same)
         IN  [id |-> i, blobs |-> (i :> c) @@ blobs, cache |-> Pin(CacheStore(cache, full, i, c, TRUE), i)]

\* compactProfileSnapshot on a row as it is stored: references already there are
\* taken for fields of the report and removed; inline arrays become references.
CompactRow(raw, full) ==
    CASE raw.form = "inline" -> LET s == StoreBlob(raw.said, full)
                                IN  [row |-> Ref(s.id, raw.said), blobs |-> s.blobs, cache |-> s.cache]
      [] raw.form = "ref" -> [row |-> Stripped(raw.said), blobs |-> blobs, cache |-> cache]
      [] OTHER -> [row |-> raw, blobs |-> blobs, cache |-> cache]

\* UpdateWorkerRuntimeSnapshot, RecordEvent: hold, compact the report, which contains c.
ReportBlob(k, c) ==
    /\ writer[k] = Idle
    /\ k = "event" => Len(cols.journal) < MaxRows
    /\ \E full \in BOOLEAN :
         LET s == CompactRow(Inline(c), full)
         IN  /\ s.row.id <= MaxId
             /\ blobs' = s.blobs /\ cache' = s.cache
             /\ writer' = [writer EXCEPT ![k] = s.row]
    /\ UNCHANGED <<cols, compact, sweep, crashes>>

\* ... write the row, with the trigger journal_event, and release.
ReportRow(k) ==
    /\ writer[k] # Idle
    /\ cols' = IF k = "snapshot" THEN [cols EXCEPT !.workers = writer[k]]
               ELSE [cols EXCEPT !.events = writer[k], !.journal = Append(@, writer[k])]
    /\ writer' = [writer EXCEPT ![k] = Idle]
    /\ UNCHANGED <<blobs, cache, compact, sweep, crashes>>

\* RecordVerification: the trigger journal_verification copies the worker's snapshot.
RecordVerification ==
    /\ Len(cols.verifs) < MaxRows
    /\ cols' = [cols EXCEPT !.verifs = Append(@, cols.workers)]
    /\ UNCHANGED <<blobs, cache, writer, compact, sweep, crashes>>

\* PruneEventsBefore, PruneArchivedEvidenceBefore: rows leave the columns.
PruneRows ==
    /\ \/ cols.events # None /\ cols' = [cols EXCEPT !.events = None]
       \/ \E i \in DOMAIN cols.verifs : cols.verifs[i] # None /\ cols' = [cols EXCEPT !.verifs[i] = None]
       \/ \E i \in DOMAIN cols.journal : cols.journal[i] # None /\ cols' = [cols EXCEPT !.journal[i] = None]
    /\ UNCHANGED <<blobs, cache, writer, compact, sweep, crashes>>

\* ListEvidenceVerifications and the other readers hold the lock while they expand a
\* row; loadProfileBlobs keeps the bodies it read.
ReadRow(row, full) ==
    /\ row.form = "ref" /\ row.id \notin DOMAIN cache.bodies /\ row.id \in DOMAIN blobs
    /\ cache' = CacheStore(cache, full, row.id, blobs[row.id], FALSE)
    /\ UNCHANGED <<blobs, cols, writer, compact, sweep, crashes>>

--------------------------------------------------------------------------
\* compactSnapshotTarget: read the next row past the cursor, without the lock.
CompactRead ==
    /\ compact.pc = "idle" /\ sweep.pc = "idle"
    /\ compact.cursor < Len(cols.verifs)
    /\ compact' = [compact EXCEPT !.pc = "read", !.raw = cols.verifs[compact.cursor + 1]]
    /\ UNCHANGED <<blobs, cache, cols, writer, sweep, crashes>>

\* ... hold, compact it,
CompactStore ==
    /\ compact.pc = "read"
    /\ \E full \in BOOLEAN :
         LET s == CompactRow(compact.raw, full)
         IN  /\ s.row.form = "ref" => s.row.id <= MaxId
             /\ blobs' = s.blobs /\ cache' = s.cache
             /\ compact' = [compact EXCEPT !.pc = "held", !.new = s.row]
    /\ UNCHANGED <<cols, writer, sweep, crashes>>

\* ... and applySnapshotUpdates: the row, if it is still there, and the cursor.
CompactApply ==
    /\ compact.pc = "held"
    /\ LET i == compact.cursor + 1
       IN  cols' = [cols EXCEPT !.verifs[i] = IF @ = None \/ compact.new = compact.raw THEN @ ELSE compact.new]
    /\ compact' = NoCompact(compact.cursor + 1)
    /\ UNCHANGED <<blobs, cache, writer, sweep, crashes>>

--------------------------------------------------------------------------
\* The ids referencedProfileBlobs finds in a column.
ColumnRows(col) ==
    CASE col = "workers" -> {cols.workers}
      [] col = "verifs" -> Range(cols.verifs)
      [] col = "journal" -> Range(cols.journal)
      [] col = "events" -> {cols.events}
IdsIn(rows) == {r.id : r \in {q \in rows : q.form = "ref"}}

\* Mutant: the journal's column is read before the workers'.
ScanOrderJournalFirst == <<"verifs", "workers", "journal", "events">>

\* profileBlobReferenceColumns: one query per column, in this order.
ScanOrder == <<"workers", "verifs", "journal", "events">>

\* PruneProfileBlobs (pruneDBOnce runs it after the compaction): start pinning, then
\* read the highest id.
SweepStart ==
    /\ sweep.pc = "idle" /\ sweep.left > 0 /\ compact.pc = "idle" /\ ~Held
    /\ cache' = [cache EXCEPT !.pinning = TRUE, !.pinned = {}]
    /\ sweep' = [sweep EXCEPT !.pc = "max", !.left = @ - 1]
    /\ UNCHANGED <<blobs, cols, writer, compact, crashes>>

SweepMax ==
    /\ sweep.pc = "max"
    /\ sweep' = [sweep EXCEPT !.pc = "scan", !.max = IF blobs = <<>> THEN 0 ELSE Max(DOMAIN blobs), !.at = 1]
    /\ UNCHANGED <<blobs, cache, cols, writer, compact, crashes>>

\* referencedProfileBlobs: the next column.
SweepScan ==
    /\ sweep.pc = "scan"
    /\ sweep' = [sweep EXCEPT !.seen = @ \union IdsIn(ColumnRows(ScanOrder[sweep.at])), !.at = @ + 1,
                              !.pc = IF sweep.at = Len(ScanOrder) THEN "list" ELSE "scan"]
    /\ UNCHANGED <<blobs, cache, cols, writer, compact, crashes>>

\* unreferencedProfileBlobs.
SweepList ==
    /\ sweep.pc = "list"
    /\ sweep' = [sweep EXCEPT !.pc = "delete", !.cand = {i \in DOMAIN blobs : i <= sweep.max} \ sweep.seen]
    /\ UNCHANGED <<blobs, cache, cols, writer, compact, crashes>>

\* Mutant: the deleted blobs stay in the cache.
SweepDeleteKeepCache ==
    /\ sweep.pc = "delete" /\ sweep.cand # {} /\ ~Held
    /\ LET i == Min(sweep.cand)
       IN  /\ blobs' = IF i \in cache.pinned THEN blobs ELSE [j \in DOMAIN blobs \ {i} |-> blobs[j]]
           /\ sweep' = [sweep EXCEPT !.cand = @ \ {i}, !.cleared = TRUE]
    /\ UNCHANGED <<cache, cols, writer, compact, crashes>>

\* deleteProfileBlobBatch: exclusive; the first batch empties the cache.  Batches of one.
SweepDelete ==
    /\ sweep.pc = "delete" /\ sweep.cand # {} /\ ~Held
    /\ LET i == Min(sweep.cand)
           pinned == i \in cache.pinned
       IN  /\ blobs' = IF pinned THEN blobs ELSE [j \in DOMAIN blobs \ {i} |-> blobs[j]]
           /\ sweep' = [sweep EXCEPT !.cand = @ \ {i}, !.cleared = TRUE]
    /\ cache' = IF sweep.cleared THEN cache ELSE [cache EXCEPT !.ids = <<>>, !.bodies = <<>>]
    /\ UNCHANGED <<cols, writer, compact, crashes>>

\* finishSweep, after the last batch or when the context is cancelled.
SweepFinish ==
    /\ sweep.pc # "idle" /\ ~Held
    /\ sweep' = NoSweep @@ [left |-> sweep.left]
    /\ cache' = [cache EXCEPT !.pinning = FALSE, !.pinned = {}]
    /\ UNCHANGED <<blobs, cols, writer, compact, crashes>>

\* The process restarts: the cache, the lock and the unfinished calls are gone.
Crash ==
    /\ crashes < MaxCrashes /\ crashes' = crashes + 1
    /\ cache' = NoCache
    /\ writer' = [k \in Writers |-> Idle]
    /\ compact' = NoCompact(compact.cursor)
    /\ sweep' = NoSweep @@ [left |-> sweep.left]
    /\ UNCHANGED <<blobs, cols>>

BNext ==
    \/ \E k \in Writers, c \in Contents : ReportBlob(k, c)
    \/ \E k \in Writers : ReportRow(k)
    \/ RecordVerification \/ PruneRows
    \/ \E col \in {"workers", "verifs", "journal", "events"}, full \in BOOLEAN :
         \E row \in ColumnRows(col) : ReadRow(row, full)
    \/ CompactRead \/ CompactStore \/ CompactApply
    \/ SweepStart \/ SweepMax \/ SweepScan \/ SweepList \/ SweepDelete \/ SweepFinish
    \/ Crash

--------------------------------------------------------------------------
AllRows == UNION {ColumnRows(c) : c \in {"workers", "verifs", "journal", "events"}}

\* loadProfileBlobs never fails with "profile blob is missing": what a row refers to is
\* there and is what the report contained, whatever the sweep deleted beside it.
NoDangling ==
    \A r \in AllRows : r.form = "ref" => r.id \in DOMAIN blobs /\ blobs[r.id] = r.said

\* deleteProfileBlobBatch: the caches never answer for a blob that is gone or for another one with its id.
CacheCoherent ==
    /\ \A c \in DOMAIN cache.ids : cache.ids[c] \in DOMAIN blobs /\ blobs[cache.ids[c]] = c
    /\ \A r \in AllRows : r.form = "ref" /\ r.id \in DOMAIN cache.bodies => cache.bodies[r.id] = r.said
=============================================================================
