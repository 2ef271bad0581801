-------------------------- MODULE EvidenceJournal --------------------------
(* The runtime evidence of deployments: RecordRuntimeEvidence stores a report *)
(* with its profile incidents and records moved to tables of their own        *)
(* (normalizeRuntimeEvidence), CompactRuntimeEvidence does the same to rows   *)
(* from before, batch by batch, and PruneArchivedEvidenceBefore deletes the   *)
(* evidence of old archived deployments, batch by batch.  Compaction and      *)
(* prune run one after the other (pruneDBOnce); reports arrive beside both.   *)
(* All deployments are of one source, numbered in their order.                *)
EXTENDS Integers, FiniteSets, Sequences, FiniteSetsExt, SequencesExt

CONSTANTS Incidents, Records,   \* what a report can carry
          LegacyRows,           \* rows stored whole, before there was a compaction
          Recent,               \* the newest deployments whose evidence stays (2 in the code)
          MaxDeployments, MaxRows, MaxRestarts

VARIABLES newest,      \* the deployments are 1..newest
          archived,    \* those with a run archive
          rows,        \* evidence_runtime: [dep, old, incs, recs, compact], <<>> once deleted
          incidents,   \* evidence_profile_incidents: (deployment, incident) -> runtime_id
          records,     \* evidence_profile_records: record -> uses
          cursor,      \* evidence_compaction_progress
          task,        \* the maintenance pass
          pruned,      \* deployments that lost a row
          restarts
jvars == <<newest, archived, rows, incidents, records, cursor, task, pruned, restarts>>

Live == {i \in DOMAIN rows : rows[i].dep > 0}
Deleted == [dep |-> 0, old |-> TRUE, incs |-> {}, recs |-> {}, compact |-> TRUE]
Rest == [pc |-> "idle"]

JInit ==
    /\ newest = 1 /\ archived = {}
    /\ rows = LegacyRows
    /\ incidents = <<>>
    /\ records = [r \in {} |-> 0]
    /\ cursor = 0 /\ task = Rest /\ pruned = {} /\ restarts = 0

--------------------------------------------------------------------------
\* The incidents of a row, as keys of evidence_profile_incidents.
Keys(row) == {<<row.dep, c>> : c \in row.incs}
\* Those not known from row i or an earlier one.
Unknown(i, row, known) == {k \in Keys(row) : ~(k \in DOMAIN known /\ known[k] <= i)}

\* Mutant: the first row that is stored keeps the incident.
IncidentRowsKept(i, row, known, table) ==
    [k \in DOMAIN table \union Unknown(i, row, known) |-> IF k \in DOMAIN table THEN table[k] ELSE i]

\* normalizeRuntimeEvidence: a key already stored moves to row i only if i is earlier.
IncidentRows(i, row, known, table) ==
    [k \in DOMAIN table \union Unknown(i, row, known) |->
        IF k \notin DOMAIN table THEN i
        ELSE IF k \in Unknown(i, row, known) THEN Min({table[k], i}) ELSE table[k]]

\* Mutant: a record that exists is not counted again.
CountUsesOnce(recs, table) == [r \in DOMAIN table \union recs |-> IF r \in DOMAIN table THEN table[r] ELSE 1]

\* ... and the uses of its records, by digest.
CountUses(recs, table) ==
    [r \in DOMAIN table \union recs |->
        (IF r \in DOMAIN table THEN table[r] ELSE 0) + (IF r \in recs THEN 1 ELSE 0)]

\* RecordRuntimeEvidence, in one transaction.
RecordRuntimeEvidence(d, incs, recs) ==
    /\ Len(rows) < MaxRows /\ d \in 1..newest
    /\ LET row == [dep |-> d, old |-> FALSE, incs |-> incs, recs |-> recs, compact |-> TRUE]
           i == Len(rows) + 1
       IN  /\ rows' = Append(rows, row)
           /\ incidents' = IncidentRows(i, row, <<>>, incidents)
           /\ records' = CountUses(recs, records)
    /\ UNCHANGED <<newest, archived, cursor, task, pruned, restarts>>

\* A deployment is recorded; a lifecycle policy archives one; time passes the cutoff.
NewDeployment ==
    /\ newest < MaxDeployments /\ newest' = newest + 1
    /\ UNCHANGED <<archived, rows, incidents, records, cursor, task, pruned, restarts>>
ArchiveDeployment(d) ==
    /\ d \in 1..newest \ archived /\ archived' = archived \union {d}
    /\ UNCHANGED <<newest, rows, incidents, records, cursor, task, pruned, restarts>>
Ages(i) ==
    /\ i \in Live /\ ~rows[i].old /\ rows' = [rows EXCEPT ![i].old = TRUE]
    /\ UNCHANGED <<newest, archived, incidents, records, cursor, task, pruned, restarts>>

--------------------------------------------------------------------------
\* CompactRuntimeEvidence: the rows to do, the known incidents, read once.
CompactBegin ==
    /\ task = Rest /\ cursor < Len(rows)
    /\ task' = [pc |-> "compact", max |-> Len(rows), known |-> incidents]
    /\ UNCHANGED <<newest, archived, rows, incidents, records, cursor, pruned, restarts>>

\* One batch (of one row) in one transaction: the row, its incidents, the uses of its
\* records, the progress.  A row stored compact has nothing left to move.
CompactBatch ==
    /\ task.pc = "compact" /\ cursor < task.max
    /\ LET i == cursor + 1
           row == rows[i]
       IN  IF i \in Live /\ ~row.compact
           THEN /\ rows' = [rows EXCEPT ![i].compact = TRUE]
                /\ incidents' = IncidentRows(i, row, task.known, incidents)
                /\ records' = CountUses(row.recs, records)
                /\ task' = [task EXCEPT !.known = [k \in DOMAIN @ \union Keys(row) |->
                                IF k \in Unknown(i, row, @) THEN i ELSE @[k]]]
           ELSE UNCHANGED <<rows, incidents, records, task>>
    /\ cursor' = cursor + 1
    /\ UNCHANGED <<newest, archived, pruned, restarts>>

CompactEnd ==
    /\ task.pc = "compact" /\ cursor >= task.max
    /\ task' = Rest
    /\ UNCHANGED <<newest, archived, rows, incidents, records, cursor, pruned, restarts>>

--------------------------------------------------------------------------
\* archivedEvidenceDeployment: archived, not one of the newest, nothing recent.
Eligible(d) ==
    /\ d \in archived /\ d <= newest - Recent
    /\ \A i \in Live : rows[i].dep = d => rows[i].old

\* Mutant: a deployment on the list is still eligible.
StillListed(d) == TRUE

\* archivedEvidenceDeploymentStillEligible, part of every batch's statement.
StillEligible(d) == Eligible(d)

\* PruneArchivedEvidenceBefore (after the compaction of the same pass): the list.
PruneBegin ==
    /\ task = Rest /\ cursor >= Len(rows)
    /\ LET list == {d \in 1..newest : Eligible(d)}
       IN  list # {} /\ task' = [pc |-> "prune", list |-> list]
    /\ UNCHANGED <<newest, archived, rows, incidents, records, cursor, pruned, restarts>>

\* pruneArchivedRuntimeEvidence: a batch (of one row) gives back the uses of its
\* records, deletes its incidents and itself, and the records nobody uses; an empty
\* batch ends the deployment.
PruneBatch ==
    /\ task.pc = "prune" /\ task.list # {}
    /\ LET d == Min(task.list)
           found == {i \in Live : rows[i].dep = d /\ rows[i].old /\ StillEligible(d)}
           i == Min(found)
           uses == [r \in DOMAIN records |-> records[r] - (IF rows[i].compact /\ r \in rows[i].recs THEN 1 ELSE 0)]
       IN  IF found = {}
           THEN task' = [task EXCEPT !.list = @ \ {d}] /\ UNCHANGED <<rows, incidents, records, pruned>>
           ELSE /\ records' = [r \in {q \in DOMAIN uses : uses[q] > 0} |-> uses[r]]
                /\ incidents' = [k \in {q \in DOMAIN incidents : incidents[q] # i} |-> incidents[k]]
                /\ rows' = [rows EXCEPT ![i] = Deleted]
                /\ pruned' = pruned \union {d}
                /\ UNCHANGED task
    /\ UNCHANGED <<newest, archived, cursor, restarts>>

PruneEnd ==
    /\ task.pc = "prune" /\ task.list = {} /\ task' = Rest
    /\ UNCHANGED <<newest, archived, rows, incidents, records, cursor, pruned, restarts>>

\* The control plane restarts between two batches.
Restart ==
    /\ restarts < MaxRestarts /\ task # Rest /\ task' = Rest /\ restarts' = restarts + 1
    /\ UNCHANGED <<newest, archived, rows, incidents, records, cursor, pruned>>

JNext ==
    \/ \E d \in 1..MaxDeployments, incs \in SUBSET Incidents, recs \in SUBSET Records : RecordRuntimeEvidence(d, incs, recs)
    \/ NewDeployment
    \/ \E d \in 1..MaxDeployments : ArchiveDeployment(d)
    \/ \E i \in DOMAIN rows : Ages(i)
    \/ CompactBegin \/ CompactBatch \/ CompactEnd
    \/ PruneBegin \/ PruneBatch \/ PruneEnd
    \/ Restart

--------------------------------------------------------------------------
\* expandRuntimeEvidence finds every record a compact row refers to: the uses of a
\* record are exactly the rows that refer to it, whoever stored or moved them.
UsesExact ==
    /\ \A i \in Live : rows[i].compact => rows[i].recs \subseteq DOMAIN records
    /\ \A r \in DOMAIN records : records[r] = Cardinality({i \in Live : rows[i].compact /\ r \in rows[i].recs})

\* normalizeRuntimeEvidence: as long as nothing of a deployment was pruned, each of its incidents is stored once,
\* with the first compact row that reported it, although reports and the compaction
\* store the same incident in any order.
IncidentOnFirst ==
    \A d \in 1..newest \ pruned : \A c \in Incidents :
        LET said == {i \in Live : rows[i].dep = d /\ rows[i].compact /\ c \in rows[i].incs}
        IN  /\ said # {} => <<d, c>> \in DOMAIN incidents /\ incidents[<<d, c>>] = Min(said)
            /\ said = {} => <<d, c>> \notin DOMAIN incidents

\* PruneArchivedEvidenceBefore: a row is deleted only while its deployment is eligible, although the list of
\* deployments was made before: a late report or a rollback stops the prune.
PruneStops == \A i \in Live : rows'[i] = Deleted => Eligible(rows[i].dep)
=============================================================================
