----------------------------- MODULE ProfileUpload -----------------------------
(* The profiles a worker captures (pprof_capture.go, pprof_evidence.go): a     *)
(* capture leaves an artifact and its record in a directory, old ones are      *)
(* pruned there, and the uploader beside it sends the artifacts and then their *)
(* records to the store, again and again until that worked.                    *)
EXTENDS Naturals, FiniteSets, Sequences, FiniteSetsExt, SequencesExt

CONSTANTS Files,                \* 1..n, in the order of their capture
          Baselines, Bad,       \* those labelled baseline, those the store never takes
          Keep, Limit, Batch,   \* pprofLocalRetentionFiles (and of baselines), pprofMaxEvidenceFiles (in files), 4
          MaxFaults, MaxCrashes

VARIABLES art,          \* the artifacts in the directory
          rec,          \* [Files -> "none", "pending", "uploaded"]: the records there
          avail,        \* the files whose capture succeeded
          sent,         \* artifact_uploaded, of the records there
          order,        \* the files by their last attempt, or their capture
          cpc, cur,     \* the capture and its file
          queue, upc,   \* the uploader: the records of this round, its step
          store, manifests,     \* the store's artifacts and records
          next, faults, crashes
evars == <<art, rec, avail, sent, order, cpc, cur, queue, upc, store, manifests, next, faults, crashes>>
capture == <<avail, cpc, cur, next>>
bucket == <<store, manifests>>

EInit ==
    /\ art = {} /\ rec = [f \in Files |-> "none"] /\ avail = {} /\ sent = {} /\ order = <<>>
    /\ cpc = "idle" /\ cur = 0 /\ queue = <<>> /\ upc = "idle" /\ store = {} /\ manifests = {}
    /\ next = 1 /\ faults = 0 /\ crashes = 0
Fault == faults < MaxFaults /\ faults' = faults + 1

--------------------------------------------------------------------------
(* captureEndpoint.                                                          *)
\* Mutant: an artifact without a record is not waited for.
PendingKnown(r, f) == r[f] = "pending"
\* pending: an artifact without a record counts.
Pending(r, f) == r[f] \in {"none", "pending"}

\* pruneLocalProfiles, removeOldest: of the baselines, and of the others, only the newest that are not pending stay.
\* A record without an artifact is as old as its last save, so anywhere among them.
Held(r) == {f \in Files : f \in art \/ r[f] # "none"}
Kinds == {Baselines, Files \ Baselines}
Oldest(gone, files) ==
    /\ gone \subseteq files /\ Cardinality(files \ gone) = Min({Keep, Cardinality(files)})
    /\ \A f \in gone \cap art, g \in (files \ gone) \cap art : f < g
Prune(r) ==
    LET files == {f \in Held(r) : ~Pending(r, f)}
    IN  \E gone \in SUBSET files :
            /\ \A kind \in Kinds : Oldest(gone \cap kind, files \cap kind)
            /\ art' = art \ gone /\ rec' = [f \in Files |-> IF f \in gone THEN "none" ELSE r[f]]

\* captureAdmission: prune, then see whether there is room.
Admit ==
    /\ cpc = "idle" /\ next \in Files /\ Prune(rec)
    /\ IF Cardinality({f \in Files : f \in art' \/ rec'[f] # "none"}) < Limit
       THEN cpc' = "fetch" /\ cur' = next /\ next' = next + 1 /\ order' = Append(order, next)
       ELSE UNCHANGED <<cpc, cur, next, order>>
    /\ UNCHANGED <<avail, sent, queue, upc, bucket, faults, crashes>>
\* The endpoint answers and the artifact is written, or only a record will say that it did not.
Fetch ==
    /\ cpc = "fetch" /\ cpc' = "save"
    /\ \/ art' = art \cup {cur} /\ avail' = avail \cup {cur}
       \/ UNCHANGED <<art, avail>>
    /\ UNCHANGED <<rec, sent, order, cur, next, queue, upc, bucket, faults, crashes>>
\* saveRecord, which may fail, and the prune.
Save ==
    /\ cpc = "save" /\ cpc' = "idle" /\ cur' = 0
    /\ \/ Prune([rec EXCEPT ![cur] = "pending"]) /\ UNCHANGED faults
       \/ Fault /\ Prune(rec)
    /\ UNCHANGED <<avail, sent, order, next, queue, upc, bucket, crashes>>

--------------------------------------------------------------------------
(* retryPendingPhase.                                                        *)
Waiting == {f \in Files : rec[f] = "pending"}
Place(f) == CHOOSE i \in DOMAIN order : order[i] = f
\* Mutant: the oldest capture goes first.
BeforeCaptured(f, g) == f < g
\* The one whose last attempt (or capture) is longest ago goes first.
Before(f, g) == Place(f) < Place(g)
List ==
    /\ upc = "idle" /\ Waiting # {} /\ upc' = "next"
    /\ LET all == SetToSortSeq(Waiting, Before) IN queue' = SubSeq(all, 1, Min({Batch, Len(all)}))
    /\ UNCHANGED <<art, rec, sent, order, capture, bucket, faults, crashes>>

Taken(f) == f \notin Bad
Refused(f) == IF f \in Bad THEN UNCHANGED faults ELSE Fault
Attempted(f) == Append(SelectSeq(order, LAMBDA g : g # f), f)
\* Mutant: the record goes first, without its artifact.
AttemptRecord ==
    /\ upc = "next" /\ queue # <<>> /\ upc' = "manifest"
    /\ UNCHANGED <<art, rec, sent, order, capture, queue, bucket, faults, crashes>>
\* The next record: its artifact is sent unless it was, and the attempt saved, or that fails.
Attempt ==
    /\ upc = "next" /\ queue # <<>>
    /\ LET f == Head(queue) IN
       IF f \in avail \ sent
       THEN \/ Taken(f) /\ store' = store \cup {f} /\ upc' = "manifest" /\ UNCHANGED queue
               /\ \/ sent' = sent \cup {f} /\ order' = Attempted(f) /\ UNCHANGED faults
                  \/ Fault /\ UNCHANGED <<sent, order>>
            \/ Refused(f) /\ order' = Attempted(f) /\ queue' = Tail(queue) /\ UNCHANGED <<store, sent, upc>>
       ELSE upc' = "manifest" /\ UNCHANGED <<store, sent, order, queue, faults>>
    /\ UNCHANGED <<art, rec, capture, manifests, crashes>>
\* uploadRecord, then the record says uploaded; if that cannot be saved it stays pending.
Manifest ==
    /\ upc = "manifest" /\ upc' = "next" /\ queue' = Tail(queue)
    /\ LET f == Head(queue) IN
       \/ Taken(f) /\ manifests' = manifests \cup {f} /\ UNCHANGED <<sent, order>>
          /\ \/ rec' = [rec EXCEPT ![f] = "uploaded"] /\ UNCHANGED faults
             \/ Fault /\ UNCHANGED rec
       \/ Refused(f) /\ order' = Attempted(f) /\ sent' = sent \cup ({f} \cap store) /\ UNCHANGED <<manifests, rec>>
    /\ UNCHANGED <<art, capture, store, crashes>>
RoundEnds ==
    /\ upc = "next" /\ queue = <<>> /\ upc' = "idle"
    /\ UNCHANGED <<art, rec, sent, order, capture, queue, bucket, faults, crashes>>

\* The worker ends anywhere and starts again on the same volume; an artifact may have been begun.
Crash ==
    /\ crashes < MaxCrashes /\ crashes' = crashes + 1 /\ cpc' = "idle" /\ cur' = 0 /\ queue' = <<>> /\ upc' = "idle"
    /\ art' \in {art, IF cpc = "fetch" THEN art \cup {cur} ELSE art}
    /\ UNCHANGED <<rec, avail, sent, order, next, bucket, faults>>

UploadStep == List \/ Attempt \/ Manifest \/ RoundEnds
ENext == Admit \/ Fetch \/ Save \/ UploadStep \/ Crash

--------------------------------------------------------------------------
\* pruneLocalProfiles: a captured artifact is in the directory or in the store, whatever was pruned, could not be
\* saved or sent, and wherever the worker ended.
ArtifactKept == avail \subseteq art \cup store

\* retryPendingPhase: a record in the store never stands for an artifact that is not there.
ManifestLast == manifests \cap avail \subseteq store

\* retryPendingPhase: records the store refuses do not keep the others waiting.
Unsent(f) == f \notin Bad /\ rec[f] = "pending"
=============================================================================
