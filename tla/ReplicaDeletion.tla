---------------------------- MODULE ReplicaDeletion ----------------------------
(* DeletePrefix (s3util/delete.go), as clearWorkerReplicaPrefix calls it: the  *)
(* objects under a worker's prefix are listed page by page and each page is    *)
(* deleted, while a machine that is still going down may write new ones.       *)
EXTENDS Naturals, FiniteSets, FiniteSetsExt

CONSTANTS Keys,                 \* 1..n, in the store's order
          Ours, Siblings,       \* under the prefix and its slash; under a name the prefix begins
          Page,                 \* max-keys
          MaxWrites, MaxFaults, MaxCalls

VARIABLES objects,      \* what the store holds
          first,        \* the objects of the prefix at the beginning of the call that were not written since
          dpc, token, page, deleted,    \* the call: its step, the continuation token, the page, the count
          removed,      \* what this call removed
          writes, faults, calls
zvars == <<objects, first, dpc, token, page, deleted, removed, writes, faults, calls>>
bounds == <<writes, faults, calls>>

ZInit ==
    /\ objects \in {o \in SUBSET Keys : Keys \ (Ours \cup Siblings) \subseteq o} /\ first = {}
    /\ dpc = "idle" /\ token = 0 /\ page = {} /\ deleted = 0 /\ removed = {} /\ writes = 0 /\ faults = 0 /\ calls = 0
Fault == faults < MaxFaults /\ faults' = faults + 1

\* Mutant: the prefix has no slash at its end.
ListedBare == Ours \cup Siblings
\* The keys a listing with this prefix is about.
Listed == Ours
Begin ==
    /\ dpc \in {"idle", "failed", "done"} /\ calls < MaxCalls /\ calls' = calls + 1
    /\ dpc' = "list" /\ token' = 0 /\ page' = {} /\ deleted' = 0 /\ removed' = {} /\ first' = objects \cap Ours
    /\ UNCHANGED <<objects, writes, faults>>

\* The store's token names a key, not a count: the page begins after it.
After(k) == k > token
\* listObjects: a page of what comes after the token; an empty token when it was the last.
Rest == {k \in objects \cap Listed : After(k)}
PageOf == {k \in Rest : Cardinality({q \in Rest : q < k}) < Page}
List ==
    /\ dpc = "list"
    /\ \/ page' = PageOf /\ token' = (IF Cardinality(Rest) > Page THEN Max(PageOf) ELSE 0)
          /\ dpc' = (IF PageOf = {} THEN "done" ELSE "delete") /\ UNCHANGED faults
       \/ Fault /\ dpc' = "failed" /\ UNCHANGED <<page, token>>
    /\ UNCHANGED <<objects, first, deleted, removed, writes, calls>>

\* Mutant: an answer that names objects not deleted counts as one that names none.
SucceededAny(gone) == gone \in SUBSET page
Succeeded(gone) == gone = page
\* deleteObjects of a page: all go, or some do and the answer names the others or is lost.
Delete ==
    /\ dpc = "delete"
    /\ \E gone \in SUBSET page :
          /\ objects' = objects \ gone /\ first' = first \ gone /\ removed' = removed \cup gone
          /\ \/ Succeeded(gone) /\ deleted' = deleted + Cardinality(page) /\ page' = {}
                /\ dpc' = (IF token = 0 THEN "done" ELSE "list") /\ UNCHANGED faults
             \/ Fault /\ dpc' = "failed" /\ UNCHANGED <<deleted, page>>
    /\ UNCHANGED <<token, writes, calls>>

\* An object is written beside the call, new or once more.
Write(k) ==
    /\ writes < MaxWrites /\ writes' = writes + 1 /\ objects' = objects \cup {k} /\ first' = first \ {k}
    /\ UNCHANGED <<dpc, token, page, deleted, removed, faults, calls>>

ZNext == Begin \/ List \/ Delete \/ \E k \in Ours \cup Siblings : Write(k)

--------------------------------------------------------------------------
\* DeletePrefix: when it succeeds, nothing is left of what was there when it began, whatever the paging, what was
\* written beside it, or what an earlier call that failed had left; and it counted what it removed.
PrefixGone == dpc = "done" => first = {} /\ deleted >= Cardinality(removed)

\* DeletePrefix: replicas of other workers stay, also of one whose name begins like this one's.
OthersKept == removed \subseteq Ours
=============================================================================
