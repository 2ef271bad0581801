------------------------------ MODULE LTXCoverage ------------------------------
(* The LTX coverage check (ltx_coverage.go): two listings of the replica,     *)
(* read level by level while Litestream goes on writing, compacting and       *)
(* trimming, and the verdict on the transactions that no file covers.         *)
(* Litestream's own steps are external: the check's comments state them.      *)
EXTENDS Integers, FiniteSets, FiniteSetsExt, Sequences, SequencesExt

CONSTANTS MaxTXID, MaxLosses, MaxSnapshots

L9 == 9                         \* ltxSnapshotLevel
Levels == {0, 1, L9}
File(l, a, b) == [level |-> l, min |-> a, max |-> b]

VARIABLES replica,      \* the files of the replica
          top,          \* the last transaction replicated
          lost,         \* transactions whose last file was lost before the check began
          cpc,          \* "first", "wait", "second", "done"
          unread, seen, \* the listing under way
          first,        \* the first listing's coverage
          verdict,
          losses
cvars == <<replica, top, lost, cpc, unread, seen, first, verdict, losses>>
check == <<cpc, unread, seen, first, verdict>>

At(l) == {f \in replica : f.level = l}
LastAt(l) == IF At(l) = {} THEN 0 ELSE Max({f.max : f \in At(l)})
TXIDs(f) == f.min .. f.max

--------------------------------------------------------------------------
(* computeLTXCoverage.                                                       *)

Ranges(files) == {[min |-> f.min, max |-> f.max] : f \in {g \in files : g.level \in 0 .. 8 /\ g.min <= g.max}}
\* Mutant: the floor is where the snapshots begin.
FloorOfStart(files) == {f.min : f \in {g \in files : g.level = L9}}
FloorOf(files) == {f.max : f \in {g \in files : g.level = L9}}

\* Mutant: the transaction at the floor is not judged.
AddHolePast(acc, a, b) ==
    IF ~acc.known \/ a > acc.floor THEN [acc EXCEPT !.holes = Append(@, [min |-> a, max |-> b])]
    ELSE IF b <= acc.floor THEN acc
    ELSE [acc EXCEPT !.holes = Append(@, [min |-> acc.floor + 1, max |-> b])]
\* addHole: what lies below the floor is not judged.
AddHole(acc, a, b) ==
    IF ~acc.known \/ a >= acc.floor THEN [acc EXCEPT !.holes = Append(@, [min |-> a, max |-> b])]
    ELSE IF b < acc.floor THEN acc
    ELSE [acc EXCEPT !.holes = Append(@, [min |-> acc.floor, max |-> b])]

Scan(acc, next) ==
    [IF next.min > acc.to + 1 THEN AddHole(acc, acc.to + 1, next.min - 1) ELSE acc
        EXCEPT !.to = IF next.max > @ THEN next.max ELSE @]

ComputeLTXCoverage(files) ==
    LET sorted == SetToSortSeq(Ranges(files), LAMBDA r, s : r.min < s.min)
        known == FloorOf(files) # {}
        start == [to |-> IF sorted = <<>> THEN 0 ELSE Head(sorted).max, holes |-> <<>>, known |-> known,
                  floor |-> IF known THEN Min(FloorOf(files)) ELSE 0]
    IN  FoldLeft(Scan, start, sorted)

Missing(cov) == UNION {TXIDs(h) : h \in ToSet(cov.holes)}

--------------------------------------------------------------------------
(* Litestream and its replica (external).                                    *)

CInit ==
    /\ \E snapshot \in BOOLEAN : replica = {File(0, 1, 1)} \cup (IF snapshot THEN {File(L9, 1, 1)} ELSE {})
    /\ top = 1 /\ lost = {} /\ losses = 0
    /\ cpc = "first" /\ unread = Levels /\ seen = {} /\ verdict = "none"
    /\ first = ComputeLTXCoverage({})

Sync ==
    /\ top < MaxTXID /\ top' = top + 1 /\ replica' = replica \cup {File(0, top + 1, top + 1)} /\ UNCHANGED <<lost, losses, check>>
Compact ==
    /\ LastAt(1) < top /\ \A t \in LastAt(1) + 1 .. top : \E f \in At(0) : t \in TXIDs(f)
    /\ \E b \in LastAt(1) + 1 .. top : replica' = replica \cup {File(1, LastAt(1) + 1, b)}
    /\ UNCHANGED <<top, lost, losses, check>>
\* L0 files go once L1 covered them, the last one excepted.
TrimL0 ==
    /\ \E f \in At(0) : f.max <= LastAt(1) /\ f.max < LastAt(0) /\ replica' = replica \ {f}
    /\ UNCHANGED <<top, lost, losses, check>>
Snapshot ==
    /\ LastAt(L9) < top /\ Cardinality(At(L9)) < MaxSnapshots /\ replica' = replica \cup {File(L9, 1, top)}
    /\ UNCHANGED <<top, lost, losses, check>>
TrimSnapshot ==
    /\ \E f \in At(L9) : f.max < LastAt(L9) /\ replica' = replica \ {f}
    /\ UNCHANGED <<top, lost, losses, check>>
\* Snapshot retention: below the oldest snapshot's last transaction, the level's last file excepted.
TrimL1 ==
    /\ At(L9) # {} /\ \E f \in At(1) : f.max < Min({s.max : s \in At(L9)}) /\ f.max < LastAt(1) /\ replica' = replica \ {f}
    /\ UNCHANGED <<top, lost, losses, check>>

\* A flaw of Litestream or of the store: a file goes that nothing allows to go.
Lose ==
    /\ losses < MaxLosses /\ losses' = losses + 1
    /\ \E f \in replica :
          /\ f.level # L9 /\ f.max < top /\ replica' = replica \ {f}
          /\ lost' = IF cpc # "first" \/ unread # Levels THEN lost
                    ELSE lost \cup {t \in TXIDs(f) : ~\E g \in replica \ {f} : g.level # L9 /\ t \in TXIDs(g)}
    /\ UNCHANGED <<top, check>>

--------------------------------------------------------------------------
(* runLTXCoverageCheck, ltxCoverageResult.                                   *)

\* `litestream ltx -level all` prints the levels in ascending order.
ReadLevel(l) ==
    /\ cpc \in {"first", "second"} /\ l \in unread /\ \A m \in unread : l <= m
    /\ unread' = unread \ {l} /\ seen' = seen \cup At(l)
    /\ UNCHANGED <<replica, top, lost, losses, cpc, first, verdict>>

End(v) == cpc' = "done" /\ verdict' = v /\ unread' = {} /\ seen' = {}

\* Mutant: a range of one transaction in both lists is dropped (lo < hi).
ConfirmedWide(a, b) == {t \in Missing(a) \cap Missing(b) : {t - 1, t + 1} \cap Missing(a) \cap Missing(b) # {}}
\* intersectTXIDRanges.
Confirmed(a, b) == Missing(a) \cap Missing(b)

FirstListed ==
    /\ cpc = "first" /\ unread = {} /\ first' = ComputeLTXCoverage(seen)
    /\ \/ seen = {} /\ End("aborted")
       \/ seen # {} /\ first'.holes = <<>> /\ End("passed")
       \/ seen # {} /\ first'.holes # <<>> /\ cpc' = "wait" /\ UNCHANGED <<unread, seen, verdict>>
    /\ UNCHANGED <<replica, top, lost, losses>>

Relist ==
    /\ cpc = "wait" /\ cpc' = "second" /\ unread' = Levels /\ seen' = {}
    /\ UNCHANGED <<replica, top, lost, losses, first, verdict>>

SecondListed ==
    LET second == ComputeLTXCoverage(seen)
        confirmed == Confirmed(first, second)
    IN
    /\ cpc = "second" /\ unread = {}
    /\ \/ confirmed = {} /\ End("passed")
       \/ confirmed # {} /\ ~(first.known /\ second.known) /\ End("aborted")
       \/ confirmed # {} /\ first.known /\ second.known /\ End("failed")
    /\ UNCHANGED <<replica, top, lost, losses, first>>

\* A listing that errs or is incomplete.
ListingFails == cpc \in {"first", "second"} /\ End("aborted") /\ UNCHANGED <<replica, top, lost, losses, first>>

CNext ==
    \/ Sync \/ Compact \/ TrimL0 \/ Snapshot \/ TrimSnapshot \/ TrimL1 \/ Lose
    \/ FirstListed \/ Relist \/ SecondListed \/ ListingFails
    \/ \E l \in Levels : ReadLevel(l)

--------------------------------------------------------------------------
\* runLTXCoverageCheck: what the two listings saw is never blamed on a replica that lost nothing, whatever
\* compaction and retention did between the reads of two levels.
HealthyNeverFails == verdict = "failed" => losses > 0

\* computeLTXCoverage: the scan over the sorted files finds exactly the judged transactions inside the
\* window that no file covers.
HolesExact ==
    LET cov == ComputeLTXCoverage(replica)
        covered == UNION {TXIDs(r) : r \in Ranges(replica)}
    IN  Missing(cov) = {t \in 1 .. cov.to : t \notin covered /\ (\E u \in covered : u < t) /\ (cov.known => t >= cov.floor)}

\* ltxCoverageResult: a transaction that was lost before the check began fails it, unless retention has
\* passed it: the oldest snapshot is above it, or nothing older is left.
LossIsSeen ==
    verdict = "passed" => \A t \in lost :
        \/ At(L9) # {} /\ t < Min({s.max : s \in At(L9)})
        \/ ~\E f \in replica : f.level # L9 /\ f.min < t
=============================================================================
