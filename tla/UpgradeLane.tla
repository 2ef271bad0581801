------------------------------ MODULE UpgradeLane ------------------------------
(* The upgrade lane of a worker (upgrade_lane.go, replica_l9_purge.go): the    *)
(* base build of Litestream runs for the warm-up, then the candidate build     *)
(* runs on the same volume and replica, after the level-9 snapshots of the     *)
(* base were deleted where the lane asks for it.  What phase the lane is in is *)
(* kept in a file on the volume; the worker may end and start again anywhere.  *)
EXTENDS Naturals, FiniteSets

CONSTANTS Images,        \* each pins one base and one candidate commit
          Attempts,      \* replicaL9PurgeAttempts (3)
          MaxTX, MaxRestarts, MaxFaults

VARIABLES delete,        \* cfg.UpgradeDeleteL9AtSwitch
          image,         \* the image the worker runs
          file, maybe,   \* upgrade-lane.json as a reader sees it, and what a power loss may leave
          pc, state,     \* runUpgradeLane and its copy of the state
          tries,         \* purge attempts of this process
          target,        \* post.upgradePreTXID
          build, ran,    \* the running build with its image; all that ever ran
          l9,            \* the level-9 objects of the replica, by the build that wrote them
          tx, recorded,  \* the newest boundary the base verified; the newest whose record returned no error
          purged,        \* a candidate's object was deleted
          doubt,         \* a directory sync has failed
          restarts, faults
uvars == <<delete, image, file, maybe, pc, state, tries, target, build, ran, l9, tx, recorded, purged, doubt, restarts, faults>>
world == <<l9, tx, recorded, purged>>
lane == <<delete, image, restarts>>

Missing == [phase |-> "", image |-> "", txid |-> 0, purge |-> "none", first |-> FALSE]
NoBuild == [name |-> "none", image |-> ""]
Build(name) == [name |-> name, image |-> image]

LInit ==
    /\ delete \in BOOLEAN /\ image \in Images /\ file = Missing /\ maybe = {Missing}
    /\ pc = "boot" /\ state = Missing /\ tries = 0 /\ target = 0 /\ build = NoBuild /\ ran = {}
    /\ l9 = {} /\ tx = 0 /\ recorded = 0 /\ purged = FALSE /\ doubt = FALSE /\ restarts = 0 /\ faults = 0

--------------------------------------------------------------------------
(* writeUpgradeLaneState: the new file is synced, renamed into place and the *)
(* directory synced; each of the three can fail.                             *)
Write(s, ok) ==
    \/ ok /\ file' = s /\ maybe' = {s} /\ UNCHANGED <<doubt, faults>>
    \/ ~ok /\ faults < MaxFaults /\ faults' = faults + 1
       /\ \/ UNCHANGED <<file, maybe, doubt>>
          \/ file' = s /\ maybe' = maybe \cup {s} /\ doubt' = TRUE

Unwritten == UNCHANGED <<file, maybe, doubt, faults>>

\* A boot with no state on the volume starts the warm-up; one with another image's state is refused.
Boot ==
    LET fresh == [Missing EXCEPT !.phase = "pre", !.image = image] IN
    /\ pc = "boot"
    /\ \/ file.phase = "" /\ \E ok \in BOOLEAN : Write(fresh, ok) /\ pc' = (IF ok THEN "pre" ELSE "ended") /\ state' = fresh
       \/ file.phase # "" /\ state' = file /\ Unwritten
          /\ pc' = (IF file.image # image THEN "ended" ELSE IF file.phase = "pre" THEN "pre" ELSE "purge")
    /\ UNCHANGED <<lane, tries, target, build, ran, world>>

\* run(phaseCtx, pre): the Runner starts the base build ...
StartBase ==
    /\ pc = "pre" /\ pc' = "base" /\ build' = Build("base") /\ ran' = ran \cup {build'}
    /\ UNCHANGED <<lane, file, maybe, state, tries, target, world, doubt, faults>>

\* ... a cycle that passes records its boundary (recordUpgradePreTXID), in the pre phase only ...
Verified ==
    /\ pc = "base" /\ tx < MaxTX /\ tx' = tx + 1
    /\ \/ file.phase = "pre" /\ tx' > file.txid
          /\ \E ok \in BOOLEAN : Write([file EXCEPT !.txid = tx'], ok) /\ recorded' = (IF ok THEN tx' ELSE recorded)
       \/ ~(file.phase = "pre" /\ tx' > file.txid) /\ Unwritten /\ UNCHANGED recorded
    /\ UNCHANGED <<lane, pc, state, tries, target, build, ran, l9, purged>>

\* ... and it returns with Litestream stopped, because the warm-up ended or for another reason.
BaseReturns ==
    /\ pc = "base" /\ build' = NoBuild /\ pc' \in {"switch", "ended"}
    /\ UNCHANGED <<lane, file, maybe, state, tries, target, ran, world, doubt, faults>>

\* Mutant: the state read at the boot is written back.
StateAtSwitchOld == state
\* The state is read again: the cycles of the warm-up have recorded in the file.
StateAtSwitch == file

\* Mutant: a switch that could not be written is only logged.
AfterSwitchAnyway(ok) == "purge"
AfterSwitch(ok) == IF ok THEN "purge" ELSE "ended"

Switch ==
    /\ pc = "switch" /\ state' = [StateAtSwitch EXCEPT !.phase = "post"]
    /\ \E ok \in BOOLEAN : Write(state', ok) /\ pc' = AfterSwitch(ok)
    /\ UNCHANGED <<lane, tries, target, build, ran, world>>

--------------------------------------------------------------------------
\* Mutant: any recorded attempt will do.
PurgeDoneAny == state.purge # "none"
\* succeeded(): only a successful record lets the candidate start.
PurgeDone == state.purge = "ok"

\* purgeReplicaL9: every level-9 object is deleted and none is left, or the attempt failed, with some deleted.
PurgeReplicaL9(outcome) ==
    /\ l9' \in (IF outcome = "ok" THEN {{}} ELSE SUBSET l9)
    /\ purged' = (purged \/ ("candidate" \in l9 /\ "candidate" \notin l9'))

\* purgeUntilClean: one attempt; its record is written by RecordPurge.
PurgeAttempt ==
    /\ pc = "purge" /\ delete /\ ~PurgeDone
    /\ \E outcome \in {"ok", "failed"} :
          PurgeReplicaL9(outcome) /\ state' = [state EXCEPT !.purge = outcome] /\ pc' = "record"
    /\ tries' = tries + 1
    /\ UNCHANGED <<lane, file, maybe, target, build, ran, tx, recorded, doubt, faults>>

AfterPurge(ok) == IF ~ok THEN "ended" ELSE IF state.purge = "ok" THEN "post" ELSE IF tries < Attempts THEN "purge" ELSE "ended"

RecordPurge ==
    /\ pc = "record" /\ \E ok \in BOOLEAN : Write(state, ok) /\ pc' = AfterPurge(ok)
    /\ UNCHANGED <<lane, state, tries, target, build, ran, world>>

NoPurge ==
    /\ pc = "purge" /\ (~delete \/ PurgeDone) /\ pc' = "post"
    /\ UNCHANGED <<lane, file, maybe, state, tries, target, build, ran, world, doubt, faults>>

--------------------------------------------------------------------------
\* run(ctx, post).
StartCandidate ==
    /\ pc = "post" /\ pc' = "candidate" /\ target' = state.txid
    /\ build' = Build("candidate") /\ ran' = ran \cup {build'}
    /\ UNCHANGED <<lane, file, maybe, state, tries, world, doubt, faults>>

\* The running build snapshots to level 9 (Litestream).
Snapshot ==
    /\ build # NoBuild /\ l9' = l9 \cup {build.name}
    /\ UNCHANGED <<lane, file, maybe, pc, state, tries, target, build, ran, tx, recorded, purged, doubt, faults>>

\* recordFirstCandidateL9, by a cycle of the post phase that lists the replica's levels.
FirstL9 ==
    /\ pc = "candidate" /\ delete /\ ~file.first /\ file.purge # "none" /\ l9 # {}
    /\ \E ok \in BOOLEAN : Write([file EXCEPT !.first = TRUE], ok)
    /\ UNCHANGED <<lane, pc, state, tries, target, build, ran, world>>

\* The worker ends and is started again, perhaps by a new image; after a power loss the
\* volume holds what was known to be on it.
Restart ==
    /\ restarts < MaxRestarts /\ restarts' = restarts + 1
    /\ \/ UNCHANGED <<file, maybe>>
       \/ \E left \in maybe : file' = left /\ maybe' = {left}
    /\ image' \in Images /\ pc' = "boot" /\ state' = Missing /\ tries' = 0 /\ target' = 0 /\ build' = NoBuild
    /\ UNCHANGED <<delete, ran, world, doubt, faults>>

LNext ==
    \/ Boot \/ StartBase \/ Verified \/ BaseReturns \/ Switch
    \/ PurgeAttempt \/ RecordPurge \/ NoPurge \/ StartCandidate \/ Snapshot \/ FirstL9 \/ Restart

--------------------------------------------------------------------------
\* upgradeLaneState: a restart "after the switch never runs the base build against candidate-written
\* state", nor builds of another image, wherever it happens.  (A directory sync that failed and is
\* followed by a power loss can bring the old file back.)
OneWay ==
    ~doubt => /\ build.name = "base" => \A b \in ran : b.name = "base"
              /\ \A b, c \in ran : b.image = c.image

\* runUpgradeLane: with the purge asked for, the candidate runs only on a replica free of the base's
\* level-9 objects, its own are never deleted, and the first snapshot noted is its own.
CandidateClean ==
    (delete /\ ~doubt) => /\ build.name = "candidate" => "base" \notin l9
                          /\ ~purged
                          /\ file.first => \E b \in ran : b.name = "candidate"

\* recordUpgradePreTXID: the candidate keeps restoring the newest boundary of the base that was recorded,
\* although the lane's own copy of the state is older than the file.
RestoresNewest == (build.name = "candidate" /\ ~doubt) => target >= recorded /\ target <= tx
=============================================================================
