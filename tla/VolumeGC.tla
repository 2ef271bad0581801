------------------------------ MODULE VolumeGC ------------------------------
(***************************************************************************)
(* The collection of one unattached worker volume                          *)
(* (internal/orchestrator/volume_inventory.go, model/volume_gc.go): the     *)
(* sweep takes a fresh inventory, looks for evidence holds under the locks  *)
(* of the workers that refer to the volume, persists the attempt and only   *)
(* then sends the destroy request.  Volumes do not share any state, so one  *)
(* volume stands for all; the sweep of the others is the time that passes   *)
(* between two of its steps.                                               *)
(*                                                                         *)
(* Time is relative: the wait of an attempt counts down, and an answer of   *)
(* the inventory ages.  Both stop at Maximum.                              *)
(***************************************************************************)
EXTENDS Naturals, FiniteSets, TLAPS

CONSTANTS
    Workers,            \* rows that may refer to the volume
    Initial, Maximum,   \* volumeGCInitialRetryBackoff, volumeGCMaximumRetryBackoff
    MaxFaults,          \* failed database writes
    MaxCrashes

VARIABLES
    volume,     \* the provider's volume: [st, attached, old]
    owners,     \* the workers whose row refers to it
    heldBy,     \* the workers under an evidence hold
    stored,     \* its row of volume_gc_attempts
    attempts,   \* its entry of Manager.volumeGCAttempts
    loaded,     \* volumeGCAttemptsLoaded
    sweep,      \* destroyStaleUnattachedWorkerVolumes
    asked,      \* history: the last request since the attempt was last cleared
    faults, crashes

vvars == <<volume, owners, heldBy, stored, attempts, loaded, sweep, asked, faults, crashes>>

None == <<>>
AtMost(n) == IF n > Maximum THEN Maximum ELSE n
Less(n, k) == IF n > k THEN n - k ELSE 0
DeletionStates == {"deleting"}

\* volumeGCRetryBackoff.
Backoff[n \in 1..(Maximum + 1)] ==
    IF n = 1 THEN Initial
    ELSE IF 2 * Backoff[n - 1] >= Maximum THEN Maximum ELSE 2 * Backoff[n - 1]
BackoffOf(n) == Backoff[AtMost(n)]

\* isStaleUnattachedWorkerVolumeCandidate; the name prefix is given.
Candidate(v) == ~v.attached /\ v.old

Idle == [pc |-> "idle"]
Rest == sweep' = Idle

\* The sweep holds the locks of the owners it found from the second look at their
\* holds to the end of the request.
Locked(w) == sweep.pc \in {"persist", "send"} /\ w \in sweep.listed

(***************************************************************************)
(* The sweep.                                                              *)
(***************************************************************************)
\* syncVolumeInventory and loadVolumeGCAttempts.  due is the comparison of the
\* sweep's time with NextRetryAt, since the time elapsed after the sweep's.  The
\* inventory may lack a volume that exists.
Begin ==
    /\ sweep.pc = "idle"
    /\ loaded' = TRUE
    /\ attempts' = IF loaded THEN attempts ELSE stored
    /\ \E seen \in {None, volume} :
       /\ volume.st = "gone" => seen = None
       /\ attempts' # None \/ (seen # None /\ Candidate(seen))
       /\ sweep' = [pc |-> "held", seen |-> seen, since |-> 0,
                    due |-> attempts' = None \/ attempts'.wait = 0,
                    ago |-> IF asked = None THEN Maximum ELSE asked.ago]
    /\ UNCHANGED <<volume, owners, heldBy, stored, asked, faults, crashes>>

\* removeVolumeGCAttempt: the row first, and the entry only with it.  The history
\* ends with an attempt given up for a hold or for a volume on its way out.
Forget(held) == asked' = IF held \/ volume.st \in {"deleting", "gone"} THEN None ELSE asked
RemoveEntryFirst(held) == \* slip: a failed write leaves the row without its entry
    \/ stored' = None /\ attempts' = None /\ Forget(held) /\ UNCHANGED faults
    \/ attempts' = None /\ faults < MaxFaults /\ faults' = faults + 1 /\ UNCHANGED <<stored, asked>>
RemoveAttempt(held) ==
    \/ stored' = None /\ attempts' = None /\ Forget(held) /\ UNCHANGED faults
    \/ attempts # None /\ faults < MaxFaults /\ faults' = faults + 1 /\ UNCHANGED <<stored, attempts, asked>>
KeepAttempt == UNCHANGED <<stored, attempts, asked, faults>>

\* The first half of lockVolumeOwners: the rows that refer to the volume.
ListOwners ==
    /\ sweep.pc \in {"held", "request"}
    /\ sweep' = [pc |-> IF sweep.pc = "held" THEN "check" ELSE "lock", seen |-> sweep.seen, since |-> sweep.since,
                 due |-> sweep.due, ago |-> sweep.ago, listed |-> owners, rows |-> heldBy \cap owners]
    /\ UNCHANGED <<volume, owners, heldBy, loaded, crashes>> /\ KeepAttempt

\* The second half: each owner is locked and its row read again.
HeldWhenListed(listed, rows) == rows # {} \* slip: the rows of the list are looked at
Held(listed, rows) == listed \cap heldBy # {}

\* volumeGCHeld, with skipHeldVolumeGC.
VolumeGCHeld ==
    /\ sweep.pc = "check"
    /\ IF Held(sweep.listed, sweep.rows) THEN Rest /\ IF attempts # None THEN RemoveAttempt(TRUE) ELSE KeepAttempt
       ELSE KeepAttempt /\ sweep' = [sweep EXCEPT !.pc = "act"]
    /\ UNCHANGED <<volume, owners, heldBy, loaded, crashes>>

\* An attempt is repeated for a volume that is still there and still stale.
RetryUnlessAccepted(v) == \* slip: an accepted request is never repeated
    v.st = "created" /\ Candidate(v) /\ sweep.due /\ ~attempts.accepted
Retry(v) == v.st = "created" /\ Candidate(v) /\ sweep.due

\* What reconcileVolumeGCAttempt does with a volume it was shown.
Reconcile(v) ==
    IF v.st \in DeletionStates THEN RemoveAttempt(FALSE) /\ Rest
    ELSE /\ KeepAttempt
         /\ IF Retry(v)
            THEN sweep' = [sweep EXCEPT !.pc = "request", !.seen = v] ELSE Rest

\* An attempt whose volume the inventory has.
ReconcileVolumeGCAttempt ==
    /\ sweep.pc = "act" /\ attempts # None /\ sweep.seen # None /\ Reconcile(sweep.seen)
    /\ UNCHANGED <<volume, owners, heldBy, loaded, crashes>>

\* verifyMissingVolumeGCAttempt asks for the volume itself before it believes
\* the inventory.
MissingIsGone == RemoveAttempt(FALSE) /\ Rest \* slip: missing from the inventory is taken for absent
VerifyMissing ==
    \/ volume.st = "gone" /\ RemoveAttempt(FALSE) /\ Rest
    \/ volume.st # "gone" /\ Reconcile(volume)
    \/ KeepAttempt /\ Rest
VerifyMissingVolumeGCAttempt ==
    /\ sweep.pc = "act" /\ attempts # None /\ sweep.seen = None /\ VerifyMissing
    /\ UNCHANGED <<volume, owners, heldBy, loaded, crashes>>

\* A candidate without an attempt.
FirstRequest ==
    /\ sweep.pc = "act" /\ attempts = None
    /\ IF sweep.seen.st = "created" THEN sweep' = [sweep EXCEPT !.pc = "request"] ELSE Rest
    /\ UNCHANGED <<volume, owners, heldBy, loaded, crashes>> /\ KeepAttempt

\* requestStaleVolumeDestruction: the owners are listed and locked again.
LockOwners ==
    /\ sweep.pc = "lock"
    /\ IF Held(sweep.listed, sweep.rows)
       THEN /\ Rest /\ IF attempts # None THEN RemoveAttempt(TRUE) ELSE KeepAttempt
       ELSE KeepAttempt /\ sweep' = [sweep EXCEPT !.pc = "persist"]
    /\ UNCHANGED <<volume, owners, heldBy, loaded, crashes>>

\* The attempt is written before the request is sent.  The wait runs from the
\* time of the sweep.
Requests == IF attempts = None THEN 1 ELSE AtMost(attempts.n + 1)
NextAttempt == [n |-> Requests, wait |-> Less(BackoffOf(Requests), sweep.since), accepted |-> FALSE]
PersistBeforeSend == attempts' = NextAttempt /\ stored' = NextAttempt
PersistVolumeGCAttempt ==
    /\ sweep.pc = "persist"
    /\ \/ PersistBeforeSend /\ sweep' = [sweep EXCEPT !.pc = "send"] /\ UNCHANGED faults
       \/ faults < MaxFaults /\ faults' = faults + 1 /\ Rest /\ UNCHANGED <<stored, attempts>>
    /\ UNCHANGED <<volume, owners, heldBy, loaded, asked, crashes>>

\* DestroyVolume answers that the volume is gone, that the request is accepted,
\* or an error; an accepted or failed request may or may not take effect.
Ask == asked' = [n |-> attempts.n, ago |-> sweep.since]
Accepted == [attempts EXCEPT !.accepted = TRUE]
DestroyVolume ==
    /\ sweep.pc = "send" /\ Rest
    /\ \/ volume.st = "gone" /\ RemoveAttempt(FALSE) /\ UNCHANGED volume
       \/ /\ volume.st # "gone" /\ Ask
          /\ \E st \in {volume.st, "deleting"} : volume' = [volume EXCEPT !.st = st]
          /\ \/ UNCHANGED <<stored, attempts, faults>>
             \/ attempts' = Accepted /\ stored' = Accepted /\ UNCHANGED faults
             \/ attempts' = Accepted /\ UNCHANGED stored /\ faults < MaxFaults /\ faults' = faults + 1
    /\ UNCHANGED <<owners, heldBy, loaded, crashes>>

Sweep == \/ Begin \/ ListOwners \/ VolumeGCHeld \/ ReconcileVolumeGCAttempt \/ VerifyMissingVolumeGCAttempt
         \/ FirstRequest \/ LockOwners \/ PersistVolumeGCAttempt \/ DestroyVolume

(***************************************************************************)
(* Everything else.                                                        *)
(***************************************************************************)
Quiet == UNCHANGED <<stored, attempts, loaded, sweep, asked, faults, crashes>>

\* HoldWorkerEvidence and ReleaseWorkerEvidenceHold, under the worker's lock.
HoldOrRelease(w) ==
    /\ ~Locked(w)
    /\ heldBy' = IF w \in heldBy THEN heldBy \ {w} ELSE heldBy \union {w}
    /\ UNCHANGED <<volume, owners>> /\ Quiet

\* A worker's row begins or ceases to refer to the volume (UpdateWorkerMachine,
\* UpdateWorkerVolume), under its lock.
Refer(w) ==
    /\ ~Locked(w)
    /\ owners' = IF w \in owners THEN owners \ {w} ELSE owners \union {w}
    /\ UNCHANGED <<volume, heldBy>> /\ Quiet

\* The provider: a machine takes or leaves the volume, its state changes, the
\* deletion is carried out, it gets older than the time to live.
Provider ==
    /\ volume.st # "gone"
    /\ \E v \in [st : {"created", "other", "deleting", "gone"}, attached : BOOLEAN, old : BOOLEAN] :
          /\ volume.old => v.old
          /\ IF volume.st = "deleting" THEN v = [volume EXCEPT !.st = "gone"]
             ELSE v.st \in {"created", "other"} /\ v # volume
          /\ volume' = v
    /\ UNCHANGED <<owners, heldBy>> /\ Quiet

Passes(a) == IF a = None THEN a ELSE [a EXCEPT !.wait = Less(@, 1)]
Tick ==
    /\ stored' = Passes(stored) /\ attempts' = Passes(attempts)
    /\ asked' = IF asked = None THEN None ELSE [asked EXCEPT !.ago = AtMost(@ + 1)]
    /\ sweep' = IF sweep.pc = "idle" THEN sweep ELSE [sweep EXCEPT !.since = AtMost(@ + 1)]
    /\ UNCHANGED <<volume, owners, heldBy, loaded, faults, crashes>>

Restart ==
    /\ crashes < MaxCrashes /\ crashes' = crashes + 1
    /\ attempts' = None /\ loaded' = FALSE /\ Rest
    /\ UNCHANGED <<volume, owners, heldBy, stored, asked, faults>>

VInit ==
    /\ volume = [st |-> "created", attached |-> FALSE, old |-> FALSE]
    /\ owners \in SUBSET Workers /\ heldBy = {}
    /\ stored = None /\ attempts = None /\ loaded = FALSE
    /\ sweep = Idle /\ asked = None /\ faults = 0 /\ crashes = 0

VNext ==
    \/ Sweep \/ Provider \/ Tick \/ Restart
    \/ \E w \in Workers : HoldOrRelease(w) \/ Refer(w)

\* RunVolumeInventoryMonitor sweeps again and again; the inventory does not lack
\* the volume for ever and not every request is lost.
VolumeListed == Begin /\ sweep'.seen # None
RequestAccepted == DestroyVolume /\ volume'.st = "deleting"

(***************************************************************************)
(* Properties.                                                             *)
(***************************************************************************)
\* removeVolumeGCAttempt and its like: what is in memory is what was stored, except
\* that an acceptance may not have been, so that a restart goes on from the same count and wait.
AttemptsCurrent ==
    /\ loaded => (stored = None <=> attempts = None)
    /\ loaded /\ stored # None => [stored EXCEPT !.accepted = TRUE] = [attempts EXCEPT !.accepted = TRUE]

\* lockVolumeOwners: no destroy request is sent while a worker that was found to
\* refer to the volume is under an evidence hold, although the hold may have come
\* after the first look or after the list of owners.
HoldsRespected == sweep.pc = "send" => sweep.listed \cap heldBy = {}

\* volumeGCRetryBackoff: two requests for the same attempt are sent by sweeps at
\* least the backoff apart, across restarts and failed writes as well.
BackedOff == DestroyVolume /\ volume.st # "gone" /\ asked # None => sweep.ago >= BackoffOf(asked.n)

\* RunVolumeInventoryMonitor: a volume nothing uses, old enough and without a hold, does not stay, although requests are
\* lost or accepted without effect and the control plane restarts.
Garbage == volume.st = "created" /\ Candidate(volume) /\ heldBy = {}

-----------------------------------------------------------------------------
(* No volume of a held worker is asked to be destroyed, for any workers, waits, *)
(* failed writes and restarts.                                                 *)

VSpec == VInit /\ [][VNext]_vvars

\* From the list of the owners to the request the sweep carries the list; once the
\* owners are locked none of them is held.
HoldInv ==
    /\ sweep.pc \in {"idle", "held", "check", "act", "request", "lock", "persist", "send"}
    /\ sweep = [x \in DOMAIN sweep |-> sweep[x]] /\ "pc" \in DOMAIN sweep
    /\ sweep.pc \in {"lock", "persist", "send"} => "listed" \in DOMAIN sweep
    /\ sweep.pc \in {"persist", "send"} => sweep.listed \cap heldBy = {}

LEMMA HoldInit == VInit => HoldInv
  BY DEF VInit, HoldInv, Idle

\* The sweep ends, or goes on with the list it has.
LEMMA SweepKeeps ==
    ASSUME HoldInv, NEW p \in {"check", "act", "request", "lock", "persist", "send"},
           sweep' = [sweep EXCEPT !.pc = p], heldBy' = heldBy,
           p \in {"lock", "persist", "send"} => "listed" \in DOMAIN sweep,
           p \in {"persist", "send"} => sweep.listed \cap heldBy = {}
    PROVE  HoldInv'
  BY DEF HoldInv

LEMMA SweepRests == ASSUME Rest PROVE HoldInv'
  BY DEF Rest, Idle, HoldInv

LEMMA HoldStep == HoldInv /\ [VNext]_vvars => HoldInv'
<1> SUFFICES ASSUME HoldInv, [VNext]_vvars PROVE HoldInv'
  OBVIOUS
<1>1. CASE Begin
  BY <1>1 DEF Begin, HoldInv
<1>2. CASE ListOwners
  BY <1>2 DEF ListOwners, HoldInv
<1>3. CASE VolumeGCHeld
  BY <1>3, SweepRests, SweepKeeps DEF VolumeGCHeld
<1>4. ASSUME NEW v, Reconcile(v), heldBy' = heldBy PROVE HoldInv'
  <2>1. CASE Rest
    BY <2>1, SweepRests
  <2>2. CASE sweep' = [sweep EXCEPT !.pc = "request", !.seen = v]
    BY <1>4, <2>2 DEF HoldInv
  <2> QED
    BY <1>4, <2>1, <2>2 DEF Reconcile
<1>5. CASE ReconcileVolumeGCAttempt
  BY <1>4, <1>5 DEF ReconcileVolumeGCAttempt
<1>6. CASE VerifyMissingVolumeGCAttempt
  BY <1>4, <1>6, SweepRests DEF VerifyMissingVolumeGCAttempt, VerifyMissing
<1>7. CASE FirstRequest
  BY <1>7, SweepRests, SweepKeeps DEF FirstRequest
\* The holds are looked at again under the owners' locks.
<1>8. CASE LockOwners
  <2>1. CASE Held(sweep.listed, sweep.rows)
    BY <1>8, <2>1, SweepRests DEF LockOwners
  <2>2. CASE ~Held(sweep.listed, sweep.rows)
    BY <1>8, <2>2, SweepKeeps DEF LockOwners, Held, HoldInv
  <2> QED
    BY <2>1, <2>2
<1>9. CASE PersistVolumeGCAttempt
  <2>1. CASE sweep' = [sweep EXCEPT !.pc = "send"]
    BY <1>9, <2>1, SweepKeeps DEF PersistVolumeGCAttempt, HoldInv
  <2>2. CASE Rest
    BY <2>2, SweepRests
  <2> QED
    BY <1>9, <2>1, <2>2 DEF PersistVolumeGCAttempt
<1>10. CASE DestroyVolume
  BY <1>10, SweepRests DEF DestroyVolume
\* A hold waits for the lock of the worker it is about.
<1>11. ASSUME NEW w \in Workers, HoldOrRelease(w) PROVE HoldInv'
  BY <1>11 DEF HoldOrRelease, Quiet, Locked, HoldInv
<1>12. ASSUME NEW w \in Workers, Refer(w) PROVE HoldInv'
  BY <1>12 DEF Refer, Quiet, HoldInv
<1>13. CASE Provider
  BY <1>13 DEF Provider, Quiet, HoldInv
<1>14. CASE Tick
  <2>1. CASE sweep' = sweep
    BY <1>14, <2>1 DEF Tick, HoldInv
  <2>2. CASE sweep' = [sweep EXCEPT !.since = AtMost(@ + 1)]
    BY <1>14, <2>2 DEF Tick, HoldInv
  <2> QED
    BY <1>14, <2>1, <2>2 DEF Tick
<1>15. CASE Restart
  BY <1>15, SweepRests DEF Restart
<1>16. CASE UNCHANGED vvars
  BY <1>16 DEF vvars, HoldInv
<1> QED
  BY <1>1, <1>2, <1>3, <1>5, <1>6, <1>7, <1>8, <1>9, <1>10, <1>11, <1>12, <1>13, <1>14, <1>15, <1>16 DEF VNext, Sweep

\* lockVolumeOwners: no destroy request is sent while a worker that was found to refer
\* to the volume is under an evidence hold.
THEOREM HeldVolumesKept == VSpec => []HoldsRespected
<1>1. HoldInv => HoldsRespected
  BY DEF HoldInv, HoldsRespected
<1> QED
  BY <1>1, HoldInit, HoldStep, PTL DEF VSpec
=============================================================================
