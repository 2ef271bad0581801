----------------------------- MODULE FleetAlert -----------------------------
(***************************************************************************)
(* The alert for a source all of whose workers are dormant                 *)
(* (internal/orchestrator/lifecycle.go, alerts.go, model/alerts.go): a loop *)
(* opens and resolves the condition of a dormancy epoch, each epoch has one *)
(* row and one delivery, and a resumed worker resolves the condition as     *)
(* well.  The loop holds the source lock; pauses and the operator's resume  *)
(* do not take it.                                                         *)
(***************************************************************************)
EXTENDS Naturals, FiniteSets, FiniteSetTheorems, TLAPS

CONSTANTS Workers, MaxTime, Threshold, MaxCrashes

VARIABLES
    time,
    fleet,      \* rows of workers: [st, at, vol]
    alerts,     \* epoch -> its row of alerts: [cond, status]
    watch,      \* evaluateDormantFleetAlertLocked
    waking,     \* a resumed worker whose condition is not resolved yet
    posting,    \* goroutines about to deliver
    posts,      \* history: deliveries per epoch
    crashes

avars == <<time, fleet, alerts, watch, waking, posting, posts, crashes>>

Epochs == 1..MaxTime
Idle == [pc |-> "idle"]
Active == {e \in Epochs : alerts[e].cond = "active"}
ResolveActive(rows) == [e \in Epochs |-> IF rows[e].cond = "active" THEN [rows[e] EXCEPT !.cond = "resolved"] ELSE rows[e]]

\* fullyDormantFleetEpoch: the last of them to become dormant, or 0.
LiveOf(rows, ws) == {w \in ws : rows[w].st # "stopped"}
Epoch(rows, ws) ==
    LET live == LiveOf(rows, ws) IN
    IF live = {} \/ \E w \in live : rows[w].st # "dormant" THEN 0
    ELSE CHOOSE t \in {rows[w].at : w \in live} : \A w \in live : rows[w].at <= t

\* evaluateDormantFleetAlertLocked up to the epoch.  resumableWorkers drops the
\* workers without a volume in a list that may be out of date, and keeps all of
\* them when there is no list.
Evaluate ==
    /\ watch.pc = "idle" /\ (Active # {} \/ \E w \in Workers : fleet[w].st # "stopped")
    /\ \E lost \in SUBSET {w \in Workers : ~fleet[w].vol} :
          watch' = [pc |-> "resolve", now |-> time, epoch |-> Epoch(fleet, Workers \ lost)]
    /\ UNCHANGED <<time, fleet, alerts, waking, posting, posts, crashes>>

\* A condition of another epoch, or of none, is resolved.
ResolvedIfAwake(epoch) == IF epoch = 0 THEN ResolveActive(alerts) ELSE alerts \* slip: the epoch is not compared
ResolvedIfDormant(epoch) == IF epoch # 0 /\ epoch \notin Active THEN ResolveActive(alerts) ELSE alerts \* slip: an awake fleet returns early
Resolved(epoch) == IF epoch \notin Active THEN ResolveActive(alerts) ELSE alerts
ResolveStale ==
    /\ watch.pc = "resolve"
    /\ alerts' = Resolved(watch.epoch)
    /\ watch' = IF watch.epoch = 0 \/ watch.epoch \in Active \/ watch.now < watch.epoch + Threshold
                THEN Idle ELSE [watch EXCEPT !.pc = "create"]
    /\ UNCHANGED <<time, fleet, waking, posting, posts, crashes>>

\* NotifyFleetFullyDormant and CreateAlert: INSERT OR IGNORE by fingerprint, so
\* an epoch that has a row gets no second one and no second delivery.
PostAlways(epoch) == posting' = posting \union {epoch} \* slip: created is not looked at
PostCreated(epoch) == posting' = IF alerts[epoch].cond = "none" THEN posting \union {epoch} ELSE posting
NotifyFleetFullyDormant ==
    /\ watch.pc = "create" /\ watch' = Idle
    /\ alerts' = [alerts EXCEPT ![watch.epoch] = IF @.cond = "none" THEN [cond |-> "active", status |-> "pending"] ELSE @]
    /\ PostCreated(watch.epoch)
    /\ UNCHANGED <<time, fleet, waking, posts, crashes>>

\* deploymentBuildInFlight, or an error: nothing is created this time.
SkipNotify ==
    /\ watch.pc = "create" /\ watch' = Idle
    /\ UNCHANGED <<time, fleet, alerts, waking, posting, posts, crashes>>

\* sendAlert: one POST, and its outcome recorded.
SendAlert(e) ==
    /\ e \in posting /\ posting' = posting \ {e}
    /\ posts' = [posts EXCEPT ![e] = @ + 1]
    /\ \E s \in {"sent", "failed"} : alerts' = [alerts EXCEPT ![e].status = s]
    /\ UNCHANGED <<time, fleet, watch, waking, crashes>>

(***************************************************************************)
(* The fleet.                                                              *)
(***************************************************************************)
\* MarkWorkerDormant.
Pause(w) ==
    /\ fleet[w].st = "awake"
    /\ fleet' = [fleet EXCEPT ![w].st = "dormant", ![w].at = time]
    /\ UNCHANGED <<time, alerts, watch, waking, posting, posts, crashes>>

\* resumeDormantWorkerLocked: MarkWorkerProbing, then resolveDormantFleetCondition.
Resume(w) ==
    /\ fleet[w].st = "dormant" /\ fleet[w].vol /\ waking = {}
    /\ fleet' = [fleet EXCEPT ![w].st = "awake", ![w].at = 0]
    /\ waking' = {w}
    /\ UNCHANGED <<time, alerts, watch, posting, posts, crashes>>
ResolveDormantFleetCondition ==
    /\ waking # {} /\ waking' = {}
    /\ alerts' = ResolveActive(alerts)
    /\ UNCHANGED <<time, fleet, watch, posting, posts, crashes>>

\* StopWorker, DestroyWorker and a replacement; the volume may go at any time.
Move(w) ==
    /\ fleet' = [fleet EXCEPT ![w] =
          IF @.st = "stopped" THEN [st |-> "awake", at |-> 0, vol |-> TRUE] ELSE [@ EXCEPT !.st = "stopped", !.at = 0]]
    /\ UNCHANGED <<time, alerts, watch, waking, posting, posts, crashes>>
LoseVolume(w) ==
    /\ fleet[w].vol /\ fleet' = [fleet EXCEPT ![w].vol = FALSE]
    /\ UNCHANGED <<time, alerts, watch, waking, posting, posts, crashes>>

Tick == time < MaxTime /\ time' = time + 1 /\ UNCHANGED <<fleet, alerts, watch, waking, posting, posts, crashes>>

Restart ==
    /\ crashes < MaxCrashes /\ crashes' = crashes + 1
    /\ watch' = Idle /\ waking' = {} /\ posting' = {}
    /\ UNCHANGED <<time, fleet, alerts, posts>>

AInit ==
    /\ time = 1 /\ watch = Idle /\ waking = {} /\ posting = {} /\ crashes = 0
    /\ fleet = [w \in Workers |-> [st |-> "awake", at |-> 0, vol |-> TRUE]]
    /\ alerts = [e \in Epochs |-> [cond |-> "none", status |-> "none"]]
    /\ posts = [e \in Epochs |-> 0]

Loop == Evaluate \/ ResolveStale \/ NotifyFleetFullyDormant \/ SkipNotify
ANext ==
    \/ Loop \/ ResolveDormantFleetCondition \/ Tick \/ Restart
    \/ \E e \in Epochs : SendAlert(e)
    \/ \E w \in Workers : Pause(w) \/ Resume(w) \/ Move(w) \/ LoseVolume(w)

\* evaluateDormantFleetAlertLocked: a source has at most one active condition, whatever epochs followed one another.
OneCondition == Cardinality(Active) <= 1

\* NotifyFleetFullyDormant: an epoch is delivered at most once, across restarts and repeated evaluations.
PostedOnce == \A e \in Epochs : posts[e] <= 1

\* evaluateDormantFleetAlert: when a worker wakes and stays awake the condition is resolved in the end, whoever woke it
\* and whatever restart lost the resolution.
Awake(w) == fleet[w].st = "awake" /\ fleet[w].vol
QuietSource == Active = {}

-----------------------------------------------------------------------------
(* One active condition and one delivery of an epoch, for any fleet, any number *)
(* of epochs and of restarts.                                                   *)

ASpec == AInit /\ [][ANext]_avars

Alert == [cond : {"none", "active", "resolved"}, status : {"none", "pending", "sent", "failed"}]

AlertsOK == alerts \in [Epochs -> Alert] /\ posts \in [Epochs -> Nat] /\ "pc" \in DOMAIN watch

\* A delivery is on its way only for an epoch that has a row and was not delivered.
Deliveries ==
    \A e \in Epochs : /\ e \in posting => posts[e] = 0 /\ alerts[e].cond # "none"
                      /\ posts[e] # 0 => alerts[e].cond # "none"
                      /\ posts[e] <= 1

\* A row is created when every other condition was resolved: nobody else creates one meanwhile.
Single ==
    /\ \A e, f \in Active : e = f
    /\ watch.pc = "create" => Active = {}

AlertInv == AlertsOK /\ Deliveries /\ Single

LEMMA AlertInit == ASSUME AInit PROVE AlertInv
  BY DEF AInit, AlertInv, AlertsOK, Deliveries, Single, Active, Alert, Idle

LEMMA ResolveActiveResolves ==
    ASSUME AlertsOK, alerts' = ResolveActive(alerts)
    PROVE  /\ alerts' \in [Epochs -> Alert] /\ Active' = {}
           /\ \A e \in Epochs : alerts[e].cond # "none" => alerts'[e].cond # "none"
<1>1. \A e \in Epochs : /\ alerts[e] \in Alert /\ [alerts[e] EXCEPT !.cond = "resolved"] \in Alert
                        /\ [alerts[e] EXCEPT !.cond = "resolved"].cond = "resolved"
  BY DEF AlertsOK, Alert
<1>2. \A e \in Epochs : alerts'[e] = IF alerts[e].cond = "active" THEN [alerts[e] EXCEPT !.cond = "resolved"] ELSE alerts[e]
  BY DEF ResolveActive
<1>3. alerts' \in [Epochs -> Alert]
  BY <1>1 DEF ResolveActive
<1> QED
  BY <1>1, <1>2, <1>3 DEF Active

LEMMA AlertStep == ASSUME AlertInv, [ANext]_avars PROVE AlertInv'
<1> USE DEF AlertInv
<1>0. \A e \in Epochs : alerts[e] \in Alert
  BY DEF AlertsOK
\* The rows and deliveries as they were.
<1>s. ASSUME UNCHANGED <<alerts, posting, posts>>, "pc" \in DOMAIN watch', watch'.pc = "create" => watch.pc = "create"
      PROVE  AlertInv'
  BY <1>s DEF AlertsOK, Deliveries, Single, Active
<1>1. CASE Evaluate
  <2>1. UNCHANGED <<alerts, posting, posts>> /\ "pc" \in DOMAIN watch' /\ watch'.pc = "resolve"
    BY <1>1 DEF Evaluate
  <2> QED
    BY <1>s, <2>1
<1>2. CASE ResolveStale
  <2>1. UNCHANGED <<posting, posts>> /\ watch' \in {Idle, [watch EXCEPT !.pc = "create"]}
    BY <1>2 DEF ResolveStale
  <2>2. "pc" \in DOMAIN watch'
    BY <2>1 DEF Idle, AlertsOK
  <2>3. CASE alerts' = ResolveActive(alerts)
    <3>1. alerts' \in [Epochs -> Alert] /\ Active' = {} /\ \A e \in Epochs : alerts[e].cond # "none" => alerts'[e].cond # "none"
      BY <2>3, ResolveActiveResolves
    <3> QED
      BY <2>1, <2>2, <3>1 DEF AlertsOK, Deliveries, Single
  <2>4. CASE watch.epoch \in Active /\ alerts' = alerts
    <3>1. watch' = Idle
      BY <1>2, <2>4 DEF ResolveStale
    <3> QED
      BY <1>s, <2>1, <2>2, <2>4, <3>1 DEF Idle
  <2> QED
    BY <1>2, <2>3, <2>4 DEF ResolveStale, Resolved
<1>3. CASE NotifyFleetFullyDormant
  <2> DEFINE x == watch.epoch
  <2>1. watch.pc = "create" /\ watch' = Idle /\ posts' = posts /\ Active = {}
    BY <1>3 DEF NotifyFleetFullyDormant, Single
  <2>2. PICK row \in {alerts[x], [cond |-> "active", status |-> "pending"]} :
           /\ alerts' = [alerts EXCEPT ![x] = row]
           /\ alerts[x].cond # "none" => row = alerts[x]
           /\ alerts[x].cond = "none" => row.cond = "active"
    BY <1>3 DEF NotifyFleetFullyDormant
  <2>3. x \in Epochs => row \in Alert
    BY <1>0, <2>2 DEF Alert
  <2>4. alerts' \in [Epochs -> Alert] /\ \A e \in Epochs : alerts'[e] = IF e = x THEN row ELSE alerts[e]
    BY <2>2, <2>3 DEF AlertsOK
  <2>5. posting' \subseteq posting \union {x} /\ (x \in posting' => x \in posting \/ alerts[x].cond = "none")
    BY <1>3 DEF NotifyFleetFullyDormant, PostCreated
  <2>6. Deliveries'
    BY <2>1, <2>2, <2>4, <2>5 DEF Deliveries, AlertsOK
  <2>7. Active' \subseteq {x}
    BY <2>1, <2>4 DEF Active
  <2> QED
    BY <2>1, <2>4, <2>6, <2>7 DEF AlertsOK, Single, Idle
<1>4. ASSUME NEW e \in Epochs, SendAlert(e) PROVE AlertInv'
  <2>1. PICK st \in {"sent", "failed"} : alerts' = [alerts EXCEPT ![e].status = st]
    BY <1>4 DEF SendAlert
  <2>2. e \in posting /\ posting' = posting \ {e} /\ posts' = [posts EXCEPT ![e] = @ + 1] /\ watch' = watch
    BY <1>4 DEF SendAlert
  <2>3. [alerts[e] EXCEPT !.status = st] \in Alert /\ [alerts[e] EXCEPT !.status = st].cond = alerts[e].cond
    BY <1>0 DEF Alert
  <2>4. alerts' \in [Epochs -> Alert] /\ \A f \in Epochs : alerts'[f].cond = alerts[f].cond
    BY <2>1, <2>3 DEF AlertsOK
  <2>p. posts[e] = 0 /\ alerts[e].cond # "none" /\ posts \in [Epochs -> Nat]
    BY <2>2 DEF AlertsOK, Deliveries
  <2>a. posts' = [posts EXCEPT ![e] = 1] /\ posts' \in [Epochs -> Nat]
    BY <2>2, <2>p
  <2>b. AlertsOK'
    BY <2>2, <2>4, <2>a DEF AlertsOK
  <2>5. Deliveries'
    <3> SUFFICES ASSUME NEW f \in Epochs
                 PROVE  /\ f \in posting' => posts'[f] = 0 /\ alerts'[f].cond # "none"
                        /\ posts'[f] # 0 => alerts'[f].cond # "none"
                        /\ posts'[f] <= 1
      BY DEF Deliveries
    <3>1. CASE f = e
      BY <2>2, <2>4, <2>p, <2>a, <3>1
    <3>2. CASE f # e
      BY <2>2, <2>4, <2>p, <2>a, <3>2 DEF Deliveries
    <3> QED
      BY <3>1, <3>2
  <2> QED
    BY <2>2, <2>4, <2>b, <2>5 DEF Single, Active
<1>5. CASE ResolveDormantFleetCondition
  <2>1. alerts' = ResolveActive(alerts) /\ UNCHANGED <<watch, posting, posts>>
    BY <1>5 DEF ResolveDormantFleetCondition
  <2> QED
    BY <2>1, ResolveActiveResolves DEF AlertsOK, Deliveries, Single
<1>6. CASE Restart
  <2>1. UNCHANGED <<alerts, posts>> /\ watch' = Idle /\ posting' = {}
    BY <1>6 DEF Restart
  <2> QED
    BY <2>1 DEF AlertsOK, Deliveries, Single, Active, Idle
<1>7. CASE SkipNotify
  BY <1>7, <1>s DEF SkipNotify, Idle
<1>8. CASE Tick \/ (\E w \in Workers : Pause(w) \/ Resume(w) \/ Move(w) \/ LoseVolume(w)) \/ UNCHANGED avars
  <2>1. UNCHANGED <<alerts, posting, posts, watch>>
    BY <1>8 DEF Tick, Pause, Resume, Move, LoseVolume, avars
  <2> QED
    BY <1>s, <2>1 DEF AlertsOK
<1> QED
  BY <1>1, <1>2, <1>3, <1>4, <1>5, <1>6, <1>7, <1>8 DEF ANext, Loop

LEMMA AlertAlways == ASpec => []AlertInv
  BY AlertInit, AlertStep, PTL DEF ASpec

\* evaluateDormantFleetAlertLocked: never two active conditions of a source, although the
\* resume of a worker resolves without the loop and the fleet changes while the loop decides.
THEOREM OneConditionAlways == ASpec => []OneCondition
<1>1. ASSUME AlertInv PROVE OneCondition
  <2>1. CASE Active = {}
    BY <2>1, FS_EmptySet DEF OneCondition
  <2>2. CASE Active # {}
    <3>1. PICK e \in Active : Active = {e}
      BY <1>1, <2>2 DEF AlertInv, Single
    <3> QED
      BY <3>1, FS_Singleton DEF OneCondition
  <2> QED
    BY <2>1, <2>2
<1>2. AlertInv => OneCondition
  BY <1>1
<1> QED
  BY <1>2, AlertAlways, PTL

\* NotifyFleetFullyDormant: a dormancy epoch is delivered at most once, whatever restarts and
\* evaluations of the same epoch there are.
THEOREM PostedOnceAlways == ASpec => []PostedOnce
<1>1. AlertInv => PostedOnce
  BY DEF AlertInv, Deliveries, PostedOnce
<1> QED
  BY <1>1, AlertAlways, PTL
=============================================================================
