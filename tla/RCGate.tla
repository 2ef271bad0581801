------------------------------- MODULE RCGate -------------------------------
(***************************************************************************)
(* Release-candidate gates (internal/orchestrator/rc_gate.go): a gate pairs *)
(* a candidate source with a baseline source, pins one build per side,      *)
(* waits for both fleets, runs until its expiry (one profile through a tail *)
(* after it) and is closed by the gate loop, which destroys its workers.    *)
(* Registrations, deployment notifications, rollouts, operator actions and  *)
(* the loop interleave; the lock of a source orders provisioning and        *)
(* teardown of that source only.                                            *)
(*                                                                         *)
(* A build is <<git SHA, image>>.  What Provisioning details is one step    *)
(* here, and "up" is any status of a worker that is neither running nor     *)
(* dormant nor stopped.  Time is a counter; created_at and started_at are   *)
(* compared by the order of the two writes.  The verdict is left out.       *)
(***************************************************************************)
EXTENDS Naturals, Sequences, FiniteSets, SequenceTheorems, TLAPS

CONSTANTS
    Requests,          \* gates that may be asked for: [sources, profiles, dur, tail]
    Stress,            \* the one a tail keeps
    Builds,            \* pairs <<git, image>>
    Features,          \* of "roll", "dormant", "hold"
    ProvisionTimeout, TailDuration,
    MaxGates, MaxStart, MaxTime, MaxCalls, MaxFailures, MaxCrashes

VARIABLES
    clock,
    gates,      \* rows of rc_gates
    deps,       \* per source, the build of its latest ready deployment
    call,       \* a notification between its read of the gate and its record
    pending,    \* per source, the build of a recorded deployment not rolled out
    task,       \* the sources whose rollout has a goroutine waiting for the lock
    roll,       \* per source, the profiles a rollout has still to visit
    workers,    \* rows of workers
    eval,       \* the gate loop
    calls, failures, crashes

gvars == <<clock, gates, deps, call, pending, task, roll, workers, eval, calls, failures, crashes>>

Sources == UNION {r.sources : r \in Requests}
Profiles == UNION {r.profiles : r \in Requests}
None == <<>>
Time == 0..MaxTime
Slots == Sources \X Profiles

Closed(g) == g.status \in {"completed", "aborted"}
ExpiresAt(g) == g.start + g.req.dur
TailExpiresAt(g) == g.start + TailDuration
ProvisionDeadline(g) == g.start + ProvisionTimeout
OpenGates == {i \in DOMAIN gates : ~Closed(gates[i])}
ActiveFor(s) == {i \in OpenGates : s \in gates[i].req.sources}

\* RegisterRCGate and CreateRCGate: no second open gate on either source.
OverlappingPair(r) == \* slip: only a gate of the same pair is looked for
    \E i \in OpenGates : gates[i].req.sources = r.sources
Overlapping(r) == \E i \in OpenGates : gates[i].req.sources \cap r.sources # {}
RegisterRCGate(r) ==
    /\ Len(gates) < MaxGates /\ clock <= MaxStart /\ ~Overlapping(r)
    /\ gates' = Append(gates,
          [req |-> r, status |-> "running", start |-> clock, paired |-> FALSE,
           pin |-> [s \in r.sources |-> None], ready |-> [s \in r.sources |-> None]])
    /\ UNCHANGED <<clock, deps, call, pending, task, roll, workers, eval, calls, failures, crashes>>

(***************************************************************************)
(* Provisioning checks.                                                    *)
(***************************************************************************)
\* rcGateProfileWindow and rcGateProfilePermitted.
Window(g, p) == IF g.req.tail /\ p = Stress THEN TailExpiresAt(g) ELSE ExpiresAt(g)
PermittedUntilExpiry(g, p, t) == \* slip: the launch deadline of an unpaired gate is not looked at
    p \in g.req.profiles /\ (g.status = "running" \/ (g.status = "tail" /\ p = Stress)) /\ t < Window(g, p)
Permitted(g, p, t) ==
    /\ p \in g.req.profiles
    /\ g.status = "running" \/ (g.status = "tail" /\ p = Stress)
    /\ t < Window(g, p)
    /\ g.paired \/ t < ProvisionDeadline(g)

\* checkRCGateProvisioning.
Provisioning(s, p, b) ==
    \E i \in ActiveFor(s) : Permitted(gates[i], p, clock) /\ gates[i].pin[s] = b

(***************************************************************************)
(* A deployment of a gate source becomes ready.                            *)
(***************************************************************************)
\* pinRCGateDeployment, up to its conditional update.
ReadGate(s, b) ==
    /\ call = None /\ calls < MaxCalls
    /\ \E i \in ActiveFor(s) :
          LET g == gates[i] IN
          /\ g.pin[s] # None \/ (g.status = "running" /\ clock < ProvisionDeadline(g))
          /\ call' = [s |-> s, b |-> b, i |-> i, got |-> None]
    /\ calls' = calls + 1
    /\ UNCHANGED <<clock, gates, deps, pending, task, roll, workers, eval, failures, crashes>>

\* PinRCGateBuildContext: the first pin of an open gate wins.
PinnedLast(g, s, b) == \* slip: the last notification wins
    IF Closed(g) THEN g.pin[s] ELSE b
Pinned(g, s, b) == IF g.pin[s] = None /\ ~Closed(g) THEN b ELSE g.pin[s]

\* A build of another commit than the pinned one is refused.
PinRCGateBuild ==
    /\ call # None /\ call.got = None
    /\ LET b == Pinned(gates[call.i], call.s, call.b) IN
       /\ gates' = [gates EXCEPT ![call.i].pin[call.s] = b]
       /\ call' = IF b # None /\ b[1] = call.b[1] THEN [call EXCEPT !.got = b] ELSE None
    /\ UNCHANGED <<clock, deps, pending, task, roll, workers, eval, calls, failures, crashes>>

\* The rest of recordDeploymentReady: the deployment is recorded with the pinned image.
RecordReady ==
    /\ call # None /\ call.got # None
    /\ deps' = [deps EXCEPT ![call.s] = call.got] /\ pending' = [pending EXCEPT ![call.s] = call.got]
    /\ task' = task \union {call.s} /\ call' = None
    /\ UNCHANGED <<clock, gates, roll, workers, eval, calls, failures, crashes>>

(***************************************************************************)
(* Rollouts, under the lock of the source.                                 *)
(***************************************************************************)
\* rolloutDeploymentReady and rcGateFleetForSource: the profiles permitted now.
StartRollout(s) ==
    /\ s \in task /\ roll[s] = None /\ task' = task \ {s}
    /\ IF pending[s] = deps[s]
       THEN /\ roll' = [roll EXCEPT ![s] = [b |-> pending[s], failed |-> ActiveFor(s) = {},
                          todo |-> {p \in Profiles : \E i \in ActiveFor(s) : Permitted(gates[i], p, clock)}]]
            /\ UNCHANGED pending
       ELSE pending' = [pending EXCEPT ![s] = None] /\ UNCHANGED roll
    /\ UNCHANGED <<clock, gates, deps, call, workers, eval, calls, failures, crashes>>

Gone(w) == w.st \in {"absent", "stopped"} /\ ~w.held
NewWorker(w, b) == [w EXCEPT !.st = "up", !.since = Len(gates), !.b = b]

\* One worker of ensureFleetSpec: created, replaced, left alone or refused.
Satisfied(w, b) == w.held \/ (~Gone(w) /\ w.b = b)
EnsureWorker(s, p) ==
    /\ roll[s] # None /\ p \in roll[s].todo
    /\ LET b == roll[s].b
           w == workers[<<s, p>>]
           Put(v, err) == /\ workers' = [workers EXCEPT ![<<s, p>>] = v]
                          /\ roll' = [roll EXCEPT ![s].todo = @ \ {p}, ![s].failed = @ \/ err] IN
       \/ Satisfied(w, b) /\ Put(w, FALSE) /\ UNCHANGED failures
       \/ ~Satisfied(w, b) /\ ~Provisioning(s, p, b) /\ Put(w, TRUE) /\ UNCHANGED failures
       \/ ~Satisfied(w, b) /\ Provisioning(s, p, b) /\ Put(NewWorker(w, b), FALSE) /\ UNCHANGED failures
       \/ /\ ~Satisfied(w, b) /\ Provisioning(s, p, b) /\ failures < MaxFailures
          /\ Put(NewWorker(w, b), TRUE) /\ failures' = failures + 1
    /\ UNCHANGED <<clock, gates, deps, call, pending, task, eval, calls, crashes>>

\* The pending mark goes with a rollout without errors.
FinishRollout(s) ==
    /\ roll[s] # None /\ roll[s].todo = {}
    /\ roll' = [roll EXCEPT ![s] = None]
    /\ pending' = [pending EXCEPT ![s] = IF roll[s].failed THEN @ ELSE None]
    /\ UNCHANGED <<clock, gates, deps, call, task, workers, eval, calls, failures, crashes>>

\* RollWorker takes the lock of a gate source as well.
RollWorker(s, p) ==
    /\ "roll" \in Features /\ roll[s] = None /\ deps[s] # None /\ workers[<<s, p>>].st # "absent" /\ ~workers[<<s, p>>].held
    /\ Provisioning(s, p, deps[s])
    /\ workers' = [workers EXCEPT ![<<s, p>>] = NewWorker(@, deps[s])]
    /\ UNCHANGED <<clock, gates, deps, call, pending, task, roll, eval, calls, failures, crashes>>

\* ResumeDormantWorkers, which takes it too.
ResumeDormant(s, p) ==
    /\ roll[s] = None /\ deps[s] # None /\ workers[<<s, p>>].st = "dormant" /\ ~workers[<<s, p>>].held
    /\ Provisioning(s, p, deps[s])
    /\ workers' = [workers EXCEPT ![<<s, p>>].st = "up", ![<<s, p>>].b = deps[s]]
    /\ UNCHANGED <<clock, gates, deps, call, pending, task, roll, eval, calls, failures, crashes>>

(***************************************************************************)
(* Workers and operators.                                                  *)
(***************************************************************************)
WorkerMoves(s, p) ==
    /\ workers[<<s, p>>].st \in {"up", "running"}
    /\ \E st \in {"up", "running"} \union (Features \cap {"dormant"}) :
          workers' = [workers EXCEPT ![<<s, p>>].st = st]
    /\ UNCHANGED <<clock, gates, deps, call, pending, task, roll, eval, calls, failures, crashes>>

HoldEvidence(s, p) ==
    /\ "hold" \in Features /\ workers[<<s, p>>].st # "absent"
    /\ workers' = [workers EXCEPT ![<<s, p>>].held = ~@]
    /\ UNCHANGED <<clock, gates, deps, call, pending, task, roll, eval, calls, failures, crashes>>

(***************************************************************************)
(* The gate loop.                                                          *)
(***************************************************************************)
Idle == [pc |-> "idle"]
Without(rows, i) == [j \in DOMAIN rows \ {i} |-> rows[j]]

\* evaluateRCGates reads the clock and the open gates once.
ListGates ==
    /\ eval.pc = "idle" /\ OpenGates # {}
    /\ eval' = [pc |-> "gates", now |-> clock, rows |-> [i \in OpenGates |-> gates[i]]]
    /\ UNCHANGED <<clock, gates, deps, call, pending, task, roll, workers, calls, failures, crashes>>

\* rcGateSideReady: commits are compared, images are not.
SideReady(i, g, s) ==
    /\ g.pin[s] # None
    /\ \A p \in g.req.profiles :
          workers[<<s, p>>].st = "running" /\ workers[<<s, p>>].b[1] = g.pin[s][1] /\ workers[<<s, p>>].since >= i

ReadyAt(i, g, t) ==
    [s \in g.req.sources |-> IF g.ready[s] = None /\ SideReady(i, g, s) THEN <<t>> ELSE g.ready[s]]
Pairs(g, ready) ==
    \A s \in g.req.sources : ready[s] # None /\ ready[s][1] < ProvisionDeadline(g) /\ ready[s][1] < ExpiresAt(g)

\* What evaluateRCGate decides for a gate it has just brought up to date.
DecisionUnpairedTail(g, t) == \* slip: an expired gate enters its tail before the pair is looked at
    CASE g.status = "running" /\ t >= ExpiresAt(g) -> IF g.req.tail THEN "tail" ELSE "completed"
      [] g.status = "tail" /\ t >= TailExpiresAt(g) -> "completed"
      [] OTHER -> "wait"
DecisionNoAbort(g, t) == \* slip: a gate that is not paired waits for its sides
    CASE g.status = "running" /\ g.paired /\ t >= ExpiresAt(g) -> IF g.req.tail THEN "tail" ELSE "completed"
      [] g.status = "tail" /\ t >= TailExpiresAt(g) -> "completed"
      [] OTHER -> "wait"
Decision(g, t) ==
    CASE g.status = "running" /\ ~g.paired /\ (t >= ProvisionDeadline(g) \/ t >= ExpiresAt(g)) -> "aborted"
      [] g.status = "running" /\ g.paired /\ t >= ExpiresAt(g) -> IF g.req.tail THEN "tail" ELSE "completed"
      [] g.status = "tail" /\ t >= TailExpiresAt(g) -> "completed"
      [] OTHER -> "wait"

\* evaluateRCGate up to the teardown; it works on the row of the list, while the
\* row itself may have been pinned since.
EvaluateGate(i) ==
    /\ eval.pc = "gates" /\ i \in DOMAIN eval.rows /\ \A j \in DOMAIN eval.rows : i <= j
    /\ LET row == eval.rows[i]
           unpaired == row.status = "running" /\ ~row.paired
           ready == IF unpaired THEN ReadyAt(i, row, eval.now) ELSE row.ready
           paired == row.paired \/ (unpaired /\ Pairs(row, ready))
           g == [row EXCEPT !.ready = ready, !.paired = paired]
           next == Decision(g, eval.now) IN
       /\ gates' = [gates EXCEPT ![i].ready = ready, ![i].paired = paired]
       /\ eval' = IF next = "wait" THEN [eval EXCEPT !.rows = Without(@, i)]
                  ELSE [pc |-> "tear", now |-> eval.now, rows |-> Without(eval.rows, i), i |-> i, next |-> next, sources |-> g.req.sources, errs |-> FALSE]
    /\ UNCHANGED <<clock, deps, call, pending, task, roll, workers, calls, failures, crashes>>

ListDone ==
    /\ eval.pc = "gates" /\ DOMAIN eval.rows = {} /\ eval' = Idle
    /\ UNCHANGED <<clock, gates, deps, call, pending, task, roll, workers, calls, failures, crashes>>

\* archiveAndDestroySourceWorkers and destroyUnarchivedRCGateWorkers for one
\* source, under its lock; a failure leaves some of the workers.
KeptAll(p, next) == next = "tail" \* slip: the whole fleet is kept for the tail
Kept(p, next) == next = "tail" /\ p = Stress
TearSource(s) ==
    /\ eval.pc = "tear" /\ s \in eval.sources /\ roll[s] = None
    /\ \E left \in SUBSET {p \in Profiles : workers[<<s, p>>].st \notin {"absent"} /\ ~Kept(p, eval.next)} :
          /\ left # {} => failures < MaxFailures
          /\ failures' = failures + (IF left # {} THEN 1 ELSE 0)
          /\ workers' = [x \in Slots |->
                IF x[1] = s /\ workers[x].st # "absent" /\ ~Kept(x[2], eval.next) /\ x[2] \notin left
                THEN [workers[x] EXCEPT !.st = "stopped"] ELSE workers[x]]
          /\ eval' = [eval EXCEPT !.sources = @ \ {s}, !.errs = @ \/ left # {}]
    /\ UNCHANGED <<clock, gates, deps, call, pending, task, roll, calls, crashes>>

\* The end of teardownRCGateSources: any error leaves the gate to the next loop.
UpdateRCGateStatus ==
    /\ eval.pc = "tear" /\ eval.sources = {}
    /\ gates' = IF eval.errs THEN gates ELSE [gates EXCEPT ![eval.i].status = eval.next]
    /\ eval' = [pc |-> "gates", now |-> eval.now, rows |-> eval.rows]
    /\ UNCHANGED <<clock, deps, call, pending, task, roll, workers, calls, failures, crashes>>

Tick ==
    /\ clock < MaxTime /\ clock' = clock + 1
    /\ UNCHANGED <<gates, deps, call, pending, task, roll, workers, eval, calls, failures, crashes>>

\* The process ends; at its start pending rollouts are resumed and the loop
\* begins again.
Restart ==
    /\ crashes < MaxCrashes /\ crashes' = crashes + 1
    /\ call' = None /\ eval' = Idle /\ roll' = [s \in Sources |-> None]
    /\ task' = {s \in Sources : pending[s] # None}
    /\ UNCHANGED <<clock, gates, deps, pending, workers, calls, failures>>

GateInit ==
    /\ clock = 0 /\ gates = <<>> /\ call = None /\ eval = Idle
    /\ deps = [s \in Sources |-> None] /\ pending = deps /\ roll = deps
    /\ workers = [x \in Slots |-> [st |-> "absent", since |-> 0, b |-> None, held |-> FALSE]]
    /\ task = {} /\ calls = 0 /\ failures = 0 /\ crashes = 0

RolloutStep(s) == StartRollout(s) \/ FinishRollout(s) \/ \E p \in Profiles : EnsureWorker(s, p)
LoopStep == \/ ListGates \/ ListDone \/ UpdateRCGateStatus
            \/ \E i \in 1..MaxGates : EvaluateGate(i)
            \/ \E s \in Sources : TearSource(s)
GateNext ==
    \/ LoopStep \/ PinRCGateBuild \/ RecordReady \/ Tick \/ Restart
    \/ \E r \in Requests : RegisterRCGate(r)
    \/ \E s \in Sources :
          \/ RolloutStep(s)
          \/ \E b \in Builds : ReadGate(s, b)
          \/ \E p \in Profiles : RollWorker(s, p) \/ ResumeDormant(s, p) \/ WorkerMoves(s, p) \/ HoldEvidence(s, p)

GateSpec == GateInit /\ [][GateNext]_gvars

\* The gate loop (RunRCGateLoop) and the rollouts are goroutines that go on, and
\* time passes.
GateFairSpec == GateSpec /\ WF_gvars(LoopStep) /\ WF_gvars(Tick) /\ \A s \in Sources : WF_gvars(RolloutStep(s))

(***************************************************************************)
(* Properties.                                                             *)
(***************************************************************************)
GateTypeOK ==
    /\ clock \in Time /\ task \subseteq Sources /\ Len(gates) <= MaxGates
    /\ \A i \in DOMAIN gates :
          /\ gates[i].req \in Requests /\ gates[i].start \in Time
          /\ gates[i].status \in {"running", "tail", "completed", "aborted"}
          /\ gates[i].status = "tail" => gates[i].req.tail /\ gates[i].paired
    /\ workers \in [Slots -> [st : {"absent", "up", "running", "dormant", "stopped"},
                              since : 0..MaxGates, b : Builds \union {None}, held : BOOLEAN]]

\* CreateRCGate: a source belongs to at most one open gate, so that a pin, a
\* window and a verdict are never those of another gate's workers.
OneGatePerSource ==
    \A i, j \in OpenGates : i # j => gates[i].req.sources \cap gates[j].req.sources = {}

\* Every worker that is up while a gate of its source is open runs the build the
\* gate pinned for that side, whatever notifications, rollouts and rolls raced.
PinnedOnly ==
    \A i \in OpenGates : \A s \in gates[i].req.sources : \A p \in Profiles :
        workers[<<s, p>>].st \notin {"absent", "stopped"} => workers[<<s, p>>].b = gates[i].pin[s]

\* "archiving evidence and destroying all gate workers": when a gate is closed no
\* worker of its sources is left, and none is provisioned later.
ClosedGateEmpty ==
    \A i \in DOMAIN gates : Closed(gates[i]) =>
        \A s \in gates[i].req.sources : ActiveFor(s) = {} =>
            \A p \in Profiles : workers[<<s, p>>].st \in {"absent", "stopped"}

\* In its tail a gate has workers of the stress profile only.
TailKeepsStressOnly ==
    \A i \in DOMAIN gates : gates[i].status = "tail" =>
        \A s \in gates[i].req.sources : \A p \in Profiles \ {Stress} : workers[<<s, p>>].st \in {"absent", "stopped"}

\* Every gate is closed in the end, whatever failed in between.
GateCloses == \A i \in 1..MaxGates : <>[](i \in DOMAIN gates => Closed(gates[i]))

-----------------------------------------------------------------------------
(* One open gate of a source, for any requests, any number of gates, and any    *)
(* interleaving of the loop with registrations and notifications.               *)

IsGate(g) == g = [req |-> g.req, status |-> g.status, start |-> g.start, paired |-> g.paired, pin |-> g.pin, ready |-> g.ready]
GatesOK == (\E S : gates \in Seq(S)) /\ \A i \in DOMAIN gates : IsGate(gates[i])

\* The gates the loop has still to look at, and the one it tears down, are open: only the loop
\* closes gates, and it is the only one.
EvalOK ==
    \/ eval = Idle
    \/ /\ eval = [pc |-> "gates", now |-> eval.now, rows |-> eval.rows]
       /\ DOMAIN eval.rows \subseteq OpenGates
    \/ /\ eval = [pc |-> "tear", now |-> eval.now, rows |-> eval.rows, i |-> eval.i, next |-> eval.next,
                  sources |-> eval.sources, errs |-> eval.errs]
       /\ eval.i \in OpenGates /\ DOMAIN eval.rows \subseteq OpenGates \ {eval.i}

GateInv == GatesOK /\ EvalOK /\ OneGatePerSource

LEMMA GateStart == ASSUME GateInit PROVE GateInv
<1>1. gates \in Seq({}) /\ DOMAIN gates = {}
  BY DEF GateInit
<1> QED
  BY <1>1 DEF GateInit, GateInv, GatesOK, EvalOK, OneGatePerSource, OpenGates

\* One gate changes, and keeps what was asked for.
OneMoves(k) ==
    /\ DOMAIN gates' = DOMAIN gates /\ (\E S : gates' \in Seq(S))
    /\ \A i \in DOMAIN gates : i # k => gates'[i] = gates[i]
    /\ k \in DOMAIN gates => IsGate(gates'[k]) /\ gates'[k].req = gates[k].req

LEMMA MovesTo ==
    ASSUME GatesOK, NEW k, NEW g, gates' = [gates EXCEPT ![k] = g], k \in DOMAIN gates => IsGate(g) /\ g.req = gates[k].req
    PROVE  OneMoves(k) /\ (k \in DOMAIN gates => gates'[k] = g)
<1>1. PICK S : gates \in Seq(S)
  BY DEF GatesOK
<1>2. gates' \in Seq(S \cup {g}) /\ DOMAIN gates' = DOMAIN gates
  <2>1. gates \in Seq(S \cup {g}) /\ DOMAIN gates = 1..Len(gates)
    BY <1>1
  <2>2. CASE k \in DOMAIN gates
    BY <2>1, <2>2, ExceptSeq
  <2>3. CASE k \notin DOMAIN gates
    <3>1. gates' = gates
      BY <2>1, <2>3
    <3> QED
      BY <2>1, <3>1
  <2> QED
    BY <2>2, <2>3
<1>3. \A i \in DOMAIN gates : gates'[i] = IF i = k THEN g ELSE gates[i]
  BY <1>1
<1> QED
  BY <1>2, <1>3 DEF OneMoves

LEMMA MovesKeeps ==
    ASSUME GatesOK, OneGatePerSource, NEW k, OneMoves(k), k \in DOMAIN gates => (Closed(gates[k]) => Closed(gates'[k]))
    PROVE  GatesOK' /\ OneGatePerSource' /\ OpenGates' \subseteq OpenGates /\ OpenGates \ {k} \subseteq OpenGates'
<1>1. GatesOK'
  BY DEF GatesOK, OneMoves
<1>2. \A i \in DOMAIN gates : gates'[i].req = gates[i].req
  BY DEF OneMoves
<1>3. OpenGates' \subseteq OpenGates /\ OpenGates \ {k} \subseteq OpenGates'
  BY DEF OneMoves, OpenGates, Closed
<1>4. OneGatePerSource'
  BY <1>2, <1>3 DEF OneGatePerSource, OpenGates
<1> QED
  BY <1>1, <1>3, <1>4

\* The row that EvaluateGate writes.
Evaluated(q, ready, paired) == [q EXCEPT !.ready = ready, !.paired = paired]

LEMMA Rewritten ==
    ASSUME NEW q, IsGate(q), NEW ready, NEW paired, NEW g, g = Evaluated(q, ready, paired)
    PROVE  IsGate(g) /\ g.req = q.req /\ g.status = q.status
<1>1. DOMAIN q = {"req", "status", "start", "paired", "pin", "ready"}
  BY DEF IsGate
<1>2. g = [x \in DOMAIN q |-> IF x = "ready" THEN ready ELSE IF x = "paired" THEN paired ELSE q[x]]
  BY <1>1 DEF Evaluated
<1>3. /\ g.req = q.req /\ g.status = q.status /\ g.start = q.start
      /\ g.pin = q.pin /\ g.ready = ready /\ g.paired = paired
  BY <1>1, <1>2
<1>4. g = [req |-> g.req, status |-> g.status, start |-> g.start, paired |-> g.paired, pin |-> g.pin, ready |-> g.ready]
  BY <1>1, <1>2
<1> QED
  BY <1>3, <1>4 DEF IsGate

LEMMA GateStep == ASSUME GateInv, [GateNext]_gvars PROVE GateInv'
<1> USE DEF GateInv
<1>s. ASSUME UNCHANGED gates, EvalOK' PROVE GateInv'
  BY <1>s DEF GatesOK, OneGatePerSource, OpenGates, Closed
<1>u. ASSUME UNCHANGED <<gates, eval>> PROVE GateInv'
  <2>1. EvalOK'
    BY <1>u DEF EvalOK, OpenGates, Closed
  <2> QED
    BY <1>u, <1>s, <2>1
\* Registration: the new gate meets no open one.
<1>1. ASSUME NEW r \in Requests, RegisterRCGate(r) PROVE GateInv'
  <2> DEFINE n == Len(gates) + 1
             g == [req |-> r, status |-> "running", start |-> clock, paired |-> FALSE,
                   pin |-> [s \in r.sources |-> None], ready |-> [s \in r.sources |-> None]]
  <2>1. gates' = Append(gates, g) /\ ~Overlapping(r) /\ eval' = eval
    BY <1>1 DEF RegisterRCGate
  <2>2. PICK S : gates \in Seq(S)
    BY DEF GatesOK
  <2>3. gates \in Seq(S \cup {g})
    BY <2>2
  <2>4. /\ gates' \in Seq(S \cup {g}) /\ DOMAIN gates' = DOMAIN gates \cup {n} /\ n \notin DOMAIN gates
        /\ gates'[n] = g /\ \A i \in DOMAIN gates : gates'[i] = gates[i]
    BY <2>1, <2>3
  <2>5. IsGate(g) /\ g.req = r /\ ~Closed(g)
    BY DEF IsGate, Closed
  <2>6. GatesOK'
    BY <2>4, <2>5 DEF GatesOK
  <2>7. OpenGates' = OpenGates \cup {n}
    BY <2>4, <2>5 DEF OpenGates
  <2>8. \A i \in OpenGates : gates[i].req.sources \cap r.sources = {}
    BY <2>1 DEF Overlapping
  <2>9. OneGatePerSource'
    BY <2>4, <2>5, <2>7, <2>8 DEF OneGatePerSource, OpenGates
  <2>10. EvalOK'
    BY <2>1, <2>7 DEF EvalOK
  <2> QED
    BY <2>6, <2>9, <2>10
\* A step that changes one gate and does not reopen it.
<1>2. CASE PinRCGateBuild
  <2> DEFINE k == call.i
             g == [gates[k] EXCEPT !.pin = [gates[k].pin EXCEPT ![call.s] = Pinned(gates[k], call.s, call.b)]]
  <2>1. gates' = [gates EXCEPT ![k] = g] /\ eval' = eval
    BY <1>2 DEF PinRCGateBuild
  <2>2. k \in DOMAIN gates => IsGate(g) /\ g.req = gates[k].req /\ g.status = gates[k].status
    BY DEF GatesOK, IsGate
  <2>3. OneMoves(k) /\ (k \in DOMAIN gates => gates'[k] = g)
    BY <2>1, <2>2, MovesTo
  <2>4. GatesOK' /\ OneGatePerSource' /\ OpenGates' \subseteq OpenGates /\ OpenGates \ {k} \subseteq OpenGates'
    BY <2>2, <2>3, MovesKeeps DEF Closed
  <2>5. OpenGates' = OpenGates
    BY <2>2, <2>3, <2>4 DEF OpenGates, Closed, OneMoves
  <2> QED
    BY <2>1, <2>4, <2>5 DEF EvalOK
<1>3. ASSUME NEW k \in 1..MaxGates, EvaluateGate(k) PROVE GateInv'
  <2>1. k \in OpenGates /\ DOMAIN eval.rows \subseteq OpenGates
    BY <1>3 DEF EvaluateGate, EvalOK, Idle
  <2>2. PICK ready, paired : gates' = [gates EXCEPT ![k].ready = ready, ![k].paired = paired]
    BY <1>3 DEF EvaluateGate
  <2> DEFINE g == Evaluated(gates[k], ready, paired)
  <2>3. gates' = [gates EXCEPT ![k] = g]
    BY <2>2 DEF GatesOK, Evaluated
  <2>a. k \in DOMAIN gates /\ IsGate(gates[k])
    BY <2>1 DEF GatesOK, OpenGates
  <2>4. k \in DOMAIN gates /\ IsGate(g) /\ g.req = gates[k].req /\ g.status = gates[k].status
    <3>1. IsGate(g) /\ g.req = gates[k].req /\ g.status = gates[k].status
      BY <2>a, Rewritten
    <3> QED
      BY <2>a, <3>1
  <2>5. OneMoves(k) /\ gates'[k] = g
    BY <2>3, <2>4, MovesTo
  <2>6. GatesOK' /\ OneGatePerSource' /\ OpenGates' \subseteq OpenGates /\ OpenGates \ {k} \subseteq OpenGates'
    BY <2>4, <2>5, MovesKeeps DEF Closed
  <2>7. OpenGates' = OpenGates
    BY <2>1, <2>4, <2>5, <2>6 DEF OpenGates, Closed, OneMoves
  <2>8. PICK next, srcs : eval' = IF next = "wait" THEN [eval EXCEPT !.rows = Without(@, k)]
                  ELSE [pc |-> "tear", now |-> eval.now, rows |-> Without(eval.rows, k), i |-> k, next |-> next, sources |-> srcs, errs |-> FALSE]
    BY <1>3 DEF EvaluateGate
  <2>9. DOMAIN Without(eval.rows, k) \subseteq OpenGates' \ {k}
    BY <2>1, <2>7 DEF Without
  <2>10. eval = [pc |-> "gates", now |-> eval.now, rows |-> eval.rows]
    BY <1>3 DEF EvaluateGate, EvalOK, Idle
  <2>11. EvalOK'
    <3>1. CASE eval' = [eval EXCEPT !.rows = Without(@, k)]
      <4>1. eval' = [pc |-> "gates", now |-> eval.now, rows |-> Without(eval.rows, k)]
        BY <2>10, <3>1
      <4> QED
        BY <2>9, <4>1 DEF EvalOK
    <3>2. CASE eval' = [pc |-> "tear", now |-> eval.now, rows |-> Without(eval.rows, k), i |-> k, next |-> next, sources |-> srcs, errs |-> FALSE]
      BY <2>1, <2>7, <2>9, <3>2 DEF EvalOK
    <3> QED
      BY <2>8, <3>1, <3>2
  <2> QED
    BY <2>6, <2>11
\* The loop closes the gate it tore down, or moves it to its tail: it was open.
<1>4. CASE UpdateRCGateStatus
  <2>1. eval.i \in OpenGates /\ DOMAIN eval.rows \subseteq OpenGates \ {eval.i}
    BY <1>4 DEF UpdateRCGateStatus, EvalOK, Idle
  <2>2. eval' = [pc |-> "gates", now |-> eval.now, rows |-> eval.rows]
    BY <1>4 DEF UpdateRCGateStatus
  <2>3. CASE gates' = gates
    BY <1>s, <2>1, <2>2, <2>3 DEF EvalOK, OpenGates, Closed
  <2>4. CASE gates' = [gates EXCEPT ![eval.i].status = eval.next]
    <3> DEFINE k == eval.i
               g == [gates[k] EXCEPT !.status = eval.next]
    <3>1. k \in DOMAIN gates /\ IsGate(g) /\ g.req = gates[k].req /\ ~Closed(gates[k])
      BY <2>1 DEF GatesOK, IsGate, OpenGates
    <3>2. gates' = [gates EXCEPT ![k] = g]
      BY <2>4 DEF GatesOK
    <3>3. OneMoves(k)
      BY <3>1, <3>2, MovesTo
    <3>4. GatesOK' /\ OneGatePerSource' /\ OpenGates \ {k} \subseteq OpenGates'
      BY <3>1, <3>3, MovesKeeps
    <3> QED
      BY <2>1, <2>2, <3>4 DEF EvalOK
  <2> QED
    BY <1>4, <2>3, <2>4 DEF UpdateRCGateStatus
<1>5. CASE ListGates
  <2>1. gates' = gates /\ eval' = [pc |-> "gates", now |-> clock, rows |-> [i \in OpenGates |-> gates[i]]]
    BY <1>5 DEF ListGates
  <2>2. EvalOK'
    BY <2>1 DEF EvalOK, OpenGates, Closed
  <2> QED
    BY <1>s, <2>1, <2>2
<1>6. CASE ListDone \/ Restart
  BY <1>6, <1>s DEF ListDone, Restart, EvalOK, Idle
<1>7. ASSUME NEW s \in Sources, TearSource(s) PROVE GateInv'
  <2>1. gates' = gates /\ eval.pc = "tear" /\ \E errs : eval' = [eval EXCEPT !.sources = @ \ {s}, !.errs = errs]
    BY <1>7 DEF TearSource
  <2>2. PICK errs : eval' = [eval EXCEPT !.sources = @ \ {s}, !.errs = errs]
    BY <2>1
  <2>3. /\ eval = [pc |-> "tear", now |-> eval.now, rows |-> eval.rows, i |-> eval.i, next |-> eval.next,
                   sources |-> eval.sources, errs |-> eval.errs]
        /\ eval.i \in OpenGates /\ DOMAIN eval.rows \subseteq OpenGates \ {eval.i}
    BY <2>1 DEF EvalOK, Idle
  <2>4. eval' = [pc |-> "tear", now |-> eval.now, rows |-> eval.rows, i |-> eval.i, next |-> eval.next,
                 sources |-> eval.sources \ {s}, errs |-> errs]
    <3>1. DOMAIN eval = {"pc", "now", "rows", "i", "next", "sources", "errs"} /\ eval.pc = "tear"
      BY <2>3
    <3>2. eval' = [x \in DOMAIN eval |-> IF x = "sources" THEN eval.sources \ {s} ELSE IF x = "errs" THEN errs ELSE eval[x]]
      BY <2>2, <3>1
    <3> QED
      BY <3>1, <3>2
  <2>5. OpenGates' = OpenGates
    BY <2>1 DEF OpenGates, Closed
  <2>6. EvalOK'
    BY <2>3, <2>4, <2>5 DEF EvalOK
  <2> QED
    BY <1>s, <2>1, <2>6
<1>8. ASSUME NEW s \in Sources, RolloutStep(s) PROVE GateInv'
  BY <1>8, <1>u DEF RolloutStep, StartRollout, FinishRollout, EnsureWorker
<1>9. CASE RecordReady \/ Tick \/ UNCHANGED gvars \/ \E s \in Sources, b \in Builds : ReadGate(s, b)
  BY <1>9, <1>u DEF RecordReady, Tick, gvars, ReadGate
<1>10. ASSUME NEW s \in Sources, NEW p \in Profiles, RollWorker(s, p) \/ ResumeDormant(s, p) \/ WorkerMoves(s, p) \/ HoldEvidence(s, p)
       PROVE GateInv'
  BY <1>10, <1>u DEF RollWorker, ResumeDormant, WorkerMoves, HoldEvidence
<1> QED
  BY <1>1, <1>2, <1>3, <1>4, <1>5, <1>6, <1>7, <1>8, <1>9, <1>10 DEF GateNext, LoopStep

\* CreateRCGate and the gate loop: a source never belongs to two open gates, so that a pin, a
\* window and a verdict are always those of the one gate whose workers run.
THEOREM OneGateAlways == GateSpec => []OneGatePerSource
<1>1. GateInv => OneGatePerSource
  BY DEF GateInv
<1> QED
  BY <1>1, GateStart, GateStep, PTL DEF GateSpec
=============================================================================
