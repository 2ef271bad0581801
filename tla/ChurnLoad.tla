------------------------------- MODULE ChurnLoad -------------------------------
(* The churn workload in queue mode (churn/engine.go, churn/churn.go): a       *)
(* ticker hands operations to workers that apply them in transactions, in      *)
(* whatever order they get to it; Pause and Resume come from the verifier,     *)
(* which checks the application's own invariants (Validate) on what it finds.  *)
EXTENDS Naturals, Sequences, TLAPS

CONSTANTS Keys, Workers, MaxOps, MaxPauses

VARIABLES jobs,         \* churn_jobs: [Keys -> [state, attempts]]
          receipts,     \* churn_receipts
          paused, next, group,  \* Engine.paused, Engine.next, the key of its group of operations
          tpc,          \* the ticker
          worker,       \* [Workers -> [pc, op, key]]
          caller,       \* the verifier: "idle", "pausing", "held"
          cancelled, pauses
cvars == <<jobs, receipts, paused, next, group, tpc, worker, caller, cancelled, pauses>>
db == <<jobs, receipts>>

Ops == <<"enqueue", "claim", "retry", "claim", "complete", "delete", "enqueue", "expire", "delete">>
Absent == [state |-> "absent", attempts |-> 0]
Free == [pc |-> "free", op |-> "", key |-> 0]

CInit ==
    /\ jobs = [k \in Keys |-> Absent] /\ receipts = {} /\ paused = FALSE /\ next = 0 /\ group \in Keys
    /\ tpc = "tick" /\ worker = [w \in Workers |-> Free] /\ caller = "idle" /\ cancelled = FALSE /\ pauses = 0

--------------------------------------------------------------------------
(* Start's ticker: an operation for a tick, unless paused.                   *)
Tick ==
    /\ tpc = "tick" /\ ~cancelled /\ ~paused /\ next < MaxOps /\ tpc' = "send"
    /\ UNCHANGED <<db, paused, next, group, worker, caller, cancelled, pauses>>

\* jobs <- e.operation(e.next), to a worker that is free; each group of operations has one key.
Send(w) ==
    /\ tpc = "send" /\ ~cancelled /\ worker[w].pc = "free"
    /\ worker' = [worker EXCEPT ![w] = [pc |-> "got", op |-> Ops[(next % Len(Ops)) + 1], key |-> group]]
    /\ next' = next + 1 /\ tpc' = "tick"
    /\ group' \in (IF next' % Len(Ops) = 0 THEN Keys ELSE {group})
    /\ UNCHANGED <<db, paused, caller, cancelled, pauses>>

\* Mutant: a worker that got an operation applies it.
MayApplyAlways == TRUE
MayApply == ~paused /\ ~cancelled

\* The worker drops the operation, or counts itself active.
Begin(w) ==
    /\ worker[w].pc = "got"
    /\ worker' = [worker EXCEPT ![w] = IF MayApply THEN [@ EXCEPT !.pc = "active"] ELSE Free]
    /\ UNCHANGED <<db, paused, next, group, tpc, caller, cancelled, pauses>>

--------------------------------------------------------------------------
\* Apply: the statements of an operation on job k, in one transaction.
Set(k, from, to) == IF jobs[k].state \in from THEN [jobs EXCEPT ![k].state = to] ELSE jobs

\* Mutant: the receipt is left behind.
KeptReceipts(k) == receipts
\* delete takes the receipt with the job.
Receipts(k) == IF jobs[k].state \in {"done", "expired"} THEN receipts \ {k} ELSE receipts

Applied(op, k) ==
    CASE op = "enqueue"  -> [j |-> IF jobs[k] = Absent THEN [jobs EXCEPT ![k].state = "ready"] ELSE jobs, r |-> receipts]
      [] op = "claim"    -> [j |-> IF jobs[k].state = "ready" THEN [jobs EXCEPT ![k] = [state |-> "claimed", attempts |-> @.attempts + 1]] ELSE jobs, r |-> receipts]
      [] op = "retry"    -> [j |-> Set(k, {"claimed"}, "ready"), r |-> receipts]
      [] op = "complete" -> LET j == Set(k, {"claimed"}, "done") IN [j |-> j, r |-> IF j[k].state = "done" THEN receipts \cup {k} ELSE receipts]
      [] op = "expire"   -> [j |-> Set(k, {"ready", "claimed"}, "expired"), r |-> receipts]
      [] op = "delete"   -> [j |-> IF jobs[k].state \in {"done", "expired"} THEN [jobs EXCEPT ![k] = Absent] ELSE jobs, r |-> Receipts(k)]

\* The transaction commits, or is rolled back.
Apply(w) ==
    /\ worker[w].pc = "active" /\ worker' = [worker EXCEPT ![w] = Free]
    /\ \/ LET done == Applied(worker[w].op, worker[w].key) IN jobs' = done.j /\ receipts' = done.r
       \/ UNCHANGED db
    /\ UNCHANGED <<paused, next, group, tpc, caller, cancelled, pauses>>

--------------------------------------------------------------------------
PauseCall ==
    /\ caller = "idle" /\ pauses < MaxPauses /\ pauses' = pauses + 1 /\ paused' = TRUE /\ caller' = "pausing"
    /\ UNCHANGED <<db, next, group, tpc, worker, cancelled>>

\* Pause returns when no worker is active; on a timeout the caller resumes.
PauseReturns ==
    /\ caller = "pausing"
    /\ \/ caller' = "held" /\ (\A w \in Workers : worker[w].pc # "active") /\ UNCHANGED paused
       \/ caller' = "idle" /\ paused' = FALSE
    /\ UNCHANGED <<db, next, group, tpc, worker, cancelled, pauses>>
Resume ==
    /\ caller = "held" /\ paused' = FALSE /\ caller' = "idle"
    /\ UNCHANGED <<db, next, group, tpc, worker, cancelled, pauses>>

\* Stop cancels; the ticker and the workers end.
Stop ==
    /\ ~cancelled /\ cancelled' = TRUE /\ tpc' = "ended"
    /\ UNCHANGED <<db, paused, next, group, worker, caller, pauses>>

CNext ==
    \/ Tick \/ PauseCall \/ PauseReturns \/ Resume \/ Stop
    \/ \E w \in Workers : Send(w) \/ Begin(w) \/ Apply(w)

--------------------------------------------------------------------------
\* Engine.Pause: from its return until Resume no transaction of the workload runs, although an operation was
\* already on its way to a worker.
ChurnQuiet == caller = "held" => \A w \in Workers : worker[w].pc # "active"

\* Validate: whatever order the workers apply the operations in, and whichever are rolled back or dropped,
\* exactly the finished jobs have a receipt, and a job claimed or done was attempted.
ChurnValid ==
    /\ receipts = {k \in Keys : jobs[k].state = "done"}
    /\ \A k \in Keys : jobs[k].state \in {"claimed", "done"} => jobs[k].attempts > 0

-----------------------------------------------------------------------------
(* The churn workload, for any keys, workers and number of operations.       *)

CSpec == CInit /\ [][CNext]_cvars

Job == [state : {"absent", "ready", "claimed", "done", "expired"}, attempts : Nat]
OpNames == {"enqueue", "claim", "retry", "complete", "expire", "delete"}

JobsOK == jobs \in [Keys -> Job] /\ receipts \subseteq Keys
WorkersOK ==
    /\ worker \in [Workers -> [pc : {"free", "got", "active"}, op : OpNames \cup {""}, key : Keys \cup {0}]]
    /\ \A w \in Workers : worker[w].pc # "free" => worker[w].key \in Keys /\ worker[w].op \in OpNames
    /\ group \in Keys /\ next \in Nat

Pausing == caller \in {"pausing", "held"} => paused

\* Quiet needs that a returned Pause is still in force; the receipts need the types.
ChurnInv == JobsOK /\ WorkersOK /\ Pausing /\ ChurnQuiet /\ ChurnValid

LEMMA ChurnInit == CInit => ChurnInv
<1> SUFFICES ASSUME CInit PROVE ChurnInv
  OBVIOUS
<1>1. JobsOK /\ ChurnValid
  BY DEF CInit, JobsOK, ChurnValid, Absent, Job
<1>2. Free \in [pc : {"free", "got", "active"}, op : OpNames \cup {""}, key : Keys \cup {0}] /\ Free.pc = "free"
  BY DEF Free
<1>3. WorkersOK /\ ChurnQuiet /\ Pausing
  BY <1>2 DEF CInit, WorkersOK, ChurnQuiet, Pausing
<1> QED
  BY <1>1, <1>3 DEF ChurnInv

\* The operations go round the sequence.
LEMMA OpsAreOps == \A n \in Nat : Ops[(n % Len(Ops)) + 1] \in OpNames
<1>1. Len(Ops) = 9 /\ \A i \in 1..9 : Ops[i] \in OpNames
  <2>1. Len(Ops) = 9
    BY DEF Ops
  <2>2. /\ Ops[1] \in OpNames /\ Ops[2] \in OpNames /\ Ops[3] \in OpNames /\ Ops[4] \in OpNames
        /\ Ops[5] \in OpNames /\ Ops[6] \in OpNames /\ Ops[7] \in OpNames /\ Ops[8] \in OpNames /\ Ops[9] \in OpNames
    BY DEF Ops, OpNames
  <2>3. \A i \in 1..9 : i = 1 \/ i = 2 \/ i = 3 \/ i = 4 \/ i = 5 \/ i = 6 \/ i = 7 \/ i = 8 \/ i = 9
    OBVIOUS
  <2> QED
    BY <2>1, <2>2, <2>3
<1>2. \A n \in Nat : (n % 9) + 1 \in 1..9
  OBVIOUS
<1> QED
  BY <1>1, <1>2

\* Whatever the operation, it leaves exactly the finished jobs with a receipt.
LEMMA AppliedValid ==
    ASSUME JobsOK, ChurnValid, NEW k \in Keys, NEW op \in OpNames,
           jobs' = Applied(op, k).j, receipts' = Applied(op, k).r
    PROVE  JobsOK' /\ ChurnValid'
<1> USE DEF JobsOK, ChurnValid, Job, Absent
<1>1. CASE op = "enqueue"
  BY <1>1 DEF Applied
<1>2. CASE op = "claim"
  BY <1>2 DEF Applied
<1>3. CASE op = "retry"
  BY <1>3 DEF Applied, Set
<1>4. CASE op = "complete"
  BY <1>4 DEF Applied, Set
<1>5. CASE op = "expire"
  BY <1>5 DEF Applied, Set
<1>6. CASE op = "delete"
  BY <1>6 DEF Applied, Receipts
<1> QED
  BY <1>1, <1>2, <1>3, <1>4, <1>5, <1>6 DEF OpNames

LEMMA ChurnStep == ChurnInv /\ [CNext]_cvars => ChurnInv'
<1> SUFFICES ASSUME ChurnInv, [CNext]_cvars PROVE ChurnInv'
  OBVIOUS
<1> USE DEF ChurnInv
<1>1. ASSUME UNCHANGED db PROVE JobsOK' /\ ChurnValid'
  BY <1>1 DEF db, JobsOK, ChurnValid
<1>2. CASE Tick \/ Stop
  BY <1>1, <1>2 DEF Tick, Stop, WorkersOK, ChurnQuiet, Pausing
<1>3. ASSUME NEW w \in Workers, Send(w) PROVE ChurnInv'
  <2>1. \E op \in OpNames : worker' = [worker EXCEPT ![w] = [pc |-> "got", op |-> op, key |-> group]]
    BY <1>3, OpsAreOps DEF Send, WorkersOK
  <2>2. next' \in Nat /\ group' \in Keys
    <3>1. next' = next + 1 /\ (group' \in Keys \/ group' = group)
      BY <1>3, Zenon DEF Send
    <3>2. next \in Nat /\ group \in Keys
      BY DEF WorkersOK
    <3>3. next' \in Nat
      BY <3>1, <3>2
    <3> QED
      BY <3>1, <3>2, <3>3
  <2>3. WorkersOK'
    <3>1. PICK op \in OpNames : worker' = [worker EXCEPT ![w] = [pc |-> "got", op |-> op, key |-> group]]
      BY <2>1
    <3>2. [pc |-> "got", op |-> op, key |-> group] \in [pc : {"free", "got", "active"}, op : OpNames \cup {""}, key : Keys \cup {0}]
      BY DEF WorkersOK
    <3> QED
      BY <2>2, <3>1, <3>2 DEF WorkersOK
  <2>4. ChurnQuiet' /\ Pausing'
    BY <1>3, <2>1 DEF Send, WorkersOK, ChurnQuiet, Pausing
  <2> QED
    BY <1>1, <1>3, <2>3, <2>4 DEF Send
\* A worker that got its operation before the pause drops it.
<1>4. ASSUME NEW w \in Workers, Begin(w) PROVE ChurnInv'
  BY <1>1, <1>4 DEF Begin, MayApply, Free, WorkersOK, ChurnQuiet, Pausing
<1>5. ASSUME NEW w \in Workers, Apply(w) PROVE ChurnInv'
  <2>1. JobsOK' /\ ChurnValid'
    BY <1>1, <1>5, AppliedValid DEF Apply, WorkersOK
  <2>2. WorkersOK' /\ ChurnQuiet' /\ Pausing'
    BY <1>5 DEF Apply, Free, WorkersOK, ChurnQuiet, Pausing
  <2> QED
    BY <2>1, <2>2
\* Pause returns once no worker is active.
<1>6. CASE PauseCall \/ PauseReturns \/ Resume
  <2>1. UNCHANGED <<db, worker, next, group>>
    BY <1>6 DEF PauseCall, PauseReturns, Resume
  <2>2. WorkersOK'
    BY <2>1 DEF WorkersOK
  <2>3. ChurnQuiet' /\ Pausing'
    BY <1>6 DEF PauseCall, PauseReturns, Resume, ChurnQuiet, Pausing
  <2> QED
    BY <1>1, <2>1, <2>2, <2>3
<1>7. CASE UNCHANGED cvars
  BY <1>1, <1>7 DEF cvars, db, WorkersOK, ChurnQuiet, Pausing
<1> QED
  BY <1>2, <1>3, <1>4, <1>5, <1>6, <1>7 DEF CNext

\* Engine.Pause: from its return until Resume no transaction of the workload runs.
THEOREM ChurnPauseHolds == CSpec => []ChurnQuiet
<1>1. ChurnInv => ChurnQuiet
  BY DEF ChurnInv
<1> QED
  BY <1>1, ChurnInit, ChurnStep, PTL DEF CSpec

\* Validate: whatever is applied, in whatever order, exactly the finished jobs have a
\* receipt, and a job claimed or done was attempted.
THEOREM ChurnStaysValid == CSpec => []ChurnValid
<1>1. ChurnInv => ChurnValid
  BY DEF ChurnInv
<1> QED
  BY <1>1, ChurnInit, ChurnStep, PTL DEF CSpec
=============================================================================
