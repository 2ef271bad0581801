------------------------------- MODULE MCGate -------------------------------
(* Four instances of RCGate, one per behaviour (the variable part):          *)
(*   tail   a gate with two profiles and a tail; failing teardowns           *)
(*   pins   competing notifications for one gate                            *)
(*   twice  two requests that share a source, one after the other           *)
(*   holds  pauses, resumes and evidence holds; a restart                    *)
EXTENDS Naturals, TLC

CONSTANTS c1, c2, b1, stress, other, g1, g2, i1, i2

VARIABLES part, clock, gates, deps, call, pending, task, roll, workers, eval, calls, failures, crashes
gvars == <<clock, gates, deps, call, pending, task, roll, workers, eval, calls, failures, crashes>>
mvars == <<part, gvars>>

Gate(c, profiles, tail) == [sources |-> {c, b1}, profiles |-> profiles, dur |-> 1, tail |-> tail]
TailRequest == {Gate(c1, {stress, other}, TRUE)}
PlainRequest == {Gate(c1, {other}, FALSE)}
TwoRequests == PlainRequest \union {Gate(c2, {other}, FALSE)}
OneBuild == {<<g1, i1>>}
RacingBuilds == {<<g1, i1>>, <<g1, i2>>, <<g2, i1>>}

T == INSTANCE RCGate WITH Requests <- TailRequest, Stress <- stress, Builds <- OneBuild,
        Features <- {}, ProvisionTimeout <- 1, TailDuration <- 2, MaxGates <- 1, MaxStart <- 0, MaxTime <- 2,
        MaxCalls <- 2, MaxFailures <- 1, MaxCrashes <- 0
P == INSTANCE RCGate WITH Requests <- PlainRequest, Stress <- stress, Builds <- RacingBuilds,
        Features <- {"roll"}, ProvisionTimeout <- 1, TailDuration <- 1, MaxGates <- 1, MaxStart <- 0, MaxTime <- 1,
        MaxCalls <- 2, MaxFailures <- 0, MaxCrashes <- 0
W == INSTANCE RCGate WITH Requests <- TwoRequests, Stress <- stress,
        Builds <- OneBuild, Features <- {"roll"}, ProvisionTimeout <- 1, TailDuration <- 1, MaxGates <- 2,
        MaxStart <- 1, MaxTime <- 2, MaxCalls <- 2, MaxFailures <- 0, MaxCrashes <- 0
H == INSTANCE RCGate WITH Requests <- PlainRequest, Stress <- stress, Builds <- OneBuild,
        Features <- {"dormant", "hold"}, ProvisionTimeout <- 1, TailDuration <- 1, MaxGates <- 1, MaxStart <- 0,
        MaxTime <- 1, MaxCalls <- 2, MaxFailures <- 0, MaxCrashes <- 1

Tail == part = "tail"
Pins == part = "pins"
Twice == part = "twice"
Holds == part = "holds"

MCInit == (Tail /\ T!GateInit) \/ (Pins /\ P!GateInit) \/ (Twice /\ W!GateInit) \/ (Holds /\ H!GateInit)
MCNext ==
    /\ (Tail /\ T!GateNext) \/ (Pins /\ P!GateNext) \/ (Twice /\ W!GateNext) \/ (Holds /\ H!GateNext)
    /\ UNCHANGED part

\* Fairness, for the two instances GateCloses is asked of.
LoopStep == (Tail /\ T!LoopStep) \/ (Holds /\ H!LoopStep)
Tick == (Tail /\ T!Tick) \/ (Holds /\ H!Tick)
RolloutStep(s) == (Tail /\ T!RolloutStep(s)) \/ (Holds /\ H!RolloutStep(s))
FairSpec ==
    /\ MCInit /\ [][MCNext]_mvars
    /\ WF_mvars(LoopStep /\ UNCHANGED part) /\ WF_mvars(Tick /\ UNCHANGED part)
    /\ \A s \in {c1, b1} : WF_mvars(RolloutStep(s) /\ UNCHANGED part)

\* A property of RCGate, in the instance that runs.
In(tail, pins, twice, holds) == IF Tail THEN tail ELSE IF Pins THEN pins ELSE IF Twice THEN twice ELSE holds

\* The rows of rc_gates and workers are what the code can write; a tail follows a
\* paired run of a gate that asked for one.
TypeOK == In(T!GateTypeOK, P!GateTypeOK, W!GateTypeOK, H!GateTypeOK)
\* CreateRCGate: a source belongs to at most one open gate.
OneGatePerSource == In(T!OneGatePerSource, P!OneGatePerSource, W!OneGatePerSource, H!OneGatePerSource)
\* checkRCGateProvisioning: the workers of an open gate run its pinned builds.
PinnedOnly == In(T!PinnedOnly, P!PinnedOnly, W!PinnedOnly, H!PinnedOnly)
\* teardownRCGateSources: no worker is left, or comes back, when a gate is closed.
ClosedGateEmpty == In(T!ClosedGateEmpty, P!ClosedGateEmpty, W!ClosedGateEmpty, H!ClosedGateEmpty)
\* evaluateRCGate: in its tail a gate has workers of the stress profile only.
TailKeepsStressOnly == In(T!TailKeepsStressOnly, P!TailKeepsStressOnly, W!TailKeepsStressOnly, H!TailKeepsStressOnly)
\* RunRCGateLoop: every gate is closed in the end, whatever failed in between
\* (asked where something fails: tail has the failures, holds the restart).
GateCloses == Tail \/ Holds => T!GateCloses
=============================================================================
