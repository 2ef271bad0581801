---------------------------- MODULE PRRetirement ----------------------------
(* Retiring the source of a pull request that was closed upstream, by the     *)
(* webhook (webhook.go) and by the poller (pr_state_poller.go).  A source     *)
(* pr-N runs the code of PR N of one repository; other repositories have      *)
(* PRs with the same numbers.  Deliveries are lost, repeated and late; a      *)
(* teardown may leave workers over; the control plane restarts.               *)
EXTENDS Integers, Sequences, FiniteSets

CONSTANTS Numbers, Repos, Home,     \* Home: the repository the poller is configured with
          Allowlist,                \* of the webhook
          MaxAttempts,              \* sourceRetirementMaxAttempts
          MaxChanges, MaxFaults, MaxTasks

VARIABLES upstream,     \* [repo, number] -> "open", "closed" or "kept" (closed with the keep-alive label)
          sources,      \* number -> "none", "up" or "failed" (all its workers failed)
          hooks,        \* deliveries of "closed" events under way
          tasks,        \* retirePullRequestSource goroutines
          poll,         \* the poller
          limited,      \* rateLimitedSince is set
          ended,        \* PRs closed without the label since their last deployment
          changes, faults
pvars == <<upstream, sources, hooks, tasks, poll, limited, ended, changes, faults>>

Idle == [at |-> "idle", queue |-> <<>>, polled |-> FALSE]
PInit ==
    /\ upstream = [p \in Repos \X Numbers |-> "open"]
    /\ sources = [n \in Numbers |-> "up"]
    /\ hooks = {} /\ tasks = {} /\ poll = Idle /\ limited = FALSE /\ ended = {} /\ changes = 0 /\ faults = 0

Fault == faults < MaxFaults /\ faults' = faults + 1

\* Upstream (external): a PR is closed, reopened, or closed with the label.
Upstream(r, n, s) ==
    /\ changes < MaxChanges /\ changes' = changes + 1
    /\ upstream[<<r, n>>] # s
    /\ upstream' = [upstream EXCEPT ![<<r, n>>] = s]
    /\ hooks' = IF s = "open" THEN hooks ELSE hooks \cup {[repo |-> r, number |-> n, kept |-> s = "kept"]}
    /\ ended' = IF s = "closed" THEN ended \cup {<<r, n>>} ELSE ended
    /\ UNCHANGED <<sources, tasks, poll, limited, faults>>

\* A deployment of an open PR puts its source's workers up.
Deploy(n) ==
    /\ upstream[<<Home, n>>] = "open" /\ sources[n] # "up"
    /\ changes < MaxChanges /\ changes' = changes + 1
    /\ sources' = [sources EXCEPT ![n] = "up"]
    /\ UNCHANGED <<upstream, hooks, tasks, poll, limited, ended, faults>>

WorkersFail(n) ==
    /\ Fault /\ sources[n] = "up" /\ sources' = [sources EXCEPT ![n] = "failed"]
    /\ UNCHANGED <<upstream, hooks, tasks, poll, limited, ended, changes>>

LoseHook(h) ==
    /\ Fault /\ hooks' = hooks \ {h}
    /\ UNCHANGED <<upstream, sources, tasks, poll, limited, ended, changes>>

\* Mutant: the labels of the payload are not looked at.
AcceptsAnyLabel(h) == h.repo \in Allowlist

\* handlePullRequest starts a retirement.
Accepts(h) == h.repo \in Allowlist /\ ~h.kept

HandlePullRequest(h, again) ==
    /\ Cardinality(tasks) < MaxTasks
    /\ again => Fault
    /\ tasks' = IF Accepts(h) THEN tasks \cup {[number |-> h.number, attempt |-> 1, id |-> Cardinality(tasks)]} ELSE tasks
    /\ hooks' = IF again THEN hooks ELSE hooks \ {h}
    /\ ~again => UNCHANGED faults
    /\ UNCHANGED <<upstream, sources, poll, limited, ended, changes>>

\* archiveAndDestroyTerminalPRSource: under the lock of the source all its workers go, or
\* some of them are left.
Destroyed(n, complete) == [sources EXCEPT ![n] = IF complete THEN "none" ELSE @]

\* retirePullRequestSource: an attempt, the next one, or none after the last.
RetireAttempt(t, complete) ==
    LET over == complete \/ sources[t.number] = "none" \/ t.attempt = MaxAttempts
    IN  /\ ~complete => Fault
        /\ complete => UNCHANGED faults
        /\ sources' = Destroyed(t.number, complete)
        /\ tasks' = (tasks \ {t}) \cup (IF over THEN {} ELSE {[t EXCEPT !.attempt = @ + 1]})
        /\ UNCHANGED <<upstream, hooks, poll, limited, ended, changes>>

--------------------------------------------------------------------------
\* Mutant: a rate limit stops the polling instead of one round.
PollStartUnlimited ==
    /\ poll.at = "idle" /\ ~limited
    /\ LET active == {n \in Numbers : sources[n] = "up"}
       IN  poll' = [at |-> "visit", polled |-> FALSE,
                    queue |-> CHOOSE q \in [1 .. Cardinality(active) -> active] :
                                  \A i, j \in DOMAIN q : i < j => q[i] < q[j]]
    /\ UNCHANGED <<upstream, sources, hooks, tasks, limited, ended, changes, faults>>

\* pollOnce: ListActiveWorkerSources, the sources with a worker that has not failed.
PollStart ==
    /\ poll.at = "idle"
    /\ LET active == {n \in Numbers : sources[n] = "up"}
       IN  poll' = [at |-> "visit", polled |-> FALSE,
                    queue |-> CHOOSE q \in [1 .. Cardinality(active) -> active] :
                                  \A i, j \in DOMAIN q : i < j => q[i] < q[j]]
    /\ UNCHANGED <<upstream, sources, hooks, tasks, limited, ended, changes, faults>>

\* fetchPullRequestState, and what pollOnce makes of it: only a fresh and complete answer
\* that says closed, without the label, retires the source.
Terminal(n, answer) == answer = "state" /\ upstream[<<Home, n>>] = "closed"
PollVisit(answer) ==
    /\ poll.at = "visit" /\ poll.queue # <<>>
    /\ answer # "state" => Fault
    /\ answer = "state" => UNCHANGED faults
    /\ LET n == Head(poll.queue)
       IN  poll' = IF answer = "rate_limited" THEN Idle
                   ELSE IF Terminal(n, answer) THEN [poll EXCEPT !.at = "retire", !.polled = TRUE]
                   ELSE [poll EXCEPT !.queue = Tail(@), !.polled = TRUE]
    /\ limited' = (limited \/ answer = "rate_limited")
    /\ UNCHANGED <<upstream, sources, hooks, tasks, ended, changes>>

PollRetire(complete) ==
    /\ poll.at = "retire"
    /\ ~complete => Fault
    /\ complete => UNCHANGED faults
    /\ sources' = Destroyed(Head(poll.queue), complete)
    /\ poll' = [poll EXCEPT !.at = "visit", !.queue = Tail(@)]
    /\ UNCHANGED <<upstream, hooks, tasks, limited, ended, changes>>

\* clearRateLimit, or resetRateLimit when there was nothing to poll.
PollEnd ==
    /\ poll.at = "visit" /\ poll.queue = <<>>
    /\ poll' = Idle /\ limited' = FALSE
    /\ UNCHANGED <<upstream, sources, hooks, tasks, ended, changes, faults>>

\* The control plane restarts: goroutines and the poller's memory are gone.
Restart ==
    /\ Fault /\ tasks' = {} /\ poll' = Idle /\ limited' = FALSE
    /\ UNCHANGED <<upstream, sources, hooks, ended, changes>>

PNext ==
    \/ \E r \in Repos, n \in Numbers, s \in {"open", "closed", "kept"} : Upstream(r, n, s)
    \/ \E n \in Numbers : Deploy(n) \/ WorkersFail(n)
    \/ \E h \in hooks : LoseHook(h) \/ \E again \in BOOLEAN : HandlePullRequest(h, again)
    \/ \E t \in tasks, complete \in BOOLEAN : RetireAttempt(t, complete)
    \/ PollStart \/ PollEnd \/ Restart
    \/ \E a \in {"state", "invalid", "rate_limited"} : PollVisit(a)
    \/ \E complete \in BOOLEAN : PollRetire(complete)

\* RunPRStatePoller's ticker, and its calls that end.
PollSteps == PollStart \/ PollVisit("state") \/ PollRetire(TRUE) \/ PollEnd

--------------------------------------------------------------------------
\* archiveAndDestroyTerminalPRSource, from the webhook and from the poller:
\* a source is destroyed only when the PR it runs, of its own repository, was closed
\* without the keep-alive label: not for a label, an answer that says nothing, or the PR
\* of another repository.
OnlyItsOwnPR ==
    \A n \in Numbers : sources[n] # "none" /\ sources'[n] = "none" => <<Home, n>> \in ended

\* RunPRStatePoller: a PR that stays closed loses its workers although its webhook may be lost, its task stopped with
\* the control plane, or its teardown left incomplete.
Lingers(n) == upstream[<<Home, n>>] = "closed" /\ sources[n] = "up"
=============================================================================
