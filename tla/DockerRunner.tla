---------------------------- MODULE DockerRunner ----------------------------
(***************************************************************************)
(* The execution path as a whole: requests insert and cancel runs, drains  *)
(* dispatch them, one thread per run executes them, the reconciler sweeps  *)
(* behind, and the process may die. The parts meet only in the rows, in    *)
(* Docker and in the calls of start_queue_drain, as in the code.           *)
(***************************************************************************)
EXTENDS QueueDrain, RunExecutor, RunRequests, Reconciler

Init ==
    /\ RowInit
    /\ ThreadInit
    /\ DrainInit
    /\ RequestInit
    /\ SweepInit
    /\ crashes = 0

Next ==
    \/ \E r \in Runs : RequestStep(r) \/ ThreadStep(r) \/ ContainerExit(r) \/ Deadline(r)
    \/ \E d \in Drainers : DrainStep(d)
    \/ \E u \in Users, n \in PatchTo : UpdateQuota(u, n)
    \/ SweepStep
    \/ Crash

Spec == Init /\ [][Next]_vars

\* Threads that can run do run and time passes. A call of start_queue_drain
\* that waits for the lock gets it, because it is free again and again and no
\* holder waits for anything. Nobody has to submit, retry or cancel anything,
\* a task's command need not end, and a container need not print.
ThreadFairness == \A r \in Runs : WF_vars(ThreadStep(r)) /\ WF_vars(Deadline(r))
DrainFairness == \A d \in Drainers : WF_vars(DrainStep(d))
CancelFairness == \A r \in Runs : WF_vars(CancelStep(r))
SweepFairness ==
    /\ WF_vars(SweepList)
    /\ \A r \in Runs : WF_vars(SweepExamine(r)) /\ WF_vars(SweepRemove(r))

FairSpec ==
    Spec /\ ThreadFairness /\ DrainFairness /\ CancelFairness /\ SweepFairness

-----------------------------------------------------------------------------

\* Every variable holds a value its column, local or lock can hold; in
\* particular no drain begins that nobody called.
TypeOK ==
    /\ state \in [Runs -> RunStates \union {"ABSENT"}]
    /\ queuedAt \in [Runs -> Nat]
    /\ clock \in Nat
    /\ hasId \subseteq Runs
    /\ passed \subseteq Runs
    /\ packaged \subseteq Runs
    /\ cleanup \in [Runs -> {"PENDING", "DESTROYED", "FAILED"}]
    /\ revived \subseteq Runs
    /\ pc \in [Runs -> Places]
    /\ held \subseteq Runs
    /\ exitZero \subseteq Runs
    /\ overdue \subseteq Runs
    /\ container \in [Runs -> {"none", "created", "running", "exited", "gone"}]
    /\ lock \in Drainers \union {NoDrainer}
    /\ dpc \in [Drainers -> {"out", "next", "select", "dispatch"}]
    /\ todo \in [Drainers -> SUBSET Users]
    /\ duser \in [Drainers -> Users \union {NoUser}]
    /\ room \in [Drainers -> Nat]
    /\ batch \in [Drainers -> SUBSET Runs]
    /\ pending \in Nat
    /\ cancel \in [Runs -> {"idle", "checked", "committed"}]
    /\ admitted \subseteq Runs
    /\ crowd \in [Users -> Nat]
    /\ quota \in [Users -> Nat]
    /\ peak \in [Users -> Nat]
    /\ listed \subseteq Runs
    /\ victim \in Runs \union {NoRun}
    /\ crashes \in Nat

\* A run selected for dispatch has no thread yet and is in the hands of one
\* drain only, however many requests and finishing threads drain at once
\* (start_queue_drain under _runner_lock).
ClaimedOnce ==
    \A d \in Drainers : \A r \in batch[d] :
        /\ pc[r] = "none"
        /\ \A e \in Drainers \ {d} : r \notin batch[e]

\* A user's active rows stay within the highest max_active_runs the user has had,
\* rows that were terminal and became active again left aside: counting before
\* selecting, and one drain at a time, is enough whatever the threads, requests
\* and operators do in between (_drain_user_queue).
FirstClaims(u) == Active(u) \ revived
FirstClaimLimit == \A u \in Users : Cardinality(FirstClaims(u)) <= peak[u]

\* Only a cancelled or a timed-out row ever becomes active again: a run that
\* SUCCEEDED, FAILED or INFRA_FAILED has no thread and no drain left that could
\* write an active state over it, and the one verdict that may still replace
\* such a verdict is a CANCELLED decided on before (every writer of runs.state).
OnlyCancelReplaces ==
    \A r \in Runs :
        state[r] \in {"SUCCEEDED", "FAILED", "INFRA_FAILED"} /\ state'[r] # state[r]
            => state'[r] = "CANCELLED"
VerdictsStay == [][OnlyCancelReplaces]_vars

\* A run that is over stays over: once its row is terminal, its thread has ended and no
\* drain has it in hand, nothing makes it active, runs it again or queues it, though
\* drains select, requests cancel and retry, and the process restarts all the time.
Ended(r) ==
    /\ state[r] \in TerminalStates
    /\ pc[r] \notin LivePlaces
    /\ \A d \in Drainers : r \notin batch[d]
EndedStays == [][\A r \in Runs : Ended(r) => Ended(r)']_vars

\* The queue of a trainer outgrows max_queued_runs by less than the number of requests
\* that were between their count of it and their insert at once, retries, which count
\* nothing, left aside (_create_run_record ensures the parent in between).
Queueing(u) ==
    {r \in Runs \ Retriable : Owner[r] = u /\ (state[r] = "QUEUED" \/ r \in admitted)}
QueueBound == \A u \in Users : Cardinality(Queueing(u)) < MaxQueued[u] + crowd[u]

\* An active row has a thread that will still write its verdict, unless that
\* thread died with the process (_execute_run_thread, cancel_run).
VerdictPlaces ==
    {"load", "staging", "creating", "created", "attach", "streaming", "check",
     "verdict", "collect", "decide", "failing"}
ActiveHasThread ==
    \A r \in Runs : state[r] \in ActiveStates => pc[r] \in VerdictPlaces \union {"lost"}

\* A run that is QUEUED has never had a thread, and a thread that is over leaves
\* a terminal row: a dispatch is neither forgotten nor undone.
QueuedIsUntouched == \A r \in Runs : state[r] = "QUEUED" => pc[r] = "none"
EndedIsTerminal ==
    \A r \in Runs : pc[r] \in {"cleanup", "removed", "unremoved", "done", "broken"}
        => state[r] \in TerminalStates
ThreadsOwnRows == QueuedIsUntouched /\ ActiveHasThread /\ EndedIsTerminal

\* SUCCEEDED is only ever said of a run whose container was left to exit with
\* code 0 and whose result says passed, FAILED only of one that lacks either,
\* and both only once the result package is in the workspace.
VerdictIsEarned ==
    \A r \in Runs :
        /\ state[r] = "SUCCEEDED" => r \in exitZero \intersect passed \intersect packaged
        /\ state[r] = "FAILED" => r \in packaged \ (exitZero \intersect passed)

\* cleanup_state DESTROYED is never recorded over a sandbox that has started and
\* is still there.
DestroyedIsStopped ==
    \A r \in Runs : cleanup[r] = "DESTROYED" => container[r] \notin {"running", "exited"}

\* The sweep reads a row and removes the container later: even so it never takes
\* a sandbox that is running away from a run that is active (cleanup_orphans).
SweepTakesActive ==
    \E r \in Runs : /\ victim = r
                    /\ container[r] = "running"
                    /\ container'[r] = "gone"
                    /\ state[r] \in ActiveStates \union {"QUEUED"}
                    /\ victim' = NoRun
SweepSparesActive == [][~SweepTakesActive]_vars

\* The queue of a trainer is served in order: no run is dispatched while an older
\* one of the same trainer is queued, and every run is executed at most once.
PhaseOf(r) ==
    CASE state[r] = "ABSENT" -> "absent"
      [] pc[r] = "none" /\ state[r] = "QUEUED" -> "waiting"
      [] pc[r] = "none" /\ state[r] \notin {"ABSENT", "QUEUED"} -> "withdrawn"
      [] pc[r] \in LivePlaces -> "executing"
      [] pc[r] \in {"done", "broken", "lost"} -> "over"
BoxOf(r) ==
    CASE container[r] = "none" -> "none"
      [] r \in Present -> "open"
      [] container[r] = "gone" -> "destroyed"

Contract == INSTANCE ExecutionContract WITH
                phase <- [r \in Runs |-> PhaseOf(r)],
                at <- queuedAt,
                now <- clock,
                box <- [r \in Runs |-> BoxOf(r)]

\* The execution path implements the contract.
ImplementsContract == Contract!Spec

\* No wakeup is lost: when no drain is called or under way and no thread is left
\* to call one, a queued run waits only because the limit is really used up.
NoStrandedQueue ==
    \A u \in Users :
        /\ Queued(u) # {}
        /\ pending = 0
        /\ lock = NoDrainer
        /\ \A r \in Runs : pc[r] \notin LivePlaces
        => Cardinality(Active(u)) >= quota[u]

-----------------------------------------------------------------------------
(* The inductive invariant: what every single step preserves, and what the *)
(* safety properties above follow from.                                    *)

\* A thread is inside start_queue_drain exactly when it holds _runner_lock.
LockInv == \A d \in Drainers : dpc[d] # "out" <=> lock = d

\* What a drain has selected is still without a thread when it gets to it: the
\* row may have been cancelled meanwhile, nothing else.
BatchInv ==
    \A d \in Drainers :
        /\ dpc[d] \in {"select", "dispatch"} => duser[d] \in Users
        /\ batch[d] # {} => dpc[d] = "dispatch"
        /\ \A r \in batch[d] : /\ pc[r] = "none"
                               /\ Owner[r] = duser[d]
                               /\ state[r] \in {"QUEUED", "CANCELLED"}

\* The row of a run against the place of its thread.
RowInv ==
    \A r \in Runs :
        /\ pc[r] = "none" => state[r] \in {"ABSENT", "QUEUED", "CANCELLED"}
        /\ pc[r] # "none" => state[r] \notin {"ABSENT", "QUEUED"}
        /\ state[r] \in ActiveStates => pc[r] \in VerdictPlaces \union {"lost"}
        /\ pc[r] \in VerdictPlaces
              => state[r] \in ActiveStates \union {"CANCELLED", "TIMED_OUT"}
        /\ r \in admitted => state[r] = "ABSENT" /\ r \notin Retriable
        /\ cancel[r] # "idle" => state[r] # "ABSENT"

\* Room found by a drain, and runs it has selected, are taken out of the limit
\* while it holds the lock: everybody else can only lower the claims.
LimitInv ==
    /\ \A u \in Users : quota[u] <= peak[u] /\ Cardinality(FirstClaims(u)) <= peak[u]
    /\ \A d \in Drainers :
          /\ dpc[d] = "select"
                => Cardinality(FirstClaims(duser[d])) + room[d] <= peak[duser[d]]
          /\ dpc[d] = "dispatch"
                => Cardinality(FirstClaims(duser[d])) + Cardinality(batch[d])
                      <= peak[duser[d]]

\* A thread that is about to decide has packaged the result.
ResultInv ==
    /\ \A r \in Runs : pc[r] = "decide" => r \in packaged
    /\ VerdictIsEarned

\* The sandbox of a run against its thread and against the pass of the reconciler: a
\* thread knows the sandbox that has started for it, and holds a running one only where
\* it writes no active state, so what a pass has found terminal stays so while it runs.
BoxInv ==
    \A r \in Runs :
        /\ pc[r] \in {"none", "load", "staging", "creating"} => container[r] = "none"
        /\ pc[r] \in {"check", "verdict", "collect", "decide", "removed"}
              => container[r] # "running"
        /\ pc[r] = "removed" => container[r] # "exited"
        /\ container[r] \in {"running", "exited"} /\ pc[r] \in LivePlaces => r \in held
        /\ cleanup[r] = "DESTROYED"
              => pc[r] = "done" /\ container[r] \notin {"running", "exited"}
        /\ r \in listed \/ victim = r => container[r] # "none"
        /\ victim = r /\ container[r] = "running" => state[r] \in TerminalStates

IInv == TypeOK /\ LockInv /\ BatchInv /\ RowInv /\ LimitInv /\ ResultInv /\ BoxInv

-----------------------------------------------------------------------------

\* A queued run does not stay: unless its command goes silent, it comes to a
\* terminal row with no thread at work on it, for good. It is dispatched once there is room,
\* its thread returns even if the command would run for ever, and a cancel on the
\* way, which frees room while the thread still works, costs nobody the wakeup.
EveryRunEnds ==
    \A r \in Runs \ Silent :
        state[r] = "QUEUED"
            ~> [](state[r] \in TerminalStates /\ pc[r] \notin LivePlaces)

\* A sandbox left behind by a terminal run, whether the thread died, never knew
\* of it or failed to remove it, is removed by some pass of the reconciler.
Leftover(r) ==
    r \in Present /\ state[r] \in TerminalStates /\ pc[r] \notin LivePlaces
LeftoverIsSwept == \A r \in Runs : Leftover(r) ~> r \notin Present

-----------------------------------------------------------------------------
(* What documents and tests say of the program and the code does not do.   *)

\* docs/lifecycle.md: TIMED_OUT is how a run ends that exceeded its limit.
TimedOutIsFinal ==
    [][\A r \in Runs : state[r] = "TIMED_OUT" => state'[r] \notin ActiveStates]_vars

\* README: at most max_active_runs active child runs per trainer.
ActiveWithinLimit == \A u \in Users : Cardinality(Active(u)) <= peak[u]

\* docs/security-cost-cleanup.md: after a crash the work resumes from the rows.
ActiveIsResumed ==
    \A r \in Runs : state[r] \in ActiveStates ~> state[r] \notin ActiveStates

=============================================================================
