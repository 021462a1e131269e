------------------------------ MODULE RunTable ------------------------------
(***************************************************************************)
(* The state every part of the execution path of the control plane shares: *)
(* the rows of the runs table (api/app/models.py), the execution sandboxes *)
(* Docker holds for them, the lock and the threads of                      *)
(* api/app/docker_runner.py, and the requests that are half way through.   *)
(*                                                                         *)
(* One step of the system is one database transaction, one Docker call or  *)
(* one decision taken from values read earlier: whatever another thread    *)
(* can observe, or can slip in front of, is a step of its own.             *)
(***************************************************************************)
EXTENDS Integers, FiniteSets

CONSTANTS
    Runs,         \* rows that may be inserted
    Users,        \* trainers
    Owner,        \* Owner[r]: the user_id of run r
    MaxActive,    \* MaxActive[u]: quotas.max_active_runs to begin with
    MaxQueued,    \* MaxQueued[u]: quotas.max_queued_runs
    PatchTo,      \* values an operator may set max_active_runs to
    Drainers,     \* threads able to be inside start_queue_drain at once
    NoDrainer,    \* nobody holds _runner_lock
    NoRun,        \* no run
    NoUser,       \* no user
    Cancellable,  \* runs some user may ask to cancel
    Retriable,    \* rows that exist only as the retry of another one
    Silent,       \* runs whose command writes no line once it is streaming
    Faults,       \* what may fail in this instance, a subset of FaultKinds
    Reconciling,  \* whether the reconciler's passes are part of the instance
    MaxCrashes    \* how often the API process may die and restart

\* Where a call of the run's thread, or of a drain, can raise:
\*   "parent"    the mode is disabled, the parent is missing or not RUNNING
\*   "stage"     the task bundle is missing or cannot be unpacked
\*   "create"    Docker refuses to create the container
\*   "start"     Docker creates the container but cannot start it
\*   "attach"    Docker fails to answer for the new container
\*   "stream"    the log stream, the kill or the wait fails on the way
\*   "collect"   reading the result file or copying the artifacts raises
\*   "remove"    Docker answers a removal with an error
\*   "transport" the removal fails below Docker's own error classes
FaultKinds ==
    {"parent", "stage", "create", "start", "attach", "stream", "collect", "remove",
     "transport"}

ASSUME RunsFinite == IsFiniteSet(Runs)
ASSUME OwnerType == Owner \in [Runs -> Users]
ASSUME LimitsType == /\ MaxActive \in [Users -> Nat]
                     /\ MaxQueued \in [Users -> Nat]
                     /\ PatchTo \subseteq Nat
ASSUME LimitsPositive ==
    0 \notin PatchTo /\ \A u \in Users : MaxActive[u] > 0 /\ MaxQueued[u] > 0
ASSUME OutsiderNames == /\ NoRun \notin Runs
                        /\ NoDrainer \notin Drainers
                        /\ NoUser \notin Users
ASSUME InstanceType == /\ Cancellable \subseteq Runs
                       /\ Retriable \subseteq Runs
                       /\ Silent \subseteq Runs
                       /\ Faults \subseteq FaultKinds
                       /\ Reconciling \in BOOLEAN
                       /\ MaxCrashes \in Nat

VARIABLES
    state,      \* runs.state, "ABSENT" while the row does not exist
    queuedAt,   \* runs.queued_at, 0 while the row does not exist
    clock,      \* the last queued_at handed out
    hasId,      \* runs whose container_id column is set
    passed,     \* runs whose passed column is true
    packaged,   \* runs whose result package was copied and recorded
    cleanup,    \* runs.cleanup_state
    revived,    \* history: rows that went from a terminal to an active state
    pc,         \* where the thread of each run is in _execute_run_thread
    held,       \* threads whose local variable container is not None
    exitZero,   \* threads that were given exit code 0
    overdue,    \* streaming threads whose deadline has passed
    container,  \* the execution sandbox of each run, as Docker sees it
    lock,       \* holder of _runner_lock
    dpc,        \* where each draining thread is in start_queue_drain
    todo,       \* users the drain has still to look at
    duser,      \* the user _drain_user_queue works for
    room,       \* its local variable available
    batch,      \* the runs it selected and has not dispatched yet
    pending,    \* calls of start_queue_drain that have not begun
    cancel,     \* progress of a cancel request for each run
    admitted,   \* create requests that passed the queue limit, not inserted yet
    crowd,      \* history: the most requests of a user that were half way at once
    quota,      \* quotas.max_active_runs of each user
    peak,       \* history: the highest quota each user has had
    listed,     \* sandboxes the reconciler's pass has still to look at
    victim,     \* the run whose sandbox the pass is about to remove
    crashes     \* how often the process has died

rowVars == <<state, queuedAt, clock, hasId, passed, packaged, cleanup, revived>>
threadVars == <<pc, held, exitZero, overdue>>
drainVars == <<lock, dpc, todo, duser, room, batch>>
requestVars == <<cancel, admitted, crowd>>
sweepVars == <<listed, victim>>
quotaVars == <<quota, peak>>

vars == <<rowVars, threadVars, container, drainVars, pending, requestVars,
          quotaVars, sweepVars, crashes>>

-----------------------------------------------------------------------------

ActiveStates ==
    {"PROVISIONING", "STAGING_INPUTS", "RUNNING", "COLLECTING_OUTPUTS", "FINALIZING"}

TerminalStates ==
    {"SUCCEEDED", "FAILED", "TIMED_OUT", "CANCELLED", "INFRA_FAILED"}

RunStates == {"QUEUED"} \union ActiveStates \union TerminalStates

\* With a mistake: a cancelled row can still be picked up.
Undone(u) == {r \in Runs : Owner[r] = u /\ state[r] \in {"QUEUED", "CANCELLED"}}

\* What the columns of every query on runs are filtered by.
Active(u) == {r \in Runs : Owner[r] = u /\ state[r] \in ActiveStates}
Queued(u) == {r \in Runs : Owner[r] = u /\ state[r] = "QUEUED"}

\* Sandboxes that containers.list(all=True) returns.
Present == {r \in Runs : container[r] \in {"created", "running", "exited"}}

\* Places of a run's thread between its start and its end.
LivePlaces ==
    {"load", "staging", "creating", "created", "attach", "streaming", "check",
     "verdict", "collect", "decide", "failing", "cleanup", "removed", "unremoved"}

\* "none": never dispatched; "done": the thread returned; "broken": it died in
\* its finally block; "lost": it died with the process.
Places == LivePlaces \union {"none", "done", "broken", "lost"}

\* UPDATE runs SET state = s WHERE id = r. Every writer in the code assigns the
\* attribute and commits: nothing compares the row with the value read earlier.
Write(r, s) ==
    /\ state' = [state EXCEPT ![r] = s]
    /\ revived' = IF state[r] \in TerminalStates /\ s \in ActiveStates
                  THEN revived \union {r} ELSE revived

\* INSERT INTO runs: state QUEUED, queued_at now, and the drain the request
\* schedules as a background task.
Insert(r) ==
    /\ state' = [state EXCEPT ![r] = "QUEUED"]
    /\ clock' = clock + 1
    /\ queuedAt' = [queuedAt EXCEPT ![r] = clock + 1]
    /\ pending' = pending + 1

RowInit ==
    /\ state = [r \in Runs |-> "ABSENT"]
    /\ queuedAt = [r \in Runs |-> 0]
    /\ clock = 0
    /\ hasId = {}
    /\ passed = {}
    /\ packaged = {}
    /\ cleanup = [r \in Runs |-> "PENDING"]
    /\ revived = {}

=============================================================================
