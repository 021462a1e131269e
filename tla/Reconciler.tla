----------------------------- MODULE Reconciler -----------------------------
(***************************************************************************)
(* What cleans up behind the threads: the passes of cleanup_orphans, which *)
(* the reconciler loop makes every minute, and the death and restart of    *)
(* the API process, after which startup() drains the queue once.           *)
(***************************************************************************)
EXTENDS RunTable

outsideSweep == <<rowVars, threadVars, drainVars, requestVars, quotaVars, pending,
                  crashes>>

SweepInit == listed = {} /\ victim = NoRun

-----------------------------------------------------------------------------

\* containers.list(all=True) with the labels of an execution sandbox.
SweepList ==
    /\ Reconciling
    /\ listed = {}
    /\ victim = NoRun
    /\ Present # {}
    /\ listed' = Present
    /\ UNCHANGED <<outsideSweep, container, victim>>

\* With a mistake: whatever the row says; only what failed to be removed before.
AnyRow(r) == TRUE
FailedCleanup(r) == cleanup[r] = "FAILED"

Orphaned(r) == state[r] \in TerminalStates

\* Read the row of the next container: only a terminal run loses its container.
SweepExamine(r) ==
    /\ victim = NoRun
    /\ r \in listed
    /\ listed' = listed \ {r}
    /\ victim' = IF Orphaned(r) THEN r ELSE NoRun
    /\ UNCHANGED <<outsideSweep, container>>

\* container.remove(force=True). When it raises, nothing in cleanup_orphans
\* catches it: the rest of the pass is abandoned.
SweepRemove(r) ==
    /\ victim = r
    /\ victim' = NoRun
    /\ \/ /\ r \in Present
          /\ container' = [container EXCEPT ![r] = "gone"]
          /\ UNCHANGED listed
       \/ /\ r \notin Present \/ "remove" \in Faults
          /\ listed' = {}
          /\ UNCHANGED container
    /\ UNCHANGED outsideSweep

SweepStep == SweepList \/ \E r \in Runs : SweepExamine(r) \/ SweepRemove(r)

-----------------------------------------------------------------------------

\* The process dies and restarts: threads, drains, requests and the pass are
\* gone with their locals; rows and containers stay; startup() calls
\* start_queue_drain.
Crash ==
    /\ crashes < MaxCrashes
    /\ crashes' = crashes + 1
    /\ pc' = [r \in Runs |-> IF pc[r] \in LivePlaces THEN "lost" ELSE pc[r]]
    /\ held' = {}
    /\ overdue' = {}
    /\ lock' = NoDrainer
    /\ dpc' = [d \in Drainers |-> "out"]
    /\ todo' = [d \in Drainers |-> {}]
    /\ duser' = [d \in Drainers |-> NoUser]
    /\ room' = [d \in Drainers |-> 0]
    /\ batch' = [d \in Drainers |-> {}]
    /\ pending' = 1
    /\ cancel' = [r \in Runs |-> "idle"]
    /\ admitted' = {}
    /\ listed' = {}
    /\ victim' = NoRun
    /\ UNCHANGED <<rowVars, quotaVars, exitZero, container, crowd>>

=============================================================================
