----------------------------- MODULE RunRequests -----------------------------
(***************************************************************************)
(* The requests of api/app/main.py that write runs while the threads of    *)
(* the runner work on them: create, retry and cancel. Each runs in a       *)
(* thread and a session of its own and takes no lock.                      *)
(***************************************************************************)
EXTENDS RunTable

outsideRequest == <<hasId, passed, packaged, cleanup, threadVars, drainVars,
                    quotaVars, sweepVars, crashes>>

RequestInit ==
    /\ cancel = [r \in Runs |-> "idle"]
    /\ admitted = {}
    /\ crowd = [u \in Users |-> 0]
    /\ quota = MaxActive
    /\ peak = MaxActive

-----------------------------------------------------------------------------

\* With a mistake: the limit itself is let through.
HasRoomOrFull(u) == Cardinality(Queued(u)) <= MaxQueued[u]

HasRoom(u) == Cardinality(Queued(u)) < MaxQueued[u]

\* Requests that have counted the queue and not inserted their row.
HalfWay(u, S) == Cardinality({r \in S : Owner[r] = u})

\* _create_run_record counts the queued runs of the user against the limit.
SubmitCheck(r) ==
    /\ r \notin Retriable
    /\ state[r] = "ABSENT"
    /\ r \notin admitted
    /\ HasRoom(Owner[r])
    /\ admitted' = admitted \union {r}
    /\ LET n == HalfWay(Owner[r], admitted')
       IN  crowd' = [crowd EXCEPT ![Owner[r]] = IF n > @ THEN n ELSE @]
    /\ UNCHANGED <<outsideRequest, state, revived, queuedAt, clock, container, pending,
                   cancel>>

\* ... and inserts the row after ensure_parent and the validation of task.toml.
SubmitInsert(r) ==
    /\ r \in admitted
    /\ admitted' = admitted \ {r}
    /\ Insert(r)
    /\ UNCHANGED <<outsideRequest, revived, container, cancel, crowd>>

\* retry: the row of a terminal run is copied into a new one. No limit is read.
Retry(old, new) ==
    /\ state[old] \in TerminalStates
    /\ new \in Retriable
    /\ state[new] = "ABSENT"
    /\ Owner[new] = Owner[old]
    /\ Insert(new)
    /\ UNCHANGED <<outsideRequest, revived, container, cancel, admitted, crowd>>

\* cancel_run loads the row; a terminal run is answered with 409.
CancelCheck(r) ==
    /\ r \in Cancellable
    /\ cancel[r] = "idle"
    /\ state[r] \notin TerminalStates \union {"ABSENT"}
    /\ cancel' = [cancel EXCEPT ![r] = "checked"]
    /\ UNCHANGED <<outsideRequest, state, revived, queuedAt, clock, container, pending,
                   admitted, crowd>>

\* run.state = CANCELLED; commit.
CancelCommit(r) ==
    /\ cancel[r] = "checked"
    /\ cancel' = [cancel EXCEPT ![r] = "committed"]
    /\ Write(r, "CANCELLED")
    /\ UNCHANGED <<outsideRequest, queuedAt, clock, container, pending, admitted,
                   crowd>>

\* With a container_id in the row, remove the containers labelled with the run.
\* A removal that raises ends the request with the row already CANCELLED.
CancelKill(r) ==
    /\ cancel[r] = "committed"
    /\ cancel' = [cancel EXCEPT ![r] = "idle"]
    /\ \/ /\ r \in hasId \intersect Present
          /\ container' = [container EXCEPT ![r] = "gone"]
       \/ /\ r \notin hasId \intersect Present \/ "remove" \in Faults
          /\ UNCHANGED container
    /\ UNCHANGED <<outsideRequest, state, revived, queuedAt, clock, pending, admitted,
                   crowd>>

\* update_quota: an operator changes the limit of a trainer. Nothing drains.
UpdateQuota(u, n) ==
    /\ quota' = [quota EXCEPT ![u] = n]
    /\ peak' = [peak EXCEPT ![u] = IF n > @ THEN n ELSE @]
    /\ UNCHANGED <<rowVars, threadVars, container, drainVars, pending, requestVars,
                   sweepVars, crashes>>

CancelStep(r) == CancelCommit(r) \/ CancelKill(r)

RequestStep(r) ==
    \/ SubmitCheck(r) \/ SubmitInsert(r) \/ CancelCheck(r) \/ CancelStep(r)
    \/ \E old \in Runs : Retry(old, r)

=============================================================================
