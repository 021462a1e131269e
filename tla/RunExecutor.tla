----------------------------- MODULE RunExecutor -----------------------------
(***************************************************************************)
(* _execute_run_thread: the thread that takes one run from dispatch to its *)
(* end, with _stream_until_done, _collect_artifacts and _read_passed, and  *)
(* what its sandbox and the clock do meanwhile.                            *)
(*                                                                         *)
(* Every exception of the try block goes through Fail. An action whose     *)
(* calls can raise has a disjunct that leads there; which calls raise in   *)
(* an instance is the constant Faults.                                     *)
(***************************************************************************)
EXTENDS RunTable

outsideThread == <<queuedAt, clock, drainVars, requestVars, quotaVars,
                   sweepVars, crashes>>

columns == <<hasId, passed, packaged, cleanup>>
locals == <<held, exitZero, overdue>>

\* The thread of r moves from one place to another.
Move(r, from, to) == pc[r] = from /\ pc' = [pc EXCEPT ![r] = to]

ThreadInit ==
    /\ pc = [r \in Runs |-> "none"]
    /\ held = {}
    /\ exitZero = {}
    /\ overdue = {}
    /\ container = [r \in Runs |-> "none"]

-----------------------------------------------------------------------------

\* The parent is RUNNING, or was PAUSED and resumes: RUN_STARTED, STAGING_INPUTS.
Accept(r) ==
    /\ \/ /\ Move(r, "load", "staging")
          /\ Write(r, "STAGING_INPUTS")
       \/ /\ "parent" \in Faults
          /\ Move(r, "load", "failing")
          /\ UNCHANGED <<state, revived>>
    /\ UNCHANGED <<outsideThread, columns, locals, container, pending>>

\* Unpack the bundle, write the default task files, INPUTS_STAGED, RUNNING.
Stage(r) ==
    /\ \/ /\ Move(r, "staging", "creating")
          /\ Write(r, "RUNNING")
       \/ /\ "stage" \in Faults
          /\ Move(r, "staging", "failing")
          /\ UNCHANGED <<state, revived>>
    /\ UNCHANGED <<outsideThread, columns, locals, container, pending>>

\* client.containers.run: create, then start. When the start fails the created
\* container stays, and the local variable container is still None.
CreateContainer(r) ==
    /\ \/ /\ Move(r, "creating", "created")
          /\ container' = [container EXCEPT ![r] = "running"]
          /\ held' = held \union {r}
       \/ /\ "start" \in Faults
          /\ Move(r, "creating", "failing")
          /\ container' = [container EXCEPT ![r] = "created"]
          /\ UNCHANGED held
       \/ /\ "create" \in Faults
          /\ Move(r, "creating", "failing")
          /\ UNCHANGED <<container, held>>
    /\ UNCHANGED <<outsideThread, rowVars, exitZero, overdue, pending>>

\* run.container_id = container.id[:12]; commit.
RecordId(r) ==
    /\ Move(r, "created", "attach")
    /\ hasId' = hasId \union {r}
    /\ UNCHANGED <<outsideThread, state, revived, passed, packaged, cleanup, locals,
                   container, pending>>

\* container.reload(), SANDBOX_CREATED, deadline = time.time() + timeout. The
\* reload raises when somebody has removed the container already.
Attach(r) ==
    /\ \/ /\ r \in Present
          /\ Move(r, "attach", "streaming")
       \/ /\ r \notin Present \/ "attach" \in Faults
          /\ Move(r, "attach", "failing")
    /\ UNCHANGED <<outsideThread, rowVars, locals, container, pending>>

\* With a mistake: the deadline is looked at only once the container has ended.
StreamTimeoutLate(r) ==
    /\ Move(r, "streaming", "check")
    /\ r \in overdue \ Silent
    /\ container[r] = "exited"
    /\ Write(r, "TIMED_OUT")
    /\ overdue' = overdue \ {r}
    /\ UNCHANGED <<outsideThread, columns, held, exitZero, container, pending>>

\* A line arrives after the deadline and the container still runs: kill it,
\* TIMED_OUT, and return 124 to _execute_run_thread, which goes on.
StreamTimeout(r) ==
    /\ Move(r, "streaming", "check")
    /\ r \in overdue \ Silent
    /\ container[r] = "running"
    /\ container' = [container EXCEPT ![r] = "exited"]
    /\ Write(r, "TIMED_OUT")
    /\ overdue' = overdue \ {r}
    /\ UNCHANGED <<outsideThread, columns, held, exitZero, pending>>

\* The log stream ends with the container. wait() returns its status, or raises
\* if the container is gone; a line that arrives late makes kill() raise.
StreamEnd(r) ==
    /\ container[r] \in {"exited", "gone"}
    /\ \/ /\ Move(r, "streaming", "check")
          /\ \/ container[r] = "exited" /\ exitZero' = exitZero \union {r}
             \/ UNCHANGED exitZero
       \/ /\ container[r] = "gone" \/ r \in overdue \ Silent
          /\ Move(r, "streaming", "failing")
          /\ UNCHANGED exitZero
    /\ overdue' = overdue \ {r}
    /\ UNCHANGED <<outsideThread, rowVars, held, container, pending>>

\* The connection the lines come through breaks, or the kill is refused.
StreamBreaks(r) ==
    /\ "stream" \in Faults
    /\ Move(r, "streaming", "failing")
    /\ overdue' = overdue \ {r}
    /\ UNCHANGED <<outsideThread, rowVars, held, exitZero, container, pending>>

\* Read the row again: a cancelled run is left as it is.
CheckCancelled(r) ==
    /\ \/ /\ state[r] = "CANCELLED"
          /\ Move(r, "check", "cleanup")
       \/ /\ state[r] # "CANCELLED"
          /\ Move(r, "check", "verdict")
    /\ UNCHANGED <<outsideThread, rowVars, locals, container, pending>>

\* passed = _read_passed(...): false unless the exit code is 0, then what the
\* result file says; COLLECTING_OUTPUTS.
BeginCollect(r) ==
    /\ \/ /\ Move(r, "verdict", "collect")
          /\ Write(r, "COLLECTING_OUTPUTS")
          /\ \/ r \in exitZero /\ passed' = passed \union {r}
             \/ UNCHANGED passed
       \/ /\ "collect" \in Faults
          /\ r \in exitZero
          /\ Move(r, "verdict", "failing")
          /\ UNCHANGED <<state, revived, passed>>
    /\ UNCHANGED <<outsideThread, hasId, packaged, cleanup, locals, container, pending>>

\* _collect_artifacts: copy, archive, Artifact row, RESULT_COPIED_TO_PARENT.
Collect(r) ==
    /\ \/ /\ Move(r, "collect", "decide")
          /\ packaged' = packaged \union {r}
       \/ /\ "collect" \in Faults
          /\ Move(r, "collect", "failing")
          /\ UNCHANGED packaged
    /\ UNCHANGED <<outsideThread, state, revived, hasId, passed, cleanup, locals,
                   container, pending>>

\* With a mistake: the exit code alone decides.
ByExit(r) == IF r \in exitZero THEN "SUCCEEDED" ELSE "FAILED"

Verdict(r) == IF r \in exitZero \intersect passed THEN "SUCCEEDED" ELSE "FAILED"

\* With a mistake: something after the commit of the verdict raises.
DecideAndRaise(r) ==
    /\ Move(r, "decide", "failing")
    /\ Write(r, Verdict(r))
    /\ UNCHANGED <<outsideThread, columns, locals, container, pending>>

\* SUCCEEDED or FAILED, committed together with RUN_COMPLETED.
Decide(r) ==
    /\ Move(r, "decide", "cleanup")
    /\ Write(r, Verdict(r))
    /\ UNCHANGED <<outsideThread, columns, locals, container, pending>>

\* With a mistake: the exception is swallowed.
FailUnrecorded(r) ==
    /\ Move(r, "failing", "cleanup")
    /\ UNCHANGED <<outsideThread, rowVars, locals, container, pending>>

\* except Exception: INFRA_FAILED.
Fail(r) ==
    /\ Move(r, "failing", "cleanup")
    /\ Write(r, "INFRA_FAILED")
    /\ UNCHANGED <<outsideThread, columns, locals, container, pending>>

\* With a mistake: an error of the removal is ignored.
RemoveUnchecked(r) ==
    /\ Move(r, "cleanup", "removed")
    /\ \/ /\ r \in held \intersect Present
          /\ container' = [container EXCEPT ![r] = "gone"]
       \/ /\ r \notin held \intersect Present \/ "remove" \in Faults
          /\ UNCHANGED container
    /\ UNCHANGED <<outsideThread, rowVars, locals, pending>>

\* finally: container.remove(force=True), if there is a container to remove.
Remove(r) ==
    /\ \/ /\ r \notin held
          /\ Move(r, "cleanup", "removed")
          /\ UNCHANGED container
       \/ /\ r \in held \intersect Present
          /\ Move(r, "cleanup", "removed")
          /\ container' = [container EXCEPT ![r] = "gone"]
       \/ /\ r \in held
          /\ r \notin Present \/ "remove" \in Faults
          /\ Move(r, "cleanup", "unremoved")
          /\ UNCHANGED container
    /\ UNCHANGED <<outsideThread, rowVars, locals, pending>>

\* The removal fails below DockerException: the finally block ends there, no
\* cleanup state is written and start_queue_drain is not called.
RemoveBreaks(r) ==
    /\ "transport" \in Faults
    /\ r \in held
    /\ Move(r, "cleanup", "broken")
    /\ UNCHANGED <<outsideThread, rowVars, locals, container, pending>>

\* With a mistake: the finished thread does not drain the queue.
ForgetDrain == UNCHANGED pending

CallDrain == pending' = pending + 1

\* Record the cleanup state and call start_queue_drain.
Record(r) ==
    /\ \/ /\ Move(r, "removed", "done")
          /\ cleanup' = [cleanup EXCEPT ![r] = "DESTROYED"]
       \/ /\ Move(r, "unremoved", "done")
          /\ cleanup' = [cleanup EXCEPT ![r] = "FAILED"]
    /\ CallDrain
    /\ UNCHANGED <<outsideThread, state, revived, hasId, passed, packaged, locals, container>>

ThreadStep(r) ==
    \/ Accept(r) \/ Stage(r) \/ CreateContainer(r) \/ RecordId(r) \/ Attach(r)
    \/ StreamTimeout(r) \/ StreamEnd(r) \/ StreamBreaks(r) \/ CheckCancelled(r)
    \/ BeginCollect(r) \/ Collect(r) \/ Decide(r) \/ Fail(r) \/ Remove(r)
    \/ RemoveBreaks(r) \/ Record(r)

-----------------------------------------------------------------------------

\* The task's command ends by itself.
ContainerExit(r) ==
    /\ container[r] = "running"
    /\ container' = [container EXCEPT ![r] = "exited"]
    /\ UNCHANGED <<outsideThread, rowVars, threadVars, pending>>

\* timeout_seconds pass while the thread waits for the next line.
Deadline(r) ==
    /\ pc[r] = "streaming"
    /\ r \notin overdue
    /\ overdue' = overdue \union {r}
    /\ UNCHANGED <<outsideThread, rowVars, pc, held, exitZero, container, pending>>

=============================================================================
