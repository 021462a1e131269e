---------------------------- MODULE SandboxProofs ----------------------------
(***************************************************************************)
(* Proofs about the sandboxes of the runs: what the thread knows of them,  *)
(* what cleanup_state says and what the reconciler takes.                  *)
(***************************************************************************)
EXTENDS DockerRunnerProofs

USE DEF columns, locals, Called, Unheld, MarkDispatched, Orphaned, Verdict, CallDrain

\* A drain starts threads for runs that have no sandbox yet, and touches none.
LEMMA BoxDrain ==
    ASSUME Core, BoxInv, NEW d \in Drainers, DrainStep(d)
    PROVE  BoxInv'
<1> USE DEF outsideDrain, rowVars, sweepVars
<1>1. CASE DrainDispatch(d)
  <2>1. PICK r \in batch[d] :
            /\ Write(r, "PROVISIONING")
            /\ pc' = [pc EXCEPT ![r] = "load"]
    BY <1>1 DEF DrainDispatch
  <2>2. r \in Runs /\ pc[r] = "none"
    BY <2>1 DEF Core, TypeOK, BatchInv
  <2>3. UNCHANGED <<held, cleanup, container, listed, victim>>
    BY <1>1 DEF DrainDispatch
  <2> QED
    BY <2>1, <2>2, <2>3 DEF Write, Core, TypeOK, BoxInv, LivePlaces
<1>2. CASE DrainStart(d) \/ (\E u \in Users : DrainCount(d, u)) \/ DrainSelect(d)
              \/ DrainNext(d) \/ DrainEnd(d)
  <2>1. UNCHANGED <<state, pc, held, cleanup, container, listed, victim>>
    BY <1>2 DEF DrainStart, DrainCount, DrainSelect, DrainNext, DrainEnd
  <2> QED
    BY <2>1 DEF BoxInv
<1> QED
  BY <1>1, <1>2 DEF DrainStep

\* A request touches a sandbox only by removing it, and gives an active state to no row
\* that has one.
LEMMA BoxRequest ==
    ASSUME Core, BoxInv, NEW q \in Runs, RequestStep(q)
    PROVE  BoxInv'
<1> USE DEF outsideRequest, threadVars, sweepVars
<1>1. ASSUME NEW r \in Runs, Insert(r), state[r] = "ABSENT",
             UNCHANGED <<pc, held, cleanup, container, listed, victim>>
      PROVE  BoxInv'
  <2>1. pc[r] = "none"
    BY <1>1 DEF Core, RowInv
  <2>2. container[r] = "none"
    BY <2>1 DEF BoxInv
  <2> QED
    BY <1>1, <2>2 DEF Insert, Core, TypeOK, BoxInv
<1>2. CASE SubmitInsert(q)
  BY <1>1, <1>2 DEF SubmitInsert, Core, RowInv
<1>3. CASE \E old \in Runs : Retry(old, q)
  BY <1>1, <1>3 DEF Retry
<1>4. CASE CancelCommit(q)
  BY <1>4 DEF CancelCommit, Write, Core, TypeOK, BoxInv, TerminalStates
<1>5. CASE CancelKill(q)
  <2>1. UNCHANGED <<state, pc, held, cleanup, listed, victim>>
    BY <1>5 DEF CancelKill
  <2>2. \/ container' = container
        \/ q \in Present /\ container' = [container EXCEPT ![q] = "gone"]
    BY <1>5 DEF CancelKill, Present
  <2> QED
    BY <2>1, <2>2 DEF Present, Core, TypeOK, BoxInv
<1>6. CASE SubmitCheck(q) \/ CancelCheck(q)
  BY <1>6 DEF SubmitCheck, CancelCheck, BoxInv
<1> QED
  BY <1>2, <1>3, <1>4, <1>5, <1>6 DEF RequestStep, CancelStep

\* A thread creates the sandbox while there is none, and says DESTROYED only of one it
\* has removed or never had.
LEMMA BoxThread ==
    ASSUME Core, BoxInv, NEW q \in Runs,
           ThreadStep(q) \/ ContainerExit(q) \/ Deadline(q)
    PROVE  BoxInv'
<1> USE DEF Move, Write, outsideThread, rowVars, threadVars, sweepVars, Core, TypeOK, BoxInv,
        LivePlaces, TerminalStates
<1>1. CASE Accept(q)
  BY <1>1 DEF Accept
<1>2. CASE Stage(q)
  BY <1>2 DEF Stage
<1>3. CASE CreateContainer(q)
  BY <1>3 DEF CreateContainer
<1>4. CASE RecordId(q)
  BY <1>4 DEF RecordId
<1>5. CASE Attach(q)
  BY <1>5 DEF Attach
<1>6. CASE StreamTimeout(q)
  BY <1>6 DEF StreamTimeout
<1>7. CASE StreamEnd(q) \/ StreamBreaks(q)
  BY <1>7 DEF StreamEnd, StreamBreaks
<1>8. CASE CheckCancelled(q)
  BY <1>8 DEF CheckCancelled
<1>9. CASE BeginCollect(q)
  BY <1>9 DEF BeginCollect
<1>10. CASE Collect(q)
  BY <1>10 DEF Collect
<1>11. CASE Decide(q)
  BY <1>11 DEF Decide
<1>12. CASE Fail(q)
  BY <1>12 DEF Fail
<1>13. CASE Remove(q)
  BY <1>13 DEF Remove, Present
<1>14. CASE RemoveBreaks(q)
  BY <1>14 DEF RemoveBreaks
<1>15. CASE Record(q)
  BY <1>15 DEF Record
<1>16. CASE ContainerExit(q)
  BY <1>16 DEF ContainerExit
<1>17. CASE Deadline(q)
  BY <1>17 DEF Deadline
<1> QED
  BY <1>1, <1>2, <1>3, <1>4, <1>5, <1>6, <1>7, <1>8, <1>9, <1>10, <1>11, <1>12, <1>13,
     <1>14, <1>15, <1>16, <1>17 DEF ThreadStep

\* A pass lists sandboxes that exist and picks a victim whose row is terminal.
LEMMA BoxSweep ==
    ASSUME Core, BoxInv, SweepStep \/ Crash
    PROVE  BoxInv'
<1> USE DEF outsideSweep, rowVars, threadVars, Core, TypeOK, BoxInv
<1>1. CASE SweepList
  BY <1>1, OutsiderNames DEF SweepList, Present
<1>2. ASSUME NEW r \in Runs, SweepExamine(r)
      PROVE  BoxInv'
  BY <1>2, OutsiderNames DEF SweepExamine
<1>3. ASSUME NEW r \in Runs, SweepRemove(r)
      PROVE  BoxInv'
  BY <1>3, OutsiderNames DEF SweepRemove, Present
<1>4. CASE Crash
  BY <1>4, OutsiderNames DEF Crash, LivePlaces
<1> QED
  BY <1>1, <1>2, <1>3, <1>4 DEF SweepStep

LEMMA BoxStep ==
    ASSUME Core, BoxInv, [Next]_vars
    PROVE  BoxInv'
<1>1. ASSUME NEW u \in Users, NEW n \in PatchTo, UpdateQuota(u, n)
      PROVE  BoxInv'
  BY <1>1 DEF UpdateQuota, rowVars, threadVars, sweepVars, BoxInv
<1>2. CASE UNCHANGED vars
  BY <1>2 DEF vars, rowVars, threadVars, sweepVars, BoxInv
<1> QED
  BY <1>1, <1>2, BoxDrain, BoxRequest, BoxThread, BoxSweep DEF Next

\* What ties sandboxes to rows, threads and passes holds in every state.
THEOREM BoxHolds == Spec => []BoxInv
<1>1. Init => BoxInv
  BY OutsiderNames DEF Init, RowInit, ThreadInit, SweepInit, BoxInv
<1> QED
  BY <1>1, BoxStep, CoreHolds, PTL DEF Spec

\* DESTROYED is never recorded over a sandbox that has started and is still there
\* (the finally block of _execute_run_thread).
THEOREM DestroyedIsStoppedHolds == Spec => []DestroyedIsStopped
<1>1. BoxInv => DestroyedIsStopped
  BY DEF BoxInv, DestroyedIsStopped
<1> QED
  BY <1>1, BoxHolds, PTL

\* Although it reads the row first and removes later, a pass never takes a running sandbox
\* from a run that is active or queued (cleanup_orphans).
THEOREM SweepSparesActiveHolds == Spec => SweepSparesActive
<1>1. BoxInv => ~SweepTakesActive
  BY DEF BoxInv, SweepTakesActive, TerminalStates, ActiveStates
<1> QED
  BY <1>1, BoxHolds, PTL DEF SweepSparesActive

-----------------------------------------------------------------------------

\* The invariant the recovery run checks is inductive and holds for every instance
\* (the rows against the threads, the drains and the limits).
THEOREM IInvHolds == Spec => []IInv
<1>1. Init => LimitInv
  BY LimitInit
<1>2. Init => ResultInv
  BY DEF Init, RowInit, ThreadInit, ResultInv, VerdictIsEarned
<1>3. Core /\ LimitInv /\ ResultInv /\ BoxInv => IInv
  BY DEF Core, IInv
<1> QED
  BY <1>1, <1>2, <1>3, LimitStep, ResultStep, BoxHolds, CoreHolds, PTL DEF Spec

=============================================================================
