-------------------------- MODULE DockerRunnerProofs --------------------------
(***************************************************************************)
(* Proofs about DockerRunner for every number of runs, users and drains,   *)
(* every limit, every set of faults and every number of crashes.           *)
(***************************************************************************)
EXTENDS DockerRunner, FiniteSetTheorems, TLAPS

\* Names for a tuple of variables or for one line of an action: always expanded.
USE DEF columns, locals, Called, Unheld, MarkDispatched, Orphaned, Verdict, CallDrain

-----------------------------------------------------------------------------
(* Types.                                                                  *)

\* A query on runs returns finitely many rows of Runs.
LEMMA QueriesAreFinite ==
    ASSUME NEW u
    PROVE  /\ Active(u) \subseteq Runs
           /\ Cardinality(Active(u)) \in Nat
           /\ IsFiniteSet(Active(u))
<1>1. Active(u) \subseteq Runs
  BY DEF Active
<1>2. IsFiniteSet(Active(u))
  BY <1>1, RunsFinite, FS_Subset
<1> QED
  BY <1>1, <1>2, FS_CardinalityType

\* Finitely many requests are half way.
LEMMA HalfWayIsFinite ==
    ASSUME NEW u, NEW S \in SUBSET Runs
    PROVE  HalfWay(u, S) \in Nat /\ IsFiniteSet({r \in S : Owner[r] = u})
<1>1. {r \in S : Owner[r] = u} \subseteq Runs
  OBVIOUS
<1>2. IsFiniteSet({r \in S : Owner[r] = u})
  BY <1>1, RunsFinite, FS_Subset
<1> QED
  BY <1>2, FS_CardinalityType DEF HalfWay

\* Writing a row keeps the columns it touches typed (Write, Insert).
LEMMA WriteType ==
    ASSUME TypeOK, NEW r \in Runs, NEW s \in RunStates, Write(r, s)
    PROVE  /\ state' \in [Runs -> RunStates \union {"ABSENT"}]
           /\ revived' \subseteq Runs
BY DEF TypeOK, Write

\* The states written somewhere in the code are states of the table.
LEMMA StatesWritten ==
    {"QUEUED", "PROVISIONING", "STAGING_INPUTS", "RUNNING", "COLLECTING_OUTPUTS",
     "SUCCEEDED", "FAILED", "TIMED_OUT", "CANCELLED", "INFRA_FAILED"} \subseteq RunStates
BY DEF RunStates, ActiveStates, TerminalStates

\* A drain keeps every variable in its type.
LEMMA DrainType ==
    ASSUME TypeOK, NEW d \in Drainers, DrainStep(d)
    PROVE  TypeOK'
<1> USE DEF outsideDrain, requestVars, quotaVars, sweepVars, rowVars
<1>1. CASE DrainStart(d)
  BY <1>1 DEF DrainStart, TypeOK
<1>2. ASSUME NEW u \in Users, DrainCount(d, u)
      PROVE  TypeOK'
  <2>1. quota[u] - Cardinality(Active(u)) \in Int
    BY QueriesAreFinite DEF TypeOK
  <2> QED
    BY <1>2, <2>1 DEF DrainCount, TypeOK
<1>3. CASE DrainSelect(d)
  BY <1>3 DEF DrainSelect, Queued, TypeOK
<1>4. CASE DrainDispatch(d)
  <2>1. PICK r \in batch[d] :
            /\ batch' = [batch EXCEPT ![d] = @ \ {r}]
            /\ Write(r, "PROVISIONING")
            /\ pc' = [pc EXCEPT ![r] = "load"]
    BY <1>4 DEF DrainDispatch
  <2>2. r \in Runs
    BY <2>1 DEF TypeOK
  <2>3. /\ state' \in [Runs -> RunStates \union {"ABSENT"}]
        /\ revived' \subseteq Runs
    BY <2>1, <2>2, StatesWritten, WriteType
  <2> QED
    BY <1>4, <2>1, <2>2, <2>3 DEF DrainDispatch, TypeOK, Places, LivePlaces
<1>5. CASE DrainNext(d)
  BY <1>5 DEF DrainNext, TypeOK
<1>6. CASE DrainEnd(d)
  BY <1>6 DEF DrainEnd, TypeOK
<1> QED
  BY <1>1, <1>2, <1>3, <1>4, <1>5, <1>6 DEF DrainStep

\* A thread, its sandbox and its deadline keep every variable in its type.
LEMMA ThreadType ==
    ASSUME TypeOK, NEW r \in Runs,
           ThreadStep(r) \/ ContainerExit(r) \/ Deadline(r)
    PROVE  TypeOK'
<1> USE DEF outsideThread, drainVars, requestVars, quotaVars, sweepVars, rowVars,
            threadVars, Move, Places, LivePlaces
<1>0. ASSUME NEW s \in {"STAGING_INPUTS", "RUNNING", "COLLECTING_OUTPUTS", "SUCCEEDED",
                        "FAILED", "TIMED_OUT", "INFRA_FAILED"},
             Write(r, s)
      PROVE  /\ state' \in [Runs -> RunStates \union {"ABSENT"}]
             /\ revived' \subseteq Runs
  BY <1>0, StatesWritten, WriteType
<1>1. CASE Accept(r)
  BY <1>0, <1>1 DEF Accept, TypeOK
<1>2. CASE Stage(r)
  BY <1>0, <1>2 DEF Stage, TypeOK
<1>3. CASE CreateContainer(r)
  BY <1>3 DEF CreateContainer, TypeOK
<1>4. CASE RecordId(r)
  BY <1>4 DEF RecordId, TypeOK
<1>5. CASE Attach(r)
  BY <1>5 DEF Attach, TypeOK
<1>6. CASE StreamTimeout(r)
  BY <1>0, <1>6 DEF StreamTimeout, TypeOK
<1>7. CASE StreamEnd(r) \/ StreamBreaks(r)
  BY <1>7 DEF StreamEnd, StreamBreaks, TypeOK
<1>8. CASE CheckCancelled(r)
  BY <1>8 DEF CheckCancelled, TypeOK
<1>9. CASE BeginCollect(r)
  BY <1>0, <1>9 DEF BeginCollect, TypeOK
<1>10. CASE Collect(r)
  BY <1>10 DEF Collect, TypeOK
<1>11. CASE Decide(r)
  BY <1>0, <1>11 DEF Decide, TypeOK
<1>12. CASE Fail(r)
  BY <1>0, <1>12 DEF Fail, TypeOK
<1>13. CASE Remove(r)
  BY <1>13 DEF Remove, TypeOK
<1>14. CASE RemoveBreaks(r)
  BY <1>14 DEF RemoveBreaks, TypeOK
<1>15. CASE Record(r)
  BY <1>15 DEF Record, TypeOK
<1>16. CASE ContainerExit(r)
  BY <1>16 DEF ContainerExit, TypeOK
<1>17. CASE Deadline(r)
  BY <1>17 DEF Deadline, TypeOK
<1> QED
  BY <1>1, <1>2, <1>3, <1>4, <1>5, <1>6, <1>7, <1>8, <1>9, <1>10, <1>11, <1>12, <1>13,
     <1>14, <1>15, <1>16, <1>17 DEF ThreadStep

\* A request keeps every variable in its type.
LEMMA RequestType ==
    ASSUME TypeOK, NEW r \in Runs, RequestStep(r)
    PROVE  TypeOK'
<1> USE DEF outsideRequest, drainVars, quotaVars, sweepVars, threadVars
<1>0. ASSUME Insert(r)
      PROVE  /\ state' \in [Runs -> RunStates \union {"ABSENT"}]
             /\ queuedAt' \in [Runs -> Nat]
             /\ clock' \in Nat
             /\ pending' \in Nat
  BY <1>0, StatesWritten DEF Insert, TypeOK
<1>1. CASE SubmitCheck(r)
  <2>1. admitted' \subseteq Runs
    BY <1>1 DEF SubmitCheck, TypeOK
  <2>2. HalfWay(Owner[r], admitted') \in Nat
    BY <2>1, HalfWayIsFinite
  <2> QED
    BY <1>1, <2>1, <2>2 DEF SubmitCheck, TypeOK
<1>2. CASE SubmitInsert(r)
  BY <1>0, <1>2 DEF SubmitInsert, TypeOK
<1>3. CASE CancelCheck(r)
  BY <1>3 DEF CancelCheck, TypeOK
<1>4. CASE CancelCommit(r)
  <2>1. /\ state' \in [Runs -> RunStates \union {"ABSENT"}]
        /\ revived' \subseteq Runs
    BY <1>4, StatesWritten, WriteType DEF CancelCommit
  <2> QED
    BY <1>4, <2>1 DEF CancelCommit, TypeOK
<1>5. CASE CancelKill(r)
  BY <1>5 DEF CancelKill, TypeOK
<1>6. ASSUME NEW old \in Runs, Retry(old, r)
      PROVE  TypeOK'
  BY <1>0, <1>6 DEF Retry, TypeOK
<1> QED
  BY <1>1, <1>2, <1>3, <1>4, <1>5, <1>6 DEF RequestStep, CancelStep

\* A pass of the reconciler, a change of a limit and a crash do too.
LEMMA OtherType ==
    ASSUME TypeOK,
           \/ SweepStep
           \/ Crash
           \/ \E u \in Users, n \in PatchTo : UpdateQuota(u, n)
    PROVE  TypeOK'
<1> USE DEF outsideSweep, drainVars, requestVars, quotaVars, sweepVars, rowVars, threadVars
<1>1. CASE SweepStep
  BY <1>1 DEF SweepStep, SweepList, SweepExamine, SweepRemove, Present, TypeOK
<1>2. CASE Crash
  BY <1>2 DEF Crash, Places, LivePlaces, TypeOK
<1>3. ASSUME NEW u \in Users, NEW n \in PatchTo, UpdateQuota(u, n)
      PROVE  TypeOK'
  BY <1>3, LimitsType DEF UpdateQuota, TypeOK
<1> QED
  BY <1>1, <1>2, <1>3

LEMMA TypeInit == Init => TypeOK
BY LimitsType DEF Init, RowInit, ThreadInit, DrainInit, RequestInit, SweepInit, TypeOK,
                  RunStates, Places

LEMMA TypeStep == TypeOK /\ [Next]_vars => TypeOK'
<1> SUFFICES ASSUME TypeOK, [Next]_vars PROVE TypeOK'
  OBVIOUS
<1>1. CASE Next
  BY <1>1, DrainType, ThreadType, RequestType, OtherType DEF Next
<1>2. CASE UNCHANGED vars
  BY <1>2 DEF TypeOK, vars, rowVars, threadVars, drainVars, requestVars, quotaVars,
              sweepVars
<1> QED
  BY <1>1, <1>2

\* Every reachable state has every variable in its type (Spec, TypeOK).
THEOREM TypeCorrect == Spec => []TypeOK
BY TypeInit, TypeStep, PTL DEF Spec

-----------------------------------------------------------------------------
(* Lock, batches and rows. A drain relies on what the rows of its batch    *)
(* say, a row on the place of its thread, so the three are one induction.  *)

Core == TypeOK /\ LockInv /\ BatchInv /\ RowInv

\* At most one thread is inside start_queue_drain.
LEMMA OneDrain ==
    ASSUME LockInv, NEW d \in Drainers, NEW e \in Drainers,
           dpc[d] # "out", dpc[e] # "out"
    PROVE  d = e
BY DEF LockInv

LEMMA DrainCore ==
    ASSUME Core, NEW d \in Drainers, DrainStep(d)
    PROVE  LockInv' /\ BatchInv' /\ RowInv'
<1> USE DEF Core, outsideDrain, requestVars, quotaVars, sweepVars, rowVars
<1>1. CASE DrainStart(d)
  <2>1. LockInv'
    BY <1>1, OutsiderNames DEF DrainStart, TypeOK, LockInv
  <2>2. BatchInv' /\ RowInv'
    BY <1>1 DEF DrainStart, TypeOK, BatchInv, RowInv
  <2> QED
    BY <2>1, <2>2
<1>2. ASSUME NEW u \in Users, DrainCount(d, u)
      PROVE  LockInv' /\ BatchInv' /\ RowInv'
  BY <1>2 DEF DrainCount, TypeOK, LockInv, BatchInv, RowInv
<1>3. CASE DrainSelect(d)
  <2>1. LockInv' /\ RowInv'
    BY <1>3 DEF DrainSelect, TypeOK, LockInv, RowInv
  <2>2. BatchInv'
    BY <1>3 DEF DrainSelect, Queued, IsOldest, TypeOK, BatchInv, RowInv
  <2> QED
    BY <2>1, <2>2
<1>4. CASE DrainDispatch(d)
  <2>1. PICK r \in batch[d] :
            /\ batch' = [batch EXCEPT ![d] = @ \ {r}]
            /\ Write(r, "PROVISIONING")
            /\ pc' = [pc EXCEPT ![r] = "load"]
    BY <1>4 DEF DrainDispatch
  <2>2. r \in Runs
    BY <2>1 DEF TypeOK
  <2>3. /\ dpc[d] = "dispatch"
        /\ UNCHANGED <<lock, dpc, duser, admitted, cancel>>
    BY <1>4 DEF DrainDispatch
  <2>4. LockInv'
    BY <2>3 DEF LockInv
  <2>5. RowInv'
    BY <2>1, <2>2, <2>3 DEF Write, TypeOK, BatchInv, RowInv, ActiveStates, VerdictPlaces
  <2>6. \A e \in Drainers : batch[e] # {} => e = d
    BY <2>3, OneDrain DEF BatchInv
  <2>7. BatchInv'
    BY <2>1, <2>2, <2>3, <2>6 DEF Write, TypeOK, BatchInv
  <2> QED
    BY <2>4, <2>5, <2>7
<1>5. CASE DrainNext(d)
  BY <1>5 DEF DrainNext, TypeOK, LockInv, BatchInv, RowInv
<1>6. CASE DrainEnd(d)
  <2>1. LockInv'
    BY <1>6, OutsiderNames DEF DrainEnd, TypeOK, LockInv
  <2>2. BatchInv' /\ RowInv'
    BY <1>6 DEF DrainEnd, TypeOK, BatchInv, RowInv
  <2> QED
    BY <2>1, <2>2
<1> QED
  BY <1>1, <1>2, <1>3, <1>4, <1>5, <1>6 DEF DrainStep

\* A thread writes no row but its own, and only while it is alive.
OwnRowOnly(r) ==
    /\ UNCHANGED <<queuedAt, clock, drainVars, requestVars, quotaVars>>
    /\ \A q \in Runs \ {r} : state'[q] = state[q] /\ pc'[q] = pc[q]
    /\ pc[r] \in LivePlaces \/ UNCHANGED <<state, pc>>

\* The row of r after a step of its thread, as RowInv demands it.
RowStays(r) ==
    /\ pc[r] = "none" <=> pc'[r] = "none"
    /\ pc[r] # "none" => state'[r] \notin {"ABSENT", "QUEUED"}
    /\ state'[r] \in ActiveStates => pc'[r] \in VerdictPlaces \union {"lost"}
    /\ pc'[r] \in VerdictPlaces => state'[r] \in ActiveStates \union {"CANCELLED", "TIMED_OUT"}

LEMMA ThreadEffect ==
    ASSUME TypeOK, RowInv, NEW r \in Runs,
           ThreadStep(r) \/ ContainerExit(r) \/ Deadline(r)
    PROVE  OwnRowOnly(r) /\ RowStays(r)
<1> USE DEF OwnRowOnly, RowStays, TypeOK, RowInv, outsideThread, rowVars, threadVars,
            Move, LivePlaces, VerdictPlaces, ActiveStates
<1>1. CASE Accept(r)
  BY <1>1 DEF Accept, Write
<1>2. CASE Stage(r)
  BY <1>2 DEF Stage, Write
<1>3. CASE CreateContainer(r)
  BY <1>3 DEF CreateContainer
<1>4. CASE RecordId(r)
  BY <1>4 DEF RecordId
<1>5. CASE Attach(r)
  BY <1>5 DEF Attach
<1>6. CASE StreamTimeout(r)
  BY <1>6 DEF StreamTimeout, Write
<1>7. CASE StreamEnd(r) \/ StreamBreaks(r)
  BY <1>7 DEF StreamEnd, StreamBreaks
<1>8. CASE CheckCancelled(r)
  BY <1>8 DEF CheckCancelled
<1>9. CASE BeginCollect(r)
  BY <1>9 DEF BeginCollect, Write
<1>10. CASE Collect(r)
  BY <1>10 DEF Collect
<1>11. CASE Decide(r)
  BY <1>11 DEF Decide, Write
<1>12. CASE Fail(r)
  BY <1>12 DEF Fail, Write
<1>13. CASE Remove(r)
  BY <1>13 DEF Remove
<1>14. CASE RemoveBreaks(r)
  BY <1>14 DEF RemoveBreaks
<1>15. CASE Record(r)
  BY <1>15 DEF Record
<1>16. CASE ContainerExit(r)
  BY <1>16 DEF ContainerExit
<1>17. CASE Deadline(r)
  BY <1>17 DEF Deadline
<1> QED
  BY <1>1, <1>2, <1>3, <1>4, <1>5, <1>6, <1>7, <1>8, <1>9, <1>10, <1>11, <1>12, <1>13,
     <1>14, <1>15, <1>16, <1>17 DEF ThreadStep

LEMMA ThreadCore ==
    ASSUME Core, NEW r \in Runs,
           ThreadStep(r) \/ ContainerExit(r) \/ Deadline(r)
    PROVE  LockInv' /\ BatchInv' /\ RowInv'
<1> USE DEF Core
<1>1. OwnRowOnly(r) /\ RowStays(r)
  BY ThreadEffect
<1>2. LockInv'
  BY <1>1 DEF OwnRowOnly, drainVars, LockInv
<1>3. BatchInv'
  <2>1. \A d \in Drainers : \A q \in batch[d] : state'[q] = state[q] /\ pc'[q] = pc[q]
    BY <1>1 DEF OwnRowOnly, BatchInv, LivePlaces, TypeOK
  <2> QED
    BY <1>1, <2>1 DEF OwnRowOnly, drainVars, BatchInv
<1>4. RowInv'
  BY <1>1 DEF OwnRowOnly, RowStays, requestVars, RowInv, LivePlaces
<1> QED
  BY <1>2, <1>3, <1>4

LEMMA RequestCore ==
    ASSUME Core, NEW r \in Runs, RequestStep(r)
    PROVE  LockInv' /\ BatchInv' /\ RowInv'
<1> USE DEF Core, outsideRequest, drainVars, threadVars
<1>1. CASE SubmitCheck(r)
  BY <1>1 DEF SubmitCheck, TypeOK, LockInv, BatchInv, RowInv
<1>2. CASE SubmitInsert(r)
  BY <1>2 DEF SubmitInsert, Insert, TypeOK, LockInv, BatchInv, RowInv, ActiveStates,
              VerdictPlaces
<1>3. CASE CancelCheck(r)
  BY <1>3 DEF CancelCheck, TypeOK, LockInv, BatchInv, RowInv
<1>4. CASE CancelCommit(r)
  BY <1>4 DEF CancelCommit, Write, TypeOK, LockInv, BatchInv, RowInv, ActiveStates
<1>5. CASE CancelKill(r)
  BY <1>5 DEF CancelKill, TypeOK, LockInv, BatchInv, RowInv
<1>6. ASSUME NEW old \in Runs, Retry(old, r)
      PROVE  LockInv' /\ BatchInv' /\ RowInv'
  BY <1>6 DEF Retry, Insert, TypeOK, LockInv, BatchInv, RowInv, ActiveStates,
              VerdictPlaces
<1> QED
  BY <1>1, <1>2, <1>3, <1>4, <1>5, <1>6 DEF RequestStep, CancelStep

LEMMA OtherCore ==
    ASSUME Core,
           \/ SweepStep
           \/ Crash
           \/ \E u \in Users, n \in PatchTo : UpdateQuota(u, n)
    PROVE  LockInv' /\ BatchInv' /\ RowInv'
<1> USE DEF Core, rowVars, threadVars, drainVars, requestVars
<1>1. CASE SweepStep
  BY <1>1 DEF SweepStep, SweepList, SweepExamine, SweepRemove, outsideSweep, LockInv,
              BatchInv, RowInv
<1>2. CASE Crash
  BY <1>2, OutsiderNames DEF Crash, TypeOK, LockInv, BatchInv, RowInv, LivePlaces,
              VerdictPlaces
<1>3. CASE \E u \in Users, n \in PatchTo : UpdateQuota(u, n)
  BY <1>3 DEF UpdateQuota, LockInv, BatchInv, RowInv
<1> QED
  BY <1>1, <1>2, <1>3

LEMMA CoreInit == Init => Core
BY TypeInit, OutsiderNames DEF Init, RowInit, ThreadInit, DrainInit, RequestInit, Core,
   LockInv, BatchInv, RowInv, ActiveStates, VerdictPlaces

LEMMA CoreStep == Core /\ [Next]_vars => Core'
<1> SUFFICES ASSUME Core, [Next]_vars PROVE Core'
  OBVIOUS
<1>1. TypeOK'
  BY TypeStep DEF Core
<1>2. CASE Next
  BY <1>1, <1>2, DrainCore, ThreadCore, RequestCore, OtherCore DEF Next, Core
<1>3. CASE UNCHANGED vars
  BY <1>1, <1>3 DEF Core, LockInv, BatchInv, RowInv, vars, rowVars, threadVars,
                    drainVars, requestVars
<1> QED
  BY <1>2, <1>3

LEMMA CoreHolds == Spec => []Core
BY CoreInit, CoreStep, PTL DEF Spec

\* Whatever drains at once, a selected run has no thread yet and is in one drain's
\* hands only (ClaimedOnce: no run is executed twice).
THEOREM ClaimedOnceHolds == Spec => []ClaimedOnce
<1>1. Core => ClaimedOnce
  <2> SUFFICES ASSUME Core, NEW d \in Drainers, NEW r \in batch[d],
                      NEW e \in Drainers \ {d}
               PROVE  pc[r] = "none" /\ r \notin batch[e]
    BY DEF ClaimedOnce, Core, BatchInv
  <2>1. dpc[d] # "out"
    BY DEF Core, BatchInv
  <2>2. r \in batch[e] => dpc[e] # "out"
    BY DEF Core, BatchInv
  <2> QED
    BY <2>1, <2>2, OneDrain DEF Core, BatchInv
<1> QED
  BY <1>1, CoreHolds, PTL

\* A queued row has no thread, an active row has one that will still write its
\* verdict or lost it in a crash, a thread past its verdict leaves a terminal row.
THEOREM ThreadsOwnRowsHolds == Spec => []ThreadsOwnRows
<1>1. Core => ThreadsOwnRows
  BY DEF Core, TypeOK, RowInv, ThreadsOwnRows, QueuedIsUntouched, ActiveHasThread,
         EndedIsTerminal, RunStates, VerdictPlaces
<1> QED
  BY <1>1, CoreHolds, PTL

-----------------------------------------------------------------------------
(* Verdicts.                                                               *)

\* Only the thread of a run that has no verdict yet writes one.
LEMMA VerdictStep == Core /\ [Next]_vars => OnlyCancelReplaces
<1> SUFFICES ASSUME Core, [Next]_vars, NEW r \in Runs,
                    state[r] \in {"SUCCEEDED", "FAILED", "INFRA_FAILED"},
                    state'[r] # state[r]
             PROVE  state'[r] = "CANCELLED"
  BY DEF OnlyCancelReplaces
<1>1. /\ pc[r] # "none"
      /\ pc[r] \notin VerdictPlaces
  BY DEF Core, RowInv, ActiveStates
<1>2. ASSUME NEW q \in Runs, RequestStep(q)
      PROVE  state'[r] = "CANCELLED"
  BY <1>2 DEF RequestStep, SubmitCheck, SubmitInsert, CancelCheck, CancelStep,
              CancelCommit, CancelKill, Retry, Insert, Write, Core, TypeOK, RowInv
<1>3. ASSUME NEW q \in Runs, ThreadStep(q) \/ ContainerExit(q) \/ Deadline(q)
      PROVE  FALSE
  <2>1. CASE q # r
    BY <1>3, <2>1, ThreadEffect DEF Core, OwnRowOnly
  <2>2. CASE q = r
    BY <1>1, <1>3, <2>2 DEF ThreadStep, Accept, Stage, CreateContainer, RecordId, Attach,
       StreamTimeout, StreamEnd, StreamBreaks, CheckCancelled, BeginCollect, Collect, Decide, Fail,
       Remove, RemoveBreaks, Record, ContainerExit, Deadline, Move, VerdictPlaces, rowVars
  <2> QED
    BY <2>1, <2>2
<1>4. ASSUME NEW d \in Drainers, DrainStep(d)
      PROVE  FALSE
  BY <1>1, <1>4 DEF DrainStep, DrainStart, DrainCount, DrainSelect, DrainDispatch,
     DrainNext, DrainEnd, Write, rowVars, Core, TypeOK, BatchInv
<1>5. CASE \/ SweepStep
           \/ Crash
           \/ \E u \in Users, n \in PatchTo : UpdateQuota(u, n)
           \/ UNCHANGED vars
  BY <1>5 DEF SweepStep, SweepList, SweepExamine, SweepRemove, Crash, UpdateQuota,
              outsideSweep, vars, rowVars
<1> QED
  BY <1>2, <1>3, <1>4, <1>5 DEF Next

\* A run that SUCCEEDED, FAILED or INFRA_FAILED keeps its verdict, or is CANCELLED by
\* a request that had read the row before (VerdictsStay).
THEOREM VerdictsStayHolds == Spec => VerdictsStay
<1>1. Core /\ [Next]_vars => [OnlyCancelReplaces]_vars
  BY VerdictStep
<1> QED
  BY <1>1, CoreHolds, PTL DEF Spec, VerdictsStay

\* A run that is over has no thread to write its row, and no drain has it in hand or
\* selects it, since its row is not QUEUED; a request can only cancel it once more.
LEMMA EndedStep ==
    ASSUME Core, [Next]_vars, NEW r \in Runs, Ended(r)
    PROVE  Ended(r)'
<1> USE DEF Ended, Core, TypeOK
<1>0. ASSUME UNCHANGED <<pc, batch>>, state'[r] \in TerminalStates
      PROVE  Ended(r)'
  BY <1>0
<1>1. ASSUME NEW q \in Runs, RequestStep(q)
      PROVE  Ended(r)'
  <2>1. UNCHANGED <<pc, batch>>
    BY <1>1 DEF RequestStep, SubmitCheck, SubmitInsert, CancelCheck, CancelStep, CancelCommit,
       CancelKill, Retry, outsideRequest, threadVars, drainVars
  <2>2. state'[r] = state[r] \/ state'[r] = "CANCELLED"
    BY <1>1 DEF RequestStep, SubmitCheck, SubmitInsert, CancelCheck, CancelStep, CancelCommit,
       CancelKill, Retry, Insert, Write, RowInv, TerminalStates
  <2> QED
    BY <1>0, <2>1, <2>2 DEF TerminalStates
<1>2. ASSUME NEW q \in Runs, ThreadStep(q) \/ ContainerExit(q) \/ Deadline(q)
      PROVE  Ended(r)'
  <2>1. OwnRowOnly(q) /\ RowStays(q)
    BY <1>2, ThreadEffect
  <2>2. UNCHANGED batch
    BY <2>1 DEF OwnRowOnly, drainVars
  <2>3. state'[r] = state[r] /\ pc'[r] = pc[r]
    BY <2>1 DEF OwnRowOnly
  <2> QED
    BY <2>2, <2>3
<1>3. ASSUME NEW d \in Drainers, DrainStep(d)
      PROVE  Ended(r)'
  <2>1. CASE DrainSelect(d)
    BY <2>1 DEF DrainSelect, IsOldest, Queued, TerminalStates, outsideDrain, rowVars
  <2>2. CASE DrainDispatch(d)
    BY <2>2 DEF DrainDispatch, Write
  <2>3. CASE DrainStart(d) \/ (\E u \in Users : DrainCount(d, u)) \/ DrainNext(d) \/ DrainEnd(d)
    BY <2>3 DEF DrainStart, DrainCount, DrainNext, DrainEnd, outsideDrain, rowVars
  <2> QED
    BY <1>3, <2>1, <2>2, <2>3 DEF DrainStep
<1>4. CASE Crash
  BY <1>4 DEF Crash, rowVars, LivePlaces
<1>5. CASE \/ SweepStep
           \/ \E u \in Users, n \in PatchTo : UpdateQuota(u, n)
           \/ UNCHANGED vars
  BY <1>0, <1>5 DEF SweepStep, SweepList, SweepExamine, SweepRemove, UpdateQuota,
              outsideSweep, vars, rowVars, threadVars, drainVars
<1> QED
  BY <1>1, <1>2, <1>3, <1>4, <1>5 DEF Next

\* A run that is over, with its thread gone and in the hands of no drain, is over for good
\* (start_queue_drain, cancel_run, retry and the restart).
THEOREM EndedStaysHolds == Spec => EndedStays
<1>1. Core /\ [Next]_vars => [\A r \in Runs : Ended(r) => Ended(r)']_vars
  BY EndedStep
<1> QED
  BY <1>1, CoreHolds, PTL DEF Spec, EndedStays

\* Verdict and evidence: what a decided run rests on is not written afterwards.
LEMMA ResultStep == Core /\ ResultInv /\ [Next]_vars => ResultInv'
<1> SUFFICES ASSUME Core, ResultInv, [Next]_vars PROVE ResultInv'
  OBVIOUS
<1> USE DEF ResultInv, VerdictIsEarned
<1>1. ASSUME NEW q \in Runs, RequestStep(q)
      PROVE  ResultInv'
  BY <1>1 DEF RequestStep, SubmitCheck, SubmitInsert, CancelCheck, CancelStep, Retry,
     CancelCommit, CancelKill, Insert, Write, outsideRequest, threadVars, Core, TypeOK
<1>2. ASSUME NEW q \in Runs, ThreadStep(q) \/ ContainerExit(q) \/ Deadline(q)
      PROVE  ResultInv'
  <2> USE DEF outsideThread, rowVars, threadVars, Move, Core, TypeOK
  <2>0. ~(state[q] \in {"SUCCEEDED", "FAILED"} /\ pc[q] \in VerdictPlaces)
    BY DEF RowInv, ActiveStates
  <2>1. CASE Accept(q) \/ Stage(q) \/ Fail(q)
    BY <2>1 DEF Accept, Stage, Fail, Write
  <2>2. CASE CreateContainer(q) \/ RecordId(q) \/ Attach(q)
    BY <2>2 DEF CreateContainer, RecordId, Attach
  <2>3. CASE StreamTimeout(q)
    BY <2>3 DEF StreamTimeout, Write
  <2>4. CASE StreamEnd(q) \/ StreamBreaks(q)
    BY <2>0, <2>4 DEF StreamEnd, StreamBreaks, VerdictPlaces
  <2>5. CASE BeginCollect(q)
    BY <2>0, <2>5 DEF BeginCollect, Write, VerdictPlaces
  <2>6. CASE Collect(q)
    BY <2>0, <2>6 DEF Collect, VerdictPlaces
  <2>7. CASE Decide(q)
    BY <2>7 DEF Decide, Write
  <2>8. CASE CheckCancelled(q) \/ Remove(q) \/ RemoveBreaks(q) \/ Record(q)
    BY <2>8 DEF CheckCancelled, Remove, RemoveBreaks, Record
  <2>9. CASE ContainerExit(q) \/ Deadline(q)
    BY <2>9 DEF ContainerExit, Deadline
  <2> QED
    BY <1>2, <2>1, <2>2, <2>3, <2>4, <2>5, <2>6, <2>7, <2>8, <2>9 DEF ThreadStep
<1>3. ASSUME NEW d \in Drainers, DrainStep(d)
      PROVE  ResultInv'
  BY <1>3 DEF DrainStep, DrainStart, DrainCount, DrainSelect, DrainDispatch, DrainNext,
     DrainEnd, Write, rowVars, outsideDrain, Core, TypeOK
<1>4. CASE \/ SweepStep
           \/ Crash
           \/ \E u \in Users, n \in PatchTo : UpdateQuota(u, n)
           \/ UNCHANGED vars
  BY <1>4 DEF SweepStep, SweepList, SweepExamine, SweepRemove, Crash, UpdateQuota,
              outsideSweep, vars, rowVars, threadVars, Core, TypeOK, LivePlaces
<1> QED
  BY <1>1, <1>2, <1>3, <1>4 DEF Next

\* SUCCEEDED is said only of a run that exited with 0, passed and is packaged; FAILED
\* only of a packaged one that lacks the exit code or the pass (VerdictIsEarned).
THEOREM VerdictIsEarnedHolds == Spec => []VerdictIsEarned
<1>1. Init => ResultInv
  BY DEF Init, RowInit, ThreadInit, ResultInv, VerdictIsEarned
<1>2. ResultInv => VerdictIsEarned
  BY DEF ResultInv
<1> QED
  BY <1>1, <1>2, ResultStep, CoreHolds, PTL DEF Spec

-----------------------------------------------------------------------------
(* The limit on active runs.                                               *)

\* No step but a dispatch makes a claim: a row becomes active only from an active
\* state, or counts as revived.
NoNewClaim ==
    \A r \in Runs : state'[r] \in ActiveStates /\ r \notin revived'
        => state[r] \in ActiveStates /\ r \notin revived

\* The claims of a user are finitely many and among the user's active rows.
LEMMA ClaimsAreFinite ==
    ASSUME NEW u
    PROVE  /\ FirstClaims(u) \subseteq Active(u)
           /\ IsFiniteSet(FirstClaims(u))
           /\ Cardinality(FirstClaims(u)) \in Nat
           /\ Cardinality(FirstClaims(u)) <= Cardinality(Active(u))
<1>1. FirstClaims(u) \subseteq Active(u)
  BY DEF FirstClaims
<1> QED
  BY <1>1, QueriesAreFinite, FS_Subset, FS_CardinalityType

LEMMA ClaimsShrink ==
    ASSUME NoNewClaim, NEW u
    PROVE  /\ Cardinality(FirstClaims(u)') \in Nat
           /\ Cardinality(FirstClaims(u)') <= Cardinality(FirstClaims(u))
<1>1. FirstClaims(u)' \subseteq FirstClaims(u)
  BY DEF NoNewClaim, FirstClaims, Active
<1> QED
  BY <1>1, ClaimsAreFinite, FS_Subset, FS_CardinalityType

\* Everybody outside start_queue_drain leaves the limit intact.
LEMMA LimitFrame ==
    ASSUME Core, LimitInv, NoNewClaim, UNCHANGED <<dpc, duser, room, batch>>,
           quota' \in [Users -> Nat], peak' \in [Users -> Nat],
           \A u \in Users : quota'[u] <= peak'[u] /\ peak[u] <= peak'[u]
    PROVE  LimitInv'
<1>1. ASSUME NEW u \in Users
      PROVE  /\ Cardinality(FirstClaims(u)) \in Nat
             /\ Cardinality(FirstClaims(u)') \in Nat
             /\ Cardinality(FirstClaims(u)') <= Cardinality(FirstClaims(u))
             /\ peak[u] \in Nat
             /\ peak'[u] \in Nat
             /\ peak[u] <= peak'[u]
  BY ClaimsAreFinite, ClaimsShrink DEF Core, TypeOK
<1>2. ASSUME NEW u \in Users
      PROVE  quota'[u] <= peak'[u] /\ Cardinality(FirstClaims(u)') <= peak'[u]
  BY <1>1 DEF LimitInv
<1>3. ASSUME NEW d \in Drainers, dpc[d] = "select"
      PROVE  Cardinality(FirstClaims(duser[d])') + room[d] <= peak'[duser[d]]
  <2>1. duser[d] \in Users /\ room[d] \in Nat
    BY <1>3 DEF Core, BatchInv, TypeOK
  <2>2. Cardinality(FirstClaims(duser[d])) + room[d] <= peak[duser[d]]
    BY <1>3 DEF LimitInv
  <2> QED
    BY <1>1, <2>1, <2>2
<1>4. ASSUME NEW d \in Drainers, dpc[d] = "dispatch"
      PROVE  Cardinality(FirstClaims(duser[d])') + Cardinality(batch[d])
                <= peak'[duser[d]]
  <2>1. duser[d] \in Users
    BY <1>4 DEF Core, BatchInv
  <2>2. Cardinality(batch[d]) \in Nat
    BY RunsFinite, FS_Subset, FS_CardinalityType DEF Core, TypeOK
  <2>3. Cardinality(FirstClaims(duser[d])) + Cardinality(batch[d]) <= peak[duser[d]]
    BY <1>4 DEF LimitInv
  <2> QED
    BY <1>1, <2>1, <2>2, <2>3
<1> QED
  BY <1>2, <1>3, <1>4 DEF LimitInv

\* The drain: counting under the lock takes the room it finds out of the limit, and
\* a dispatch trades one selected run for at most one claim.
LEMMA LimitDrain ==
    ASSUME Core, LimitInv, NEW d \in Drainers, DrainStep(d)
    PROVE  LimitInv'
<1>0. ASSUME UNCHANGED <<state, revived>>
      PROVE  \A u : FirstClaims(u)' = FirstClaims(u)
  BY <1>0 DEF FirstClaims, Active
<1> USE DEF outsideDrain, rowVars, quotaVars
<1>1. CASE DrainStart(d)
  <2>1. \A e \in Drainers : dpc'[e] \in {"select", "dispatch"} => dpc'[e] = dpc[e]
    BY <1>1 DEF DrainStart, Core, TypeOK
  <2> QED
    BY <1>0, <1>1, <2>1 DEF DrainStart, LimitInv
<1>2. ASSUME NEW u \in Users, DrainCount(d, u)
      PROVE  LimitInv'
  <2>1. CASE UNCHANGED <<dpc, duser, room>>
    BY <1>0, <1>2, <2>1 DEF DrainCount, LimitInv
  <2>2. CASE ~UNCHANGED <<dpc, duser, room>>
    <3>1. /\ room' = [room EXCEPT ![d] = quota[u] - Cardinality(Active(u))]
          /\ duser' = [duser EXCEPT ![d] = u]
          /\ dpc' = [dpc EXCEPT ![d] = "select"]
          /\ UNCHANGED <<state, revived, batch, quota, peak>>
      BY <1>2, <2>2 DEF DrainCount
    <3>2. Cardinality(FirstClaims(u)) + (quota[u] - Cardinality(Active(u))) <= peak[u]
      <4>1. quota[u] \in Nat /\ peak[u] \in Nat /\ quota[u] <= peak[u]
        BY DEF Core, TypeOK, LimitInv
      <4> QED
        BY <4>1, ClaimsAreFinite, QueriesAreFinite
    <3>3. dpc'[d] = "select" /\ duser'[d] = u
             /\ room'[d] = quota[u] - Cardinality(Active(u))
      BY <3>1 DEF Core, TypeOK
    <3>4. \A e \in Drainers \ {d} :
             dpc'[e] = dpc[e] /\ duser'[e] = duser[e] /\ room'[e] = room[e]
      BY <3>1 DEF Core, TypeOK
    <3> QED
      BY <1>0, <3>1, <3>2, <3>3, <3>4 DEF LimitInv
  <2> QED
    BY <2>1, <2>2
<1>3. CASE DrainSelect(d)
  <2>1. PICK B \in SUBSET Queued(duser[d]) :
            /\ IsOldest(B, Queued(duser[d]), room[d])
            /\ batch' = [batch EXCEPT ![d] = B]
    BY <1>3 DEF DrainSelect
  <2>2. /\ Cardinality(B) \in Nat
        /\ Cardinality(B) <= room[d]
        /\ room[d] \in Nat
    BY <2>1, RunsFinite, FS_Subset, FS_CardinalityType
       DEF IsOldest, Queued, Core, TypeOK
  <2>3. /\ dpc[d] = "select"
        /\ dpc' = [dpc EXCEPT ![d] = "dispatch"]
        /\ UNCHANGED <<state, revived, duser, room, quota, peak>>
    BY <1>3 DEF DrainSelect
  <2>4. Cardinality(FirstClaims(duser[d])) + Cardinality(B) <= peak[duser[d]]
    <3>1. duser[d] \in Users
      BY <2>3 DEF Core, BatchInv
    <3>2. Cardinality(FirstClaims(duser[d])) + room[d] <= peak[duser[d]]
      BY <2>3 DEF LimitInv
    <3>3. peak[duser[d]] \in Nat /\ Cardinality(FirstClaims(duser[d])) \in Nat
      BY <3>1, ClaimsAreFinite DEF Core, TypeOK
    <3> QED
      BY <2>2, <3>2, <3>3
  <2>5. dpc'[d] = "dispatch" /\ batch'[d] = B
    BY <2>1, <2>3 DEF Core, TypeOK
  <2>6. \A e \in Drainers \ {d} : dpc'[e] = dpc[e] /\ batch'[e] = batch[e]
    BY <2>1, <2>3 DEF Core, TypeOK
  <2> QED
    BY <1>0, <2>3, <2>4, <2>5, <2>6 DEF LimitInv
<1>4. CASE DrainDispatch(d)
  <2>1. PICK r \in batch[d] :
            /\ batch' = [batch EXCEPT ![d] = @ \ {r}]
            /\ Write(r, "PROVISIONING")
    BY <1>4 DEF DrainDispatch
  <2>2. PICK v \in Users : v = duser[d]
    BY <1>4 DEF DrainDispatch, Core, BatchInv
  <2>3. /\ r \in Runs
        /\ dpc[d] = "dispatch"
        /\ Owner[r] = v
        /\ UNCHANGED <<dpc, duser, room, quota, peak>>
    BY <1>4, <2>1, <2>2 DEF DrainDispatch, Core, TypeOK, BatchInv
  <2>4. FirstClaims(v)' \subseteq FirstClaims(v) \union {r}
    BY <2>1, <2>3 DEF FirstClaims, Active, Write, Core, TypeOK
  <2>5. \A u : u # v => FirstClaims(u)' = FirstClaims(u)
    BY <2>1, <2>3 DEF FirstClaims, Active, Write, Core, TypeOK
  <2>6. /\ Cardinality(FirstClaims(v)') \in Nat
        /\ Cardinality(FirstClaims(v)') <= Cardinality(FirstClaims(v)) + 1
    <3>1. /\ IsFiniteSet(FirstClaims(v) \union {r})
          /\ Cardinality(FirstClaims(v) \union {r}) <= Cardinality(FirstClaims(v)) + 1
          /\ Cardinality(FirstClaims(v)) \in Nat
      <4>1. IsFiniteSet(FirstClaims(v)) /\ Cardinality(FirstClaims(v)) \in Nat
        BY ClaimsAreFinite
      <4>2. /\ IsFiniteSet(FirstClaims(v) \union {r})
            /\ Cardinality(FirstClaims(v) \union {r})
                  \in {Cardinality(FirstClaims(v)), Cardinality(FirstClaims(v)) + 1}
        BY <4>1, FS_AddElement, Zenon
      <4> QED
        BY <4>1, <4>2
    <3>2. \A T \in SUBSET (FirstClaims(v) \union {r}) :
             IsFiniteSet(T) /\ Cardinality(T) <= Cardinality(FirstClaims(v) \union {r})
      BY <3>1, FS_Subset
    <3>3. /\ IsFiniteSet(FirstClaims(v)')
          /\ Cardinality(FirstClaims(v)') <= Cardinality(FirstClaims(v) \union {r})
      BY <2>4, <3>2
    <3> QED
      BY <3>1, <3>3, FS_CardinalityType
  <2>7. /\ Cardinality(batch[d]) \in Nat
        /\ Cardinality(batch'[d]) = Cardinality(batch[d]) - 1
        /\ Cardinality(batch'[d]) \in Nat
    <3>1. IsFiniteSet(batch[d])
      BY RunsFinite, FS_Subset DEF Core, TypeOK
    <3>2. batch'[d] = batch[d] \ {r}
      BY <2>1 DEF Core, TypeOK
    <3>3. IsFiniteSet(batch'[d])
      BY <3>1, <3>2, FS_Subset
    <3>4. Cardinality(batch[d] \ {r}) = Cardinality(batch[d]) - 1
      BY <2>1, <3>1, FS_RemoveElement
    <3> QED
      BY <3>1, <3>2, <3>3, <3>4, FS_CardinalityType
  <2>8. /\ Cardinality(FirstClaims(v)) + Cardinality(batch[d]) <= peak[v]
        /\ peak[v] \in Nat
        /\ Cardinality(FirstClaims(v)) \in Nat
    BY <2>2, <2>3, ClaimsAreFinite DEF LimitInv, Core, TypeOK
  <2>9. /\ Cardinality(FirstClaims(v)') <= peak[v]
        /\ Cardinality(FirstClaims(v)') + Cardinality(batch'[d]) <= peak[v]
    BY <2>6, <2>7, <2>8
  <2>10. \A e \in Drainers : dpc[e] \in {"select", "dispatch"} => e = d
    BY <2>3, OneDrain DEF Core
  <2>11. \A u \in Users : quota'[u] <= peak'[u] /\ Cardinality(FirstClaims(u)') <= peak'[u]
    BY <2>3, <2>5, <2>9 DEF LimitInv
  <2> QED
    BY <2>2, <2>3, <2>9, <2>10, <2>11 DEF LimitInv
<1>5. CASE DrainNext(d) \/ DrainEnd(d)
  <2>1. /\ \A e \in Drainers : dpc'[e] \in {"select", "dispatch"}
                => dpc'[e] = dpc[e] /\ duser'[e] = duser[e] /\ room'[e] = room[e]
        /\ UNCHANGED <<state, revived, batch, quota, peak>>
    BY <1>5 DEF DrainNext, DrainEnd, Core, TypeOK
  <2> QED
    BY <1>0, <2>1 DEF LimitInv
<1> QED
  BY <1>1, <1>2, <1>3, <1>4, <1>5 DEF DrainStep

\* Threads, requests, passes and crashes make no claim: what a thread writes over a
\* row that is no longer active is revived, and the other requests write no active state.
LEMMA OutsiderClaims ==
    ASSUME Core,
           \/ \E r \in Runs : RequestStep(r) \/ ThreadStep(r) \/ ContainerExit(r) \/ Deadline(r)
           \/ \E u \in Users, n \in PatchTo : UpdateQuota(u, n)
           \/ SweepStep
           \/ Crash
           \/ UNCHANGED vars
    PROVE  NoNewClaim
<1> USE DEF rowVars
<1>1. ASSUME NEW q \in Runs, NEW s, Write(q, s),
             s \in TerminalStates \/ state[q] \in ActiveStates \union TerminalStates
      PROVE  NoNewClaim
  BY <1>1 DEF Write, NoNewClaim, Core, TypeOK, ActiveStates, TerminalStates
<1>2. ASSUME UNCHANGED <<state, revived>>
      PROVE  NoNewClaim
  BY <1>2 DEF NoNewClaim
<1>3. ASSUME NEW q \in Runs, Insert(q), UNCHANGED revived
      PROVE  NoNewClaim
  BY <1>3 DEF Insert, NoNewClaim, ActiveStates, Core, TypeOK
<1>4. ASSUME NEW q \in Runs, RequestStep(q)
      PROVE  NoNewClaim
  <2>1. CASE SubmitInsert(q) \/ \E old \in Runs : Retry(old, q)
    BY <1>3, <2>1 DEF SubmitInsert, Retry
  <2>2. CASE CancelCommit(q)
    BY <1>1, <2>2 DEF CancelCommit, TerminalStates
  <2>3. CASE SubmitCheck(q) \/ CancelCheck(q) \/ CancelKill(q)
    BY <1>2, <2>3 DEF SubmitCheck, CancelCheck, CancelKill
  <2> QED
    BY <1>4, <2>1, <2>2, <2>3 DEF RequestStep, CancelStep
<1>5. ASSUME NEW q \in Runs, ThreadStep(q)
      PROVE  NoNewClaim
  <2>1. pc[q] \in VerdictPlaces => state[q] \in ActiveStates \union TerminalStates
    BY DEF Core, RowInv, TerminalStates
  <2>2. CASE Accept(q) \/ Stage(q) \/ StreamTimeout(q) \/ BeginCollect(q)
                \/ Decide(q) \/ Fail(q)
    BY <1>1, <1>2, <2>1, <2>2 DEF Accept, Stage, StreamTimeout, BeginCollect, Decide,
       Fail, Move, VerdictPlaces
  <2>3. CASE CreateContainer(q) \/ RecordId(q) \/ Attach(q) \/ StreamEnd(q) \/ StreamBreaks(q)
                \/ CheckCancelled(q) \/ Collect(q) \/ Remove(q) \/ RemoveBreaks(q) \/ Record(q)
    BY <1>2, <2>3 DEF CreateContainer, RecordId, Attach, StreamEnd, StreamBreaks, CheckCancelled,
       Collect, Remove, RemoveBreaks, Record
  <2> QED
    BY <1>5, <2>2, <2>3 DEF ThreadStep
<1>6. ASSUME NEW q \in Runs, ContainerExit(q) \/ Deadline(q)
      PROVE  NoNewClaim
  BY <1>2, <1>6 DEF ContainerExit, Deadline
<1>7. CASE \/ \E u \in Users, n \in PatchTo : UpdateQuota(u, n)
           \/ SweepStep
           \/ Crash
           \/ UNCHANGED vars
  BY <1>2, <1>7 DEF UpdateQuota, SweepStep, SweepList, SweepExamine, SweepRemove,
     outsideSweep, Crash, vars
<1> QED
  BY <1>4, <1>5, <1>6, <1>7

\* Every step keeps the limit: the drain by its count, an operator because the limit
\* and its peak grow together, a restart because no drain is left, the others because
\* they make no claim.
LEMMA LimitStep ==
    ASSUME Core, LimitInv, [Next]_vars
    PROVE  LimitInv'
<1> USE DEF drainVars, quotaVars
<1>1. ASSUME NEW d \in Drainers, DrainStep(d)
      PROVE  LimitInv'
  BY <1>1, LimitDrain
<1>2. ASSUME NEW v \in Users, NEW n \in PatchTo, UpdateQuota(v, n)
      PROVE  LimitInv'
  <2>1. NoNewClaim
    BY <1>2, OutsiderClaims
  <2>2. n \in Nat
    BY LimitsType
  <2>3. /\ quota' \in [Users -> Nat]
        /\ peak' \in [Users -> Nat]
        /\ \A u \in Users : quota'[u] <= peak'[u] /\ peak[u] <= peak'[u]
    BY <1>2, <2>2 DEF UpdateQuota, Core, TypeOK, LimitInv
  <2> QED
    BY <1>2, <2>1, <2>3, LimitFrame DEF UpdateQuota
<1>3. CASE Crash
  <2>1. \A u \in Users : Cardinality(FirstClaims(u)') <= Cardinality(FirstClaims(u))
                            /\ Cardinality(FirstClaims(u)') \in Nat
                            /\ Cardinality(FirstClaims(u)) \in Nat
    BY <1>3, OutsiderClaims, ClaimsShrink, ClaimsAreFinite
  <2>2. \A d \in Drainers : dpc'[d] = "out"
    BY <1>3 DEF Crash
  <2>3. UNCHANGED <<quota, peak>>
    BY <1>3 DEF Crash
  <2>4. \A u \in Users : peak[u] \in Nat
    BY DEF Core, TypeOK
  <2> QED
    BY <2>1, <2>2, <2>3, <2>4 DEF LimitInv
<1>4. CASE \/ \E r \in Runs : RequestStep(r) \/ ThreadStep(r) \/ ContainerExit(r) \/ Deadline(r)
           \/ SweepStep
           \/ UNCHANGED vars
  <2>1. NoNewClaim
    BY <1>4, OutsiderClaims
  <2>2. UNCHANGED <<dpc, duser, room, batch, quota, peak>>
    BY <1>4 DEF RequestStep, SubmitCheck, SubmitInsert, Retry, CancelCheck, CancelStep,
       CancelCommit, CancelKill, outsideRequest, ThreadStep, Accept, Stage,
       CreateContainer, RecordId, Attach, StreamTimeout, StreamEnd, StreamBreaks, CheckCancelled,
       BeginCollect, Collect, Decide, Fail, Remove, RemoveBreaks, Record, ContainerExit,
       Deadline, outsideThread, SweepStep, SweepList, SweepExamine, SweepRemove,
       outsideSweep, vars
  <2>3. /\ quota' \in [Users -> Nat]
        /\ peak' \in [Users -> Nat]
        /\ \A u \in Users : quota'[u] <= peak'[u] /\ peak[u] <= peak'[u]
    BY <2>2 DEF Core, TypeOK, LimitInv
  <2> QED
    BY <2>1, <2>2, <2>3, LimitFrame
<1> QED
  BY <1>1, <1>2, <1>3, <1>4 DEF Next

\* To begin with nobody has a claim and the limits are their own peak.
LEMMA LimitInit ==
    ASSUME Init
    PROVE  LimitInv
<1>1. \A u : FirstClaims(u) = {}
  BY DEF Init, RowInit, FirstClaims, Active, ActiveStates
<1>2. \A u : Cardinality(FirstClaims(u)) = 0
  BY <1>1, FS_EmptySet
<1> QED
  BY <1>2, LimitsType DEF Init, RequestInit, DrainInit, LimitInv

\* The user's active rows stay within the limit, the revived ones left aside, for any
\* number of runs, users and concurrent drains (_drain_user_queue, start_queue_drain).
THEOREM FirstClaimLimitHolds == Spec => []FirstClaimLimit
<1>1. Init => LimitInv
  BY LimitInit
<1>2. LimitInv => FirstClaimLimit
  BY DEF LimitInv, FirstClaimLimit
<1> QED
  BY <1>1, <1>2, LimitStep, CoreHolds, PTL DEF Spec

=============================================================================
