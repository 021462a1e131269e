----------------------------- MODULE QueueProofs -----------------------------
(***************************************************************************)
(* Proofs about the wakeups of the queue: whatever the threads, requests   *)
(* and drains do, somebody is left who will look at a user with a queued   *)
(* run and room for it.                                                    *)
(***************************************************************************)
EXTENDS DockerRunnerProofs

USE DEF columns, locals, Called, Unheld, MarkDispatched, Orphaned, Verdict, CallDrain

\* The instances in which no wakeup can be lost. Outside them some are: a removal that fails
\* below DockerException ends the thread before its drain, and where runs have lost their
\* threads with the process, a cancel frees a slot, or update_quota adds one, and neither
\* drains.
WakeupsHold ==
    /\ "transport" \notin Faults
    /\ MaxCrashes = 0 \/ (Cancellable = {} /\ PatchTo = {})

\* A drain is called, or a thread is left that will call one.
Wakeup == pending > 0 \/ \E r \in Runs : pc[r] \in LivePlaces

\* The drain under way still has to look at u, or has found room for u.
Attends(d, u) ==
    \/ dpc[d] # "out" /\ u \in todo[d]
    \/ dpc[d] = "select" /\ duser[d] = u
    \/ dpc[d] = "dispatch" /\ duser[d] = u /\ batch[d] # {}

Full(u) == Cardinality(Active(u)) >= quota[u]

\* A user with a queued run waits for a wakeup, for the drain under way, or for room.
Served == \A u \in Users :
    Queued(u) # {} => Wakeup \/ Full(u) \/ \E d \in Drainers : Attends(d, u)

\* A drain selects only for a user it has found room for.
RoomFound == \A d \in Drainers : dpc[d] = "select" => room[d] > 0

\* Threads are lost only where the process may die, cancels are under way only for the
\* runs somebody may cancel, and no limit is zero (QuotaPatch, ge=1).
InstanceInv ==
    /\ MaxCrashes = 0 => \A r \in Runs : pc[r] # "lost"
    /\ Cancellable = {} => \A r \in Runs : cancel[r] = "idle"
    /\ \A u \in Users : quota[u] > 0

QueueInv == Served /\ RoomFound /\ InstanceInv

-----------------------------------------------------------------------------

\* A step that leaves rows, limits, threads and calls alone, and after which the drain
\* attends whom it attended, serves whom it served.
LEMMA ServedFrame ==
    ASSUME Served, UNCHANGED <<state, pc, quota, pending>>,
           \A u \in Users : Queued(u) # {} =>
              \A d \in Drainers : Attends(d, u) => Full(u) \/ \E e \in Drainers : Attends(e, u)'
    PROVE  Served'
<1>1. \A u \in Users : Queued(u)' = Queued(u) /\ (Full(u)' <=> Full(u))
  BY DEF Queued, Full, Active
<1>2. Wakeup' <=> Wakeup
  BY DEF Wakeup
<1> QED
  BY <1>1, <1>2 DEF Served

\* The drain: whoever it takes off its list is full, or gets a run dispatched.
LEMMA ServedDrain ==
    ASSUME Core, QueueInv, NEW d \in Drainers, DrainStep(d)
    PROVE  Served'
<1> USE DEF Core, QueueInv, outsideDrain, quotaVars, rowVars, TypeOK
<1>1. CASE DrainStart(d)
  <2>1. \A u \in Users : Queued(u)' = Queued(u)
    BY <1>1 DEF DrainStart, Queued
  <2>2. \A u \in Users : Queued(u) # {} => Attends(d, u)'
    BY <1>1 DEF DrainStart, Attends
  <2> QED
    BY <2>1, <2>2 DEF Served
<1>2. ASSUME NEW v \in Users, DrainCount(d, v)
      PROVE  Served'
  <2>1. UNCHANGED <<state, pc, quota, pending, batch>>
    BY <1>2 DEF DrainCount
  <2>2. \A e \in Drainers \ {d} : \A u : Attends(e, u) => Attends(e, u)'
    BY <1>2 DEF DrainCount, Attends
  <2>3. \A u : Attends(d, u) /\ u # v => Attends(d, u)'
    BY <1>2 DEF DrainCount, Attends
  <2>4. Full(v) \/ Attends(d, v)'
    <3>1. CASE quota[v] - Cardinality(Active(v)) <= 0
      BY <3>1, QueriesAreFinite DEF Full
    <3>2. CASE ~(quota[v] - Cardinality(Active(v)) <= 0)
      BY <1>2, <3>2 DEF DrainCount, Attends
    <3> QED
      BY <3>1, <3>2
  <2> QED
    BY <2>1, <2>2, <2>3, <2>4, ServedFrame
<1>3. CASE DrainSelect(d)
  <2>1. PICK B \in SUBSET Queued(duser[d]) :
            /\ IsOldest(B, Queued(duser[d]), room[d])
            /\ batch' = [batch EXCEPT ![d] = B]
    BY <1>3 DEF DrainSelect
  <2>2. Queued(duser[d]) # {} => B # {}
    <3>1. room[d] > 0
      BY <1>3 DEF DrainSelect, RoomFound
    <3>2. B = {} => Cardinality(B) = 0
      BY FS_EmptySet
    <3> QED
      BY <2>1, <3>1, <3>2 DEF IsOldest
  <2>3. /\ dpc[d] = "select"
        /\ dpc' = [dpc EXCEPT ![d] = "dispatch"]
        /\ UNCHANGED <<state, pc, quota, pending, duser, todo>>
    BY <1>3 DEF DrainSelect
  <2>4. \A u \in Users : Queued(u) # {} =>
            \A e \in Drainers : Attends(e, u) => Attends(e, u)'
    BY <2>1, <2>2, <2>3 DEF Attends
  <2> QED
    BY <2>3, <2>4, ServedFrame
<1>4. CASE DrainDispatch(d)
  BY <1>4 DEF DrainDispatch, Served, Wakeup, LivePlaces
<1>5. CASE DrainNext(d) \/ DrainEnd(d)
  <2>1. \A u \in Users, e \in Drainers : Attends(e, u) => Attends(e, u)'
    BY <1>5 DEF DrainNext, DrainEnd, Attends
  <2>2. UNCHANGED <<state, pc, quota, pending>>
    BY <1>5 DEF DrainNext, DrainEnd
  <2> QED
    BY <2>1, <2>2, ServedFrame
<1> QED
  BY <1>1, <1>2, <1>3, <1>4, <1>5 DEF DrainStep

\* A step of a thread leaves the thread alive, or has just called the drain.
LEMMA ThreadWakes ==
    ASSUME WakeupsHold, TypeOK, NEW q \in Runs, ThreadStep(q)
    PROVE  Wakeup'
<1> USE DEF TypeOK, Move, LivePlaces, Wakeup
<1>1. CASE Accept(q) \/ Stage(q) \/ CreateContainer(q) \/ RecordId(q) \/ Attach(q)
              \/ StreamTimeout(q) \/ StreamEnd(q) \/ StreamBreaks(q) \/ CheckCancelled(q)
              \/ BeginCollect(q) \/ Collect(q) \/ Decide(q) \/ Fail(q) \/ Remove(q)
  <2>1. pc'[q] \in LivePlaces
    BY <1>1 DEF Accept, Stage, CreateContainer, RecordId, Attach, StreamTimeout, StreamEnd,
       StreamBreaks, CheckCancelled, BeginCollect, Collect, Decide, Fail, Remove
  <2> QED
    BY <2>1
<1>2. CASE RemoveBreaks(q)
  BY <1>2 DEF RemoveBreaks, WakeupsHold
<1>3. CASE Record(q)
  BY <1>3 DEF Record
<1> QED
  BY <1>1, <1>2, <1>3 DEF ThreadStep

\* A request that inserts calls the drain; a cancel takes a slot from nobody but a run
\* whose thread is at work.
LEMMA ServedRequest ==
    ASSUME WakeupsHold, Core, QueueInv, NEW r \in Runs, RequestStep(r)
    PROVE  Served'
<1> USE DEF Core, QueueInv, outsideRequest, quotaVars, threadVars, drainVars
<1>1. CASE SubmitInsert(r) \/ \E old \in Runs : Retry(old, r)
  <2>1. pending' > 0
    BY <1>1 DEF SubmitInsert, Retry, Insert, TypeOK
  <2> QED
    BY <2>1 DEF Served, Wakeup
<1>2. CASE SubmitCheck(r) \/ CancelCheck(r) \/ CancelKill(r)
  <2>1. UNCHANGED <<state, pc, quota, pending, dpc, todo, duser, batch>>
    BY <1>2 DEF SubmitCheck, CancelCheck, CancelKill
  <2>2. \A u \in Users, d \in Drainers : Attends(d, u) => Attends(d, u)'
    BY <2>1 DEF Attends
  <2> QED
    BY <2>1, <2>2, ServedFrame
<1>3. CASE CancelCommit(r)
  <2>1. /\ state' = [state EXCEPT ![r] = "CANCELLED"]
        /\ UNCHANGED <<pc, quota, pending, dpc, todo, duser, batch>>
        /\ cancel[r] # "idle"
    BY <1>3 DEF CancelCommit, Write
  <2>2. state \in [Runs -> RunStates \union {"ABSENT"}]
    BY DEF TypeOK
  <2>3. \A u \in Users : Queued(u)' \subseteq Queued(u)
    BY <2>1, <2>2 DEF Queued
  <2>4. Wakeup' <=> Wakeup
    BY <2>1 DEF Wakeup
  <2>5. \A u \in Users, d \in Drainers : Attends(d, u)' <=> Attends(d, u)
    BY <2>1 DEF Attends
  <2>6. ~Wakeup => \A u \in Users : Active(u)' = Active(u)
    <3> SUFFICES ASSUME ~Wakeup PROVE \A u \in Users : Active(u)' = Active(u)
      OBVIOUS
    <3>1. pc[r] # "lost"
      BY <2>1 DEF InstanceInv, WakeupsHold
    <3>2. state[r] \notin ActiveStates
      BY <3>1 DEF Wakeup, RowInv, VerdictPlaces, LivePlaces
    <3>3. state'[r] \notin ActiveStates
      BY <2>1, <2>2 DEF ActiveStates
    <3>4. \A q \in Runs \ {r} : state'[q] = state[q]
      BY <2>1, <2>2
    <3> QED
      BY <3>2, <3>3, <3>4 DEF Active
  <2>7. ~Wakeup => \A u \in Users : Full(u)' <=> Full(u)
    BY <2>1, <2>6 DEF Full
  <2> QED
    BY <2>3, <2>4, <2>5, <2>7 DEF Served
<1> QED
  BY <1>1, <1>2, <1>3 DEF RequestStep, CancelStep

\* Where no thread was ever lost, a limit is used up by runs with a thread at work: another
\* limit leaves the wakeup to these.
LEMMA ServedQuota ==
    ASSUME WakeupsHold, Core, QueueInv, NEW v \in Users, NEW n \in PatchTo, UpdateQuota(v, n)
    PROVE  Served'
<1> USE DEF Core, QueueInv, drainVars
<1>1. UNCHANGED <<state, pc, pending, dpc, todo, duser, batch>>
  BY DEF UpdateQuota, rowVars, threadVars
<1>2. ASSUME NEW u \in Users, Full(u)
      PROVE  Wakeup
  <2>1. Active(u) # {}
    <3>1. Active(u) = {} => Cardinality(Active(u)) = 0
      BY FS_EmptySet
    <3> QED
      BY <1>2, <3>1 DEF Full, InstanceInv, TypeOK
  <2>2. PICK r \in Runs : state[r] \in ActiveStates
    BY <2>1 DEF Active
  <2>3. pc[r] # "lost"
    BY DEF InstanceInv, WakeupsHold
  <2> QED
    BY <2>2, <2>3 DEF RowInv, VerdictPlaces, Wakeup, LivePlaces
<1>3. \A u \in Users : /\ Queued(u)' = Queued(u)
                       /\ \A d \in Drainers : Attends(d, u)' <=> Attends(d, u)
  BY <1>1 DEF Queued, Attends
<1>4. Wakeup' <=> Wakeup
  BY <1>1 DEF Wakeup
<1> QED
  BY <1>2, <1>3, <1>4 DEF Served

\* Every step keeps somebody who will look at the queue.
LEMMA ServedStep ==
    ASSUME WakeupsHold, Core, QueueInv, [Next]_vars
    PROVE  Served'
<1> USE DEF quotaVars, drainVars
<1>1. ASSUME NEW q \in Runs, ThreadStep(q)
      PROVE  Served'
  BY <1>1, ThreadWakes DEF Served, Core
<1>2. ASSUME NEW u \in Users, NEW n \in PatchTo, UpdateQuota(u, n)
      PROVE  Served'
  BY <1>2, ServedQuota
<1>3. CASE Crash
  BY <1>3 DEF Crash, Served, Wakeup
<1>4. CASE \/ \E q \in Runs : ContainerExit(q) \/ Deadline(q)
           \/ SweepStep
           \/ UNCHANGED vars
  <2>1. UNCHANGED <<state, pc, quota, pending, dpc, todo, duser, batch>>
    BY <1>4 DEF ContainerExit, Deadline, outsideThread, SweepStep, SweepList, SweepExamine,
       SweepRemove, outsideSweep, vars, rowVars, threadVars
  <2>2. \A u \in Users, d \in Drainers : Attends(d, u) => Attends(d, u)'
    BY <2>1 DEF Attends
  <2> QED
    BY <2>1, <2>2, ServedFrame DEF QueueInv
<1> QED
  BY <1>1, <1>2, <1>3, <1>4, ServedDrain, ServedRequest DEF Next

\* A drain that selects has counted room; nobody else touches its locals.
LEMMA RoomStep ==
    ASSUME Core, RoomFound, [Next]_vars
    PROVE  RoomFound'
<1> USE DEF Core, RoomFound, drainVars
<1>1. ASSUME NEW d \in Drainers, DrainStep(d)
      PROVE  RoomFound'
  BY <1>1 DEF DrainStep, DrainStart, DrainCount, DrainSelect, DrainDispatch, DrainNext,
     DrainEnd, TypeOK
<1>2. CASE Crash
  BY <1>2 DEF Crash
<1>3. CASE \/ \E r \in Runs : RequestStep(r) \/ ThreadStep(r) \/ ContainerExit(r) \/ Deadline(r)
           \/ \E u \in Users, n \in PatchTo : UpdateQuota(u, n)
           \/ SweepStep
           \/ UNCHANGED vars
  <2>1. UNCHANGED <<dpc, room>>
    BY <1>3 DEF RequestStep, SubmitCheck, SubmitInsert, Retry, CancelCheck, CancelStep,
       CancelCommit, CancelKill, outsideRequest, ThreadStep, Accept, Stage,
       CreateContainer, RecordId, Attach, StreamTimeout, StreamEnd, StreamBreaks,
       CheckCancelled, BeginCollect, Collect, Decide, Fail, Remove, RemoveBreaks, Record,
       ContainerExit, Deadline, outsideThread, SweepStep, SweepList, SweepExamine,
       SweepRemove, outsideSweep, UpdateQuota, vars
  <2> QED
    BY <2>1
<1> QED
  BY <1>1, <1>2, <1>3 DEF Next

\* Only a crash loses a thread, only a request that passed CancelCheck is under way, and
\* only an operator changes a limit.
LEMMA InstanceStep ==
    ASSUME Core, InstanceInv, [Next]_vars
    PROVE  InstanceInv'
<1>1. ASSUME MaxCrashes = 0
      PROVE  \A r \in Runs : pc'[r] # "lost"
  <2>1. \A r \in Runs : pc[r] # "lost"
    BY <1>1 DEF InstanceInv
  <2>2. ASSUME NEW q \in Runs, ThreadStep(q) \/ ContainerExit(q) \/ Deadline(q)
        PROVE  \A r \in Runs : pc'[r] # "lost"
    BY <2>1, <2>2 DEF Core, TypeOK, Move, ThreadStep, Accept, Stage, CreateContainer, RecordId,
       Attach, StreamTimeout, StreamEnd, StreamBreaks, CheckCancelled, BeginCollect, Collect,
       Decide, Fail, Remove, RemoveBreaks, Record, ContainerExit, Deadline, threadVars
  <2>3. ASSUME NEW d \in Drainers, DrainStep(d)
        PROVE  \A r \in Runs : pc'[r] # "lost"
    BY <2>1, <2>3 DEF Core, TypeOK, DrainStep, DrainStart, DrainCount, DrainSelect,
       DrainDispatch, DrainNext, DrainEnd
  <2>4. ~Crash
    BY <1>1 DEF Crash, Core, TypeOK
  <2>5. CASE \/ \E r \in Runs : RequestStep(r)
             \/ \E u \in Users, n \in PatchTo : UpdateQuota(u, n)
             \/ SweepStep
             \/ UNCHANGED vars
    <3>1. UNCHANGED pc
      BY <2>5 DEF RequestStep, SubmitCheck, SubmitInsert, Retry, CancelCheck, CancelStep,
         CancelCommit, CancelKill, outsideRequest, SweepStep, SweepList, SweepExamine,
         SweepRemove, outsideSweep, UpdateQuota, vars, threadVars
    <3> QED
      BY <2>1, <3>1
  <2> QED
    BY <2>2, <2>3, <2>4, <2>5 DEF Next
<1>2. ASSUME Cancellable = {}
      PROVE  \A r \in Runs : cancel'[r] = "idle"
  <2>1. \A r \in Runs : cancel[r] = "idle"
    BY <1>2 DEF InstanceInv
  <2>2. ASSUME NEW q \in Runs, RequestStep(q)
        PROVE  UNCHANGED cancel
    BY <1>2, <2>1, <2>2 DEF RequestStep, SubmitCheck, SubmitInsert, Retry, CancelCheck,
       CancelStep, CancelCommit, CancelKill
  <2>3. CASE Crash
    BY <2>3 DEF Crash
  <2>4. CASE \/ \E r \in Runs : ThreadStep(r) \/ ContainerExit(r) \/ Deadline(r)
             \/ \E d \in Drainers : DrainStep(d)
             \/ \E u \in Users, n \in PatchTo : UpdateQuota(u, n)
             \/ SweepStep
             \/ UNCHANGED vars
    <3>1. UNCHANGED cancel
      BY <2>4 DEF ThreadStep, Accept, Stage, CreateContainer, RecordId, Attach,
         StreamTimeout, StreamEnd, StreamBreaks, CheckCancelled, BeginCollect, Collect,
         Decide, Fail, Remove, RemoveBreaks, Record, ContainerExit, Deadline, outsideThread,
         DrainStep, DrainStart, DrainCount, DrainSelect, DrainDispatch, DrainNext, DrainEnd,
         outsideDrain, SweepStep, SweepList, SweepExamine, SweepRemove, outsideSweep,
         UpdateQuota, vars, requestVars
    <3> QED
      BY <2>1, <3>1
  <2> QED
    BY <2>1, <2>2, <2>3, <2>4 DEF Next
<1>3. \A u \in Users : quota'[u] > 0
  <2>1. ASSUME NEW v \in Users, NEW n \in PatchTo, UpdateQuota(v, n)
        PROVE  \A u \in Users : quota'[u] > 0
    BY <2>1, LimitsType, LimitsPositive DEF UpdateQuota, Core, TypeOK, InstanceInv
  <2>2. CASE \/ \E r \in Runs : RequestStep(r) \/ ThreadStep(r) \/ ContainerExit(r) \/ Deadline(r)
             \/ \E d \in Drainers : DrainStep(d)
             \/ SweepStep
             \/ Crash
             \/ UNCHANGED vars
    <3>1. UNCHANGED quota
      BY <2>2 DEF RequestStep, SubmitCheck, SubmitInsert, Retry, CancelCheck, CancelStep,
         CancelCommit, CancelKill, outsideRequest, ThreadStep, Accept, Stage, CreateContainer,
         RecordId, Attach, StreamTimeout, StreamEnd, StreamBreaks, CheckCancelled,
         BeginCollect, Collect, Decide, Fail, Remove, RemoveBreaks, Record, ContainerExit,
         Deadline, outsideThread, DrainStep, DrainStart, DrainCount, DrainSelect,
         DrainDispatch, DrainNext, DrainEnd, outsideDrain, SweepStep, SweepList,
         SweepExamine, SweepRemove, outsideSweep, Crash, vars, quotaVars
    <3> QED
      BY <3>1 DEF InstanceInv
  <2> QED
    BY <2>1, <2>2 DEF Next
<1> QED
  BY <1>1, <1>2, <1>3 DEF InstanceInv

-----------------------------------------------------------------------------

\* No wakeup of the queue is lost: with no drain called or under way and no thread left, a
\* queued run waits only because the limit is used up, for any number of runs, trainers and
\* concurrent drains, with cancels, changes of the limits, passes and every fault but one at
\* any moment, or with crashes in place of cancels and changes (start_queue_drain and its
\* callers).
THEOREM NoStrandedQueueHolds ==
    ASSUME WakeupsHold
    PROVE  Spec => []NoStrandedQueue
<1>1. Init => QueueInv
  BY LimitsPositive DEF Init, RowInit, ThreadInit, DrainInit, RequestInit, QueueInv, Served,
     Queued, RoomFound, InstanceInv
<1>2. Core /\ QueueInv /\ [Next]_vars => QueueInv'
  BY ServedStep, RoomStep, InstanceStep DEF QueueInv
<1>3. Core /\ QueueInv => NoStrandedQueue
  <2> SUFFICES ASSUME Core, QueueInv, NEW u \in Users,
                      Queued(u) # {}, pending = 0, lock = NoDrainer,
                      \A r \in Runs : pc[r] \notin LivePlaces
               PROVE  Cardinality(Active(u)) >= quota[u]
    BY DEF NoStrandedQueue
  <2>1. ~Wakeup
    BY DEF Wakeup
  <2>2. \A d \in Drainers : ~Attends(d, u)
    BY OutsiderNames DEF Attends, Core, LockInv
  <2> QED
    BY <2>1, <2>2 DEF QueueInv, Served, Full
<1> QED
  BY <1>1, <1>2, <1>3, CoreHolds, PTL DEF Spec

-----------------------------------------------------------------------------
(* The length of the queue. What waits, or is about to, is counted as one  *)
(* set: inserting a row leaves it as it is, and only a count adds to it.   *)

\* Nothing but a request that has just counted adds to what waits.
LEMMA QueueingShrinks ==
    ASSUME QueueBound, NEW u \in Users, crowd[u] \in Nat, crowd'[u] = crowd[u],
           Queueing(u)' \subseteq Queueing(u)
    PROVE  Cardinality(Queueing(u)') < MaxQueued[u] + crowd'[u]
<1>1. Queueing(u) \subseteq Runs
  BY DEF Queueing
<1>2. IsFiniteSet(Queueing(u))
  BY <1>1, RunsFinite, FS_Subset
<1>3. /\ Cardinality(Queueing(u)') <= Cardinality(Queueing(u))
      /\ Cardinality(Queueing(u)') \in Nat /\ Cardinality(Queueing(u)) \in Nat
  BY <1>2, FS_Subset, FS_CardinalityType
<1>4. MaxQueued[u] \in Nat
  BY LimitsType
<1> QED
  BY <1>3, <1>4 DEF QueueBound

\* A count that finds room finds fewer rows than the limit, and beside those wait only
\* the requests that are half way.
LEMMA CountedInTime ==
    ASSUME Core, QueueBound, NEW r \in Runs, SubmitCheck(r), NEW u \in Users
    PROVE  Cardinality(Queueing(u)') < MaxQueued[u] + crowd'[u]
<1> USE DEF Core, TypeOK
<1>1. CASE u # Owner[r]
  <2>1. Queueing(u)' \subseteq Queueing(u)
    BY <1>1 DEF SubmitCheck, Queueing
  <2>2. crowd'[u] = crowd[u]
    BY <1>1 DEF SubmitCheck
  <2> QED
    BY <2>1, <2>2, QueueingShrinks
<1>2. CASE u = Owner[r]
  <2> DEFINE H == {q \in admitted' : Owner[q] = u}
  <2>1. admitted' \subseteq Runs
    BY DEF SubmitCheck
  <2>2. IsFiniteSet(H) /\ Cardinality(H) \in Nat
    BY <2>1, HalfWayIsFinite DEF HalfWay
  <2>3. Cardinality(H) <= crowd'[u]
    BY <1>2, <2>2 DEF SubmitCheck, HalfWay
  <2>4. /\ IsFiniteSet(Queued(u)) /\ Cardinality(Queued(u)) \in Nat
        /\ Cardinality(Queued(u)) < MaxQueued[u]
    <3>1. Queued(u) \subseteq Runs
      BY DEF Queued
    <3> QED
      BY <1>2, <3>1, RunsFinite, FS_Subset, FS_CardinalityType DEF SubmitCheck, HasRoom
  <2>5. Queueing(u)' \subseteq Queued(u) \union H
    BY DEF Queueing, Queued, SubmitCheck
  <2>6. /\ IsFiniteSet(Queued(u) \union H)
        /\ Cardinality(Queued(u) \union H) <= Cardinality(Queued(u)) + Cardinality(H)
    <3>1. /\ IsFiniteSet(Queued(u) \intersect H)
          /\ Cardinality(Queued(u) \intersect H) \in Nat
      BY <2>2, FS_Intersection, FS_CardinalityType
    <3>2. /\ IsFiniteSet(Queued(u) \union H)
          /\ Cardinality(Queued(u) \union H)
                = Cardinality(Queued(u)) + Cardinality(H) - Cardinality(Queued(u) \intersect H)
      BY <2>2, <2>4, FS_Union
    <3> HIDE DEF H
    <3> QED
      BY <2>2, <2>4, <3>1, <3>2
  <2>7. Cardinality(Queueing(u)') <= Cardinality(Queued(u) \union H)
    BY <2>5, <2>6, FS_Subset
  <2>8. /\ Cardinality(Queueing(u)') \in Nat /\ Cardinality(Queued(u) \union H) \in Nat
        /\ MaxQueued[u] \in Nat /\ crowd'[u] \in Nat
    <3>1. IsFiniteSet(Queueing(u)')
      BY <2>5, <2>6, FS_Subset
    <3>2. crowd'[u] \in Nat
      BY <1>2, <2>2 DEF SubmitCheck, HalfWay
    <3> QED
      BY <2>6, <3>1, <3>2, FS_CardinalityType, LimitsType
  <2> HIDE DEF H
  <2> QED
    BY <2>2, <2>3, <2>4, <2>6, <2>7, <2>8
<1> QED
  BY <1>1, <1>2

LEMMA BoundStep == Core /\ QueueBound /\ [Next]_vars => QueueBound'
<1> SUFFICES ASSUME Core, QueueBound, [Next]_vars, NEW u \in Users
             PROVE  Cardinality(Queueing(u)') < MaxQueued[u] + crowd'[u]
  BY DEF QueueBound
<1> USE DEF Core, TypeOK
<1>0. ASSUME UNCHANGED crowd, Queueing(u)' \subseteq Queueing(u)
      PROVE  Cardinality(Queueing(u)') < MaxQueued[u] + crowd'[u]
  BY <1>0, QueueingShrinks
<1>1. ASSUME NEW r \in Runs, RequestStep(r), ~SubmitCheck(r)
      PROVE  UNCHANGED crowd /\ Queueing(u)' \subseteq Queueing(u)
  <2>1. UNCHANGED crowd
    BY <1>1 DEF RequestStep, SubmitInsert, Retry, CancelCheck, CancelStep, CancelCommit, CancelKill
  <2>2. CASE SubmitInsert(r) \/ CancelCheck(r) \/ CancelKill(r)
    BY <2>2 DEF SubmitInsert, Insert, CancelCheck, CancelKill, Queueing
  <2>3. CASE CancelCommit(r)
    BY <2>3 DEF CancelCommit, Write, Queueing
  <2>4. ASSUME NEW old \in Runs, Retry(old, r)
        PROVE  Queueing(u)' \subseteq Queueing(u)
    BY <2>4 DEF Retry, Insert, Queueing
  <2> QED
    BY <1>1, <2>1, <2>2, <2>3, <2>4 DEF RequestStep, CancelStep
<1>2. ASSUME NEW r \in Runs, ThreadStep(r) \/ ContainerExit(r) \/ Deadline(r)
      PROVE  UNCHANGED crowd /\ Queueing(u)' \subseteq Queueing(u)
  <2>1. OwnRowOnly(r) /\ RowStays(r)
    BY <1>2, ThreadEffect
  <2>2. UNCHANGED <<crowd, admitted>>
    BY <1>2 DEF ThreadStep, Accept, Stage, CreateContainer, RecordId, Attach, StreamTimeout,
       StreamEnd, StreamBreaks, CheckCancelled, BeginCollect, Collect, Decide, Fail, Remove,
       RemoveBreaks, Record, ContainerExit, Deadline, outsideThread, requestVars
  <2>3. \A q \in Runs : state'[q] = "QUEUED" => state[q] = "QUEUED"
    BY <2>1 DEF OwnRowOnly, RowStays, LivePlaces
  <2> QED
    BY <2>2, <2>3 DEF Queueing
<1>3. ASSUME NEW d \in Drainers, DrainStep(d)
      PROVE  UNCHANGED crowd /\ Queueing(u)' \subseteq Queueing(u)
  BY <1>3 DEF DrainStep, DrainStart, DrainCount, DrainSelect, DrainDispatch, DrainNext, DrainEnd,
     Write, outsideDrain, requestVars, rowVars, Queueing
<1>4. CASE Crash \/ SweepStep \/ UNCHANGED vars \/ \E v \in Users, n \in PatchTo : UpdateQuota(v, n)
  BY <1>0, <1>4 DEF Crash, SweepStep, SweepList, SweepExamine, SweepRemove, outsideSweep, UpdateQuota,
     requestVars, rowVars, vars, Queueing
<1> QED
  BY <1>0, <1>1, <1>2, <1>3, <1>4, CountedInTime DEF Next

\* For any number of requests, users and drains: max_queued_runs is overrun by less than the
\* number of requests of the trainer that were between count and insert at once, and not at
\* all by requests that come one after another (_create_run_record).
THEOREM QueueBoundHolds == Spec => []QueueBound
<1>1. Init => QueueBound
  <2> SUFFICES ASSUME Init, NEW u \in Users
               PROVE  Cardinality(Queueing(u)) < MaxQueued[u] + crowd[u]
    BY DEF QueueBound
  <2>1. Queueing(u) = {}
    BY DEF Init, RowInit, RequestInit, Queueing
  <2>2. crowd[u] = 0 /\ MaxQueued[u] \in Nat /\ MaxQueued[u] > 0
    BY LimitsType, LimitsPositive DEF Init, RequestInit
  <2>3. Cardinality(Queueing(u)) = 0
    BY <2>1, FS_EmptySet
  <2> QED
    BY <2>2, <2>3
<1> QED
  BY <1>1, BoundStep, CoreHolds, PTL DEF Spec

=============================================================================
