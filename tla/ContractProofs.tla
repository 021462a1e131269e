---------------------------- MODULE ContractProofs ----------------------------
(***************************************************************************)
(* Proof that the execution path, with its threads, drains, cancels,       *)
(* passes, faults and crashes, implements ExecutionContract.               *)
(***************************************************************************)
EXTENDS SandboxProofs

USE DEF columns, locals, Called, Unheld, MarkDispatched, Orphaned, Verdict, CallDrain

\* A queued row left out of a batch is younger than those in it, and stays so: what is
\* inserted later is younger than every row.
OrderInv ==
    /\ \A r \in Runs : queuedAt[r] <= clock
    /\ \A d \in Drainers : \A r \in batch[d] : \A s \in Queued(duser[d]) \ batch[d] :
          queuedAt[r] <= queuedAt[s]

LEMMA OrderDrain ==
    ASSUME Core, OrderInv, NEW d \in Drainers, DrainStep(d)
    PROVE  OrderInv'
<1> USE DEF Core, OrderInv, outsideDrain, rowVars, TypeOK
<1>1. CASE DrainStart(d)
  BY <1>1 DEF DrainStart, Queued
<1>2. ASSUME NEW u \in Users, DrainCount(d, u)
      PROVE  OrderInv'
  <2>1. batch[d] = {}
    BY <1>2 DEF DrainCount, BatchInv
  <2>2. /\ UNCHANGED <<state, queuedAt, clock, batch>>
        /\ \A e \in Drainers \ {d} : duser'[e] = duser[e]
    BY <1>2 DEF DrainCount
  <2> QED
    BY <2>1, <2>2 DEF Queued
<1>3. CASE DrainSelect(d)
  <2>1. PICK B \in SUBSET Queued(duser[d]) :
            /\ IsOldest(B, Queued(duser[d]), room[d])
            /\ batch' = [batch EXCEPT ![d] = B]
    BY <1>3 DEF DrainSelect
  <2>2. UNCHANGED <<state, queuedAt, clock, duser>>
    BY <1>3 DEF DrainSelect
  <2> QED
    BY <2>1, <2>2 DEF IsOldest, Queued
<1>4. CASE DrainDispatch(d)
  <2>1. PICK r \in batch[d] :
            /\ batch' = [batch EXCEPT ![d] = @ \ {r}]
            /\ state' = [state EXCEPT ![r] = "PROVISIONING"]
    BY <1>4 DEF DrainDispatch, Write
  <2>2. UNCHANGED <<queuedAt, clock, duser>>
    BY <1>4 DEF DrainDispatch
  <2>3. \A u : Queued(u)' \subseteq Queued(u) \ {r}
    BY <2>1 DEF Queued
  <2> QED
    BY <2>1, <2>2, <2>3
<1>5. CASE DrainNext(d)
  BY <1>5 DEF DrainNext, Queued
<1>6. CASE DrainEnd(d)
  <2>1. batch[d] = {}
    BY <1>6 DEF DrainEnd, BatchInv
  <2>2. /\ UNCHANGED <<state, queuedAt, clock, batch>>
        /\ \A e \in Drainers \ {d} : duser'[e] = duser[e]
    BY <1>6 DEF DrainEnd
  <2> QED
    BY <2>1, <2>2 DEF Queued
<1> QED
  BY <1>1, <1>2, <1>3, <1>4, <1>5, <1>6 DEF DrainStep

\* A new row is the youngest of all; nobody outside the drain makes a row queued otherwise.
LEMMA OrderStep ==
    ASSUME Core, OrderInv, [Next]_vars
    PROVE  OrderInv'
<1> USE DEF Core, OrderInv, TypeOK
<1>0. ASSUME UNCHANGED <<queuedAt, clock, batch, duser>>,
             \A u : Queued(u)' \subseteq Queued(u)
      PROVE  OrderInv'
  BY <1>0
<1>1. ASSUME NEW r \in Runs, RequestStep(r)
      PROVE  OrderInv'
  <2> USE DEF outsideRequest, drainVars
  <2>1. ASSUME Insert(r), state[r] = "ABSENT", UNCHANGED <<batch, duser>>
        PROVE  OrderInv'
    <3>1. \A d \in Drainers : r \notin batch[d]
      BY <2>1 DEF BatchInv
    <3>2. \A q \in Runs \ {r} : queuedAt'[q] = queuedAt[q] /\ state'[q] = state[q]
      BY <2>1 DEF Insert
    <3>3. queuedAt'[r] = clock + 1 /\ clock' = clock + 1
      BY <2>1 DEF Insert
    <3> QED
      BY <2>1, <3>1, <3>2, <3>3 DEF Queued
  <2>2. CASE SubmitInsert(r) \/ \E old \in Runs : Retry(old, r)
    BY <2>1, <2>2 DEF SubmitInsert, Retry, RowInv
  <2>3. CASE SubmitCheck(r) \/ CancelCheck(r) \/ CancelKill(r)
    BY <1>0, <2>3 DEF SubmitCheck, CancelCheck, CancelKill, Queued
  <2>4. CASE CancelCommit(r)
    BY <1>0, <2>4 DEF CancelCommit, Write, Queued
  <2> QED
    BY <1>1, <2>2, <2>3, <2>4 DEF RequestStep, CancelStep
<1>2. ASSUME NEW r \in Runs, ThreadStep(r) \/ ContainerExit(r) \/ Deadline(r)
      PROVE  OrderInv'
  <2>1. OwnRowOnly(r) /\ RowStays(r)
    BY <1>2, ThreadEffect
  <2>2. state'[r] = "QUEUED" => state[r] = "QUEUED"
    BY <2>1 DEF OwnRowOnly, RowStays, LivePlaces
  <2>3. \A u : Queued(u)' \subseteq Queued(u)
    BY <2>1, <2>2 DEF OwnRowOnly, Queued
  <2> QED
    BY <1>0, <2>1, <2>3 DEF OwnRowOnly, drainVars
<1>3. CASE Crash
  BY <1>3 DEF Crash, rowVars
<1>4. CASE SweepStep \/ UNCHANGED vars \/ \E u \in Users, n \in PatchTo : UpdateQuota(u, n)
  BY <1>0, <1>4 DEF SweepStep, SweepList, SweepExamine, SweepRemove, outsideSweep, UpdateQuota,
     vars, rowVars, drainVars, Queued
<1> QED
  BY <1>1, <1>2, <1>3, <1>4, OrderDrain DEF Next

-----------------------------------------------------------------------------
(* The refinement mapping, run by run.                                     *)

PhaseCases ==
    \A r \in Runs :
        /\ state[r] = "ABSENT" => PhaseOf(r) = "absent"
        /\ pc[r] = "none" /\ state[r] = "QUEUED" => PhaseOf(r) = "waiting"
        /\ pc[r] = "none" /\ state[r] = "CANCELLED" => PhaseOf(r) = "withdrawn"
        /\ pc[r] \in LivePlaces => PhaseOf(r) = "executing"
        /\ pc[r] \in {"done", "broken", "lost"} => PhaseOf(r) = "over"

BoxCases ==
    \A r \in Runs :
        /\ container[r] = "none" => BoxOf(r) = "none"
        /\ container[r] \in {"created", "running", "exited"} => BoxOf(r) = "open"
        /\ container[r] = "gone" => BoxOf(r) = "destroyed"

LEMMA Mapping == Core => PhaseCases /\ BoxCases
<1> SUFFICES ASSUME Core, NEW r \in Runs
             PROVE  /\ state[r] = "ABSENT" => PhaseOf(r) = "absent"
                    /\ pc[r] = "none" /\ state[r] = "QUEUED" => PhaseOf(r) = "waiting"
                    /\ pc[r] = "none" /\ state[r] = "CANCELLED" => PhaseOf(r) = "withdrawn"
                    /\ pc[r] \in LivePlaces => PhaseOf(r) = "executing"
                    /\ pc[r] \in {"done", "broken", "lost"} => PhaseOf(r) = "over"
                    /\ container[r] = "none" => BoxOf(r) = "none"
                    /\ container[r] \in {"created", "running", "exited"} => BoxOf(r) = "open"
                    /\ container[r] = "gone" => BoxOf(r) = "destroyed"
  BY DEF PhaseCases, BoxCases
<1> USE DEF Core, RowInv, LivePlaces
<1>1. state[r] = "ABSENT" => pc[r] = "none"
  OBVIOUS
<1>2. CASE state[r] = "ABSENT"
  BY <1>1, <1>2 DEF PhaseOf, BoxOf, Present
<1>3. CASE state[r] # "ABSENT"
  BY <1>3 DEF PhaseOf, BoxOf, Present
<1> QED
  BY <1>2, <1>3

LEMMA MappingAfter == Core' => PhaseCases' /\ BoxCases'
BY Mapping, PTL

\* The contract's variables, as the mapping gives them.
phaseMap == [r \in Runs |-> PhaseOf(r)]
boxMap == [r \in Runs |-> BoxOf(r)]

\* What nobody writes maps to what it mapped to.
LEMMA Untouched ==
    ASSUME NEW r
    PROVE  /\ state'[r] = state[r] /\ pc'[r] = pc[r] => PhaseOf(r)' = PhaseOf(r)
           /\ container'[r] = container[r] => BoxOf(r)' = BoxOf(r)
<1>1. ASSUME state'[r] = state[r], pc'[r] = pc[r]
      PROVE  PhaseOf(r)' = PhaseOf(r)
  BY <1>1 DEF PhaseOf
<1>2. ASSUME container'[r] = container[r]
      PROVE  BoxOf(r)' = BoxOf(r)
  <2>1. r \in Present' <=> r \in Present
    BY <1>2 DEF Present
  <2> QED
    BY <1>2, <2>1 DEF BoxOf
<1> QED
  BY <1>1, <1>2

LEMMA MapMoves ==
    ASSUME NEW r \in Runs
    PROVE  /\ (\A q \in Runs \ {r} : PhaseOf(q)' = PhaseOf(q))
                => phaseMap' = [phaseMap EXCEPT ![r] = PhaseOf(r)']
           /\ (\A q \in Runs \ {r} : BoxOf(q)' = BoxOf(q))
                => boxMap' = [boxMap EXCEPT ![r] = BoxOf(r)']
           /\ PhaseOf(r)' = PhaseOf(r) => [phaseMap EXCEPT ![r] = PhaseOf(r)'] = phaseMap
           /\ BoxOf(r)' = BoxOf(r) => [boxMap EXCEPT ![r] = BoxOf(r)'] = boxMap
BY DEF phaseMap, boxMap

\* One step of the contract, or none.
ContractStep == [Contract!Next]_(Contract!contractVars)

\* A step of the execution path that the contract does not see.
LEMMA Unseen ==
    ASSUME \A r \in Runs : PhaseOf(r)' = PhaseOf(r) /\ BoxOf(r)' = BoxOf(r),
           UNCHANGED <<queuedAt, clock>>
    PROVE  ContractStep
BY DEF ContractStep, Contract!contractVars

\* A step that only removes or creates the sandbox of one run, or changes how it stands.
LEMMA BoxMoves ==
    ASSUME BoxCases, BoxCases', NEW r \in Runs, Core, Core',
           \A q \in Runs : PhaseOf(q)' = PhaseOf(q),
           \A q \in Runs \ {r} : container'[q] = container[q],
           UNCHANGED <<queuedAt, clock>>,
           \/ container'[r] = container[r]
           \/ container[r] \in {"created", "running", "exited"} /\ container'[r] # "none"
           \/ /\ PhaseOf(r) = "executing"
              /\ container[r] = "none"
              /\ container'[r] \in {"created", "running", "exited"}
    PROVE  ContractStep
<1>1. \A q \in Runs \ {r} : BoxOf(q)' = BoxOf(q)
  BY Untouched
<1>2. boxMap' = [boxMap EXCEPT ![r] = BoxOf(r)']
  BY <1>1, MapMoves
<1>3. phaseMap' = phaseMap
  BY DEF phaseMap
<1>4. CASE BoxOf(r)' = BoxOf(r)
  BY <1>1, <1>4, Unseen
<1>5. CASE container[r] \in {"created", "running", "exited"} /\ container'[r] = "gone"
  <2>1. BoxOf(r) = "open" /\ BoxOf(r)' = "destroyed"
    BY <1>5 DEF BoxCases
  <2>2. Contract!DestroyBox(r)
    BY <1>2, <1>3, <2>1 DEF Contract!DestroyBox, phaseMap, boxMap
  <2> QED
    BY <2>2 DEF ContractStep, Contract!Next
<1>6. CASE /\ PhaseOf(r) = "executing"
           /\ container[r] = "none"
           /\ container'[r] \in {"created", "running", "exited"}
  <2>1. BoxOf(r) = "none" /\ BoxOf(r)' = "open"
    BY <1>6 DEF BoxCases
  <2>2. Contract!OpenBox(r)
    BY <1>2, <1>3, <1>6, <2>1 DEF Contract!OpenBox, phaseMap, boxMap
  <2> QED
    BY <2>2 DEF ContractStep, Contract!Next
<1>7. container[r] \in {"created", "running", "exited"} /\ container'[r] \notin {"none", "gone"}
         => BoxOf(r)' = BoxOf(r)
  BY DEF BoxCases, Core, TypeOK
<1>8. container'[r] = container[r] => BoxOf(r)' = BoxOf(r)
  BY Untouched
<1> QED
  BY <1>4, <1>5, <1>6, <1>7, <1>8

-----------------------------------------------------------------------------
(* Step by step.                                                           *)

Mapped == Core /\ Core' /\ PhaseCases /\ BoxCases /\ PhaseCases' /\ BoxCases'

\* A dispatch starts the oldest run that waits; the rest of the drain is not seen.
LEMMA DrainRefines ==
    ASSUME Mapped, OrderInv, NEW d \in Drainers, DrainStep(d)
    PROVE  ContractStep
<1> USE DEF Mapped, outsideDrain, rowVars
<1>1. CASE DrainDispatch(d)
  <2>1. PICK r \in batch[d] :
            /\ \A s \in batch[d] : queuedAt[r] <= queuedAt[s]
            /\ state' = [state EXCEPT ![r] = "PROVISIONING"]
            /\ pc' = [pc EXCEPT ![r] = "load"]
    BY <1>1 DEF DrainDispatch, Write
  <2>2. /\ r \in Runs
        /\ Owner[r] = duser[d]
        /\ pc[r] = "none"
        /\ state[r] \in {"QUEUED", "CANCELLED"}
    BY <2>1 DEF Core, TypeOK, BatchInv
  <2>3. UNCHANGED <<queuedAt, clock, container>>
    BY <1>1 DEF DrainDispatch
  <2>4. \A q \in Runs \ {r} : PhaseOf(q)' = PhaseOf(q)
    BY <2>1, Untouched DEF Core, TypeOK
  <2>5. PhaseOf(r) \in {"waiting", "withdrawn"} /\ PhaseOf(r)' = "executing"
    BY <2>1, <2>2 DEF PhaseCases, Core, TypeOK, LivePlaces
  <2>6. phaseMap' = [phaseMap EXCEPT ![r] = "executing"] /\ boxMap' = boxMap
    BY <2>2, <2>3, <2>4, <2>5, MapMoves, Untouched DEF boxMap
  <2>7. ASSUME NEW s \in Runs, PhaseOf(s) = "waiting", Owner[s] = Owner[r]
        PROVE  queuedAt[r] <= queuedAt[s]
    <3>1. s \in Queued(duser[d])
      <4>1. pc[s] \in LivePlaces \union {"none", "done", "broken", "lost"}
        BY DEF Core, TypeOK, Places
      <4>2. pc[s] = "none"
        BY <2>7, <4>1 DEF PhaseCases
      <4>3. state[s] \in {"ABSENT", "QUEUED", "CANCELLED"}
        BY <4>2 DEF Core, RowInv
      <4>4. state[s] = "QUEUED"
        BY <2>7, <4>2, <4>3 DEF PhaseCases
      <4> QED
        BY <2>2, <2>7, <4>4 DEF Queued
    <3> QED
      BY <2>1, <3>1 DEF OrderInv
  <2>8. Contract!Start(r)
    BY <2>2, <2>3, <2>5, <2>6, <2>7 DEF Contract!Start, phaseMap, boxMap
  <2> QED
    BY <2>2, <2>8 DEF ContractStep, Contract!Next
<1>2. CASE DrainStart(d) \/ (\E u \in Users : DrainCount(d, u)) \/ DrainSelect(d)
              \/ DrainNext(d) \/ DrainEnd(d)
  <2>1. UNCHANGED <<state, pc, container, queuedAt, clock>>
    BY <1>2 DEF DrainStart, DrainCount, DrainSelect, DrainNext, DrainEnd
  <2> QED
    BY <2>1, Untouched, Unseen
<1> QED
  BY <1>1, <1>2 DEF DrainStep

\* An insert lists a run, a cancel withdraws one that still waits.
LEMMA RequestRefines ==
    ASSUME Mapped, NEW r \in Runs, RequestStep(r)
    PROVE  ContractStep
<1> USE DEF Mapped, outsideRequest, threadVars
<1>1. ASSUME Insert(r), state[r] = "ABSENT", UNCHANGED <<pc, container>>
      PROVE  ContractStep
  <2>1. pc[r] = "none"
    BY <1>1 DEF Core, RowInv
  <2>2. PhaseOf(r) = "absent" /\ PhaseOf(r)' = "waiting"
    BY <1>1, <2>1 DEF PhaseCases, Insert, Core, TypeOK
  <2>3. phaseMap' = [phaseMap EXCEPT ![r] = "waiting"] /\ boxMap' = boxMap
    <3>1. \A q \in Runs \ {r} : PhaseOf(q)' = PhaseOf(q)
      BY <1>1, Untouched DEF Insert, Core, TypeOK
    <3>2. \A q \in Runs : BoxOf(q)' = BoxOf(q)
      BY <1>1, Untouched
    <3> QED
      BY <2>2, <3>1, <3>2, MapMoves DEF boxMap
  <2>4. Contract!List(r)
    BY <1>1, <2>2, <2>3 DEF Contract!List, phaseMap, boxMap, Insert
  <2> QED
    BY <2>4 DEF ContractStep, Contract!Next
<1>2. CASE SubmitInsert(r) \/ \E old \in Runs : Retry(old, r)
  BY <1>1, <1>2 DEF SubmitInsert, Retry, Core, RowInv
<1>3. CASE CancelCommit(r)
  <2>1. /\ state' = [state EXCEPT ![r] = "CANCELLED"]
        /\ state[r] # "ABSENT"
        /\ UNCHANGED <<pc, container, queuedAt, clock>>
    BY <1>3 DEF CancelCommit, Write, Core, RowInv
  <2>2. \A q \in Runs \ {r} : PhaseOf(q)' = PhaseOf(q)
    BY <2>1, Untouched DEF Core, TypeOK
  <2>3. \A q \in Runs : BoxOf(q)' = BoxOf(q)
    BY <2>1, Untouched
  <2>4. CASE pc[r] = "none" /\ state[r] = "QUEUED"
    <3>1. PhaseOf(r) = "waiting" /\ PhaseOf(r)' = "withdrawn"
      BY <2>1, <2>4 DEF PhaseCases, Core, TypeOK
    <3>2. phaseMap' = [phaseMap EXCEPT ![r] = "withdrawn"] /\ boxMap' = boxMap
      BY <2>2, <2>3, <3>1, MapMoves DEF boxMap
    <3>3. Contract!Withdraw(r)
      BY <2>1, <3>1, <3>2 DEF Contract!Withdraw, phaseMap, boxMap
    <3> QED
      BY <3>3 DEF ContractStep, Contract!Next
  <2>5. CASE ~(pc[r] = "none" /\ state[r] = "QUEUED")
    <3>1. pc[r] = "none" => state[r] = "CANCELLED"
      BY <2>1, <2>5 DEF Core, RowInv
    <3>2. PhaseOf(r)' = PhaseOf(r)
      BY <2>1, <3>1 DEF PhaseCases, Core, TypeOK, Places
    <3> QED
      BY <2>1, <2>2, <2>3, <3>2, Unseen
  <2> QED
    BY <2>4, <2>5
<1>4. CASE CancelKill(r)
  <2>1. /\ UNCHANGED <<state, pc, queuedAt, clock>>
        /\ \A q \in Runs \ {r} : container'[q] = container[q]
        /\ \/ container'[r] = container[r]
           \/ container[r] \in {"created", "running", "exited"} /\ container'[r] # "none"
    BY <1>4 DEF CancelKill, Present, Core, TypeOK
  <2> QED
    BY <2>1, Untouched, BoxMoves
<1>5. CASE SubmitCheck(r) \/ CancelCheck(r)
  BY <1>5, Untouched, Unseen DEF SubmitCheck, CancelCheck
<1> QED
  BY <1>2, <1>3, <1>4, <1>5 DEF RequestStep, CancelStep

\* A thread executes its run until it ends or breaks, and opens its sandbox once.
LEMMA ThreadRefines ==
    ASSUME Mapped, BoxInv, NEW r \in Runs, ThreadStep(r) \/ ContainerExit(r) \/ Deadline(r)
    PROVE  ContractStep
<1> USE DEF Mapped, outsideThread, rowVars, threadVars, Move
<1>1. \A q \in Runs \ {r} : PhaseOf(q)' = PhaseOf(q)
  BY ThreadEffect, Untouched DEF OwnRowOnly, Core
<1>2. UNCHANGED <<queuedAt, clock>>
  BY ThreadEffect DEF OwnRowOnly, Core
<1>3. CASE RemoveBreaks(r) \/ Record(r)
  <2>1. /\ pc[r] \in LivePlaces
        /\ pc'[r] \in {"done", "broken"}
        /\ UNCHANGED container
    BY <1>3 DEF RemoveBreaks, Record, Core, TypeOK, LivePlaces
  <2>2. PhaseOf(r) = "executing" /\ PhaseOf(r)' = "over"
    BY <2>1 DEF PhaseCases
  <2>3. /\ phaseMap' = [q \in Runs |-> IF q \in {r} THEN "over" ELSE phaseMap[q]]
        /\ boxMap' = boxMap
    BY <1>1, <2>1, <2>2, Untouched DEF phaseMap, boxMap
  <2>4. Contract!End
    BY <1>2, <2>2, <2>3 DEF Contract!End, phaseMap, boxMap
  <2> QED
    BY <2>4 DEF ContractStep, Contract!Next
<1>4. CASE ContainerExit(r) \/ Deadline(r)
  <2>1. /\ UNCHANGED <<state, pc>>
        /\ \A q \in Runs \ {r} : container'[q] = container[q]
        /\ \/ container'[r] = container[r]
           \/ container[r] \in {"created", "running", "exited"} /\ container'[r] # "none"
    BY <1>4 DEF ContainerExit, Deadline, Core, TypeOK
  <2> QED
    BY <1>2, <2>1, Untouched, BoxMoves
<1>5. ASSUME pc[r] \in LivePlaces, pc'[r] \in LivePlaces,
             \A q \in Runs \ {r} : container'[q] = container[q],
             \/ container'[r] = container[r]
             \/ container[r] \in {"created", "running", "exited"} /\ container'[r] # "none"
             \/ container[r] = "none" /\ container'[r] \in {"created", "running", "exited"}
      PROVE  ContractStep
  <2>1. PhaseOf(r) = "executing" /\ PhaseOf(r)' = "executing"
    BY <1>5 DEF PhaseCases
  <2> QED
    BY <1>1, <1>2, <1>5, <2>1, BoxMoves
<1>6. CASE Accept(r) \/ Stage(r) \/ RecordId(r) \/ Attach(r) \/ StreamEnd(r) \/ StreamBreaks(r)
              \/ CheckCancelled(r) \/ BeginCollect(r) \/ Collect(r) \/ Decide(r) \/ Fail(r)
  <2>1. pc[r] \in LivePlaces /\ pc'[r] \in LivePlaces /\ UNCHANGED container
    BY <1>6 DEF Accept, Stage, RecordId, Attach, StreamEnd, StreamBreaks, CheckCancelled,
       BeginCollect, Collect, Decide, Fail, Core, TypeOK, LivePlaces
  <2> QED
    BY <1>5, <2>1
<1>7. CASE CreateContainer(r)
  BY <1>5, <1>7 DEF CreateContainer, BoxInv, Core, TypeOK, LivePlaces
<1>8. CASE StreamTimeout(r)
  BY <1>5, <1>8 DEF StreamTimeout, Core, TypeOK, LivePlaces
<1>9. CASE Remove(r)
  BY <1>5, <1>9 DEF Remove, Present, Core, TypeOK, LivePlaces
<1> QED
  BY <1>3, <1>4, <1>6, <1>7, <1>8, <1>9 DEF ThreadStep

\* A pass destroys sandboxes; a crash ends every execution at once.
LEMMA OthersRefine ==
    ASSUME Mapped,
           \/ SweepStep
           \/ Crash
           \/ \E u \in Users, n \in PatchTo : UpdateQuota(u, n)
           \/ UNCHANGED vars
    PROVE  ContractStep
<1> USE DEF Mapped, outsideSweep, rowVars, threadVars
<1>1. ASSUME NEW r \in Runs, SweepRemove(r)
      PROVE  ContractStep
  <2>1. /\ UNCHANGED <<state, pc, queuedAt, clock>>
        /\ \A q \in Runs \ {r} : container'[q] = container[q]
        /\ \/ container'[r] = container[r]
           \/ container[r] \in {"created", "running", "exited"} /\ container'[r] # "none"
    BY <1>1 DEF SweepRemove, Present, Core, TypeOK
  <2> QED
    BY <2>1, Untouched, BoxMoves
<1>2. CASE Crash
  <2> DEFINE S == {r \in Runs : pc[r] \in LivePlaces}
  <2>1. /\ pc' = [r \in Runs |-> IF r \in S THEN "lost" ELSE pc[r]]
        /\ UNCHANGED <<state, container, queuedAt, clock>>
    BY <1>2 DEF Crash
  <2>2. \A r \in S : PhaseOf(r) = "executing" /\ PhaseOf(r)' = "over"
    BY <2>1 DEF PhaseCases
  <2>3. \A r \in Runs \ S : PhaseOf(r)' = PhaseOf(r)
    BY <2>1, Untouched
  <2>4. \A r \in Runs : BoxOf(r)' = BoxOf(r)
    BY <2>1, Untouched
  <2>5. CASE S = {}
    BY <2>1, <2>3, <2>4, <2>5, Unseen
  <2>6. CASE S # {}
    <3>1. /\ S \in (SUBSET {r \in Runs : phaseMap[r] = "executing"}) \ {{}}
          /\ phaseMap' = [r \in Runs |-> IF r \in S THEN "over" ELSE phaseMap[r]]
          /\ boxMap' = boxMap
      BY <2>2, <2>3, <2>4, <2>6 DEF phaseMap, boxMap
    <3>2. Contract!End
      BY <2>1, <3>1 DEF Contract!End, phaseMap, boxMap
    <3> QED
      BY <3>2 DEF ContractStep, Contract!Next
  <2> QED
    BY <2>5, <2>6
<1>3. CASE \/ SweepList
           \/ \E r \in Runs : SweepExamine(r)
           \/ \E u \in Users, n \in PatchTo : UpdateQuota(u, n)
           \/ UNCHANGED vars
  <2>1. UNCHANGED <<state, pc, container, queuedAt, clock>>
    BY <1>3 DEF SweepList, SweepExamine, UpdateQuota, vars
  <2> QED
    BY <2>1, Untouched, Unseen
<1> QED
  BY <1>1, <1>2, <1>3 DEF SweepStep

-----------------------------------------------------------------------------

\* The execution path implements ExecutionContract, for every number of runs, trainers and
\* drains, every limit and its changes, every fault and any number of crashes: a run is
\* executed at most once, the runs of a trainer start in the order of their rows, and a
\* sandbox is opened once, by an execution (docker_runner.py and its callers).
THEOREM ImplementsContractHolds == Spec => ImplementsContract
<1>1. Init => Contract!Init
  <2> SUFFICES ASSUME Init PROVE Contract!Init
    OBVIOUS
  <2>1. Core
    BY CoreInit
  <2>2. PhaseCases /\ BoxCases
    BY <2>1, Mapping
  <2>3. \A r \in Runs : PhaseOf(r) = "absent" /\ BoxOf(r) = "none"
    BY <2>2 DEF PhaseCases, BoxCases, Init, RowInit, ThreadInit
  <2> QED
    BY <2>3 DEF Contract!Init, Init, RowInit
<1>2. Init => OrderInv
  BY DEF Init, RowInit, DrainInit, OrderInv
<1>3. Core /\ Core' /\ BoxInv /\ OrderInv /\ [Next]_vars
         => [Contract!Next]_(Contract!contractVars)
  <2> SUFFICES ASSUME Core, Core', BoxInv, OrderInv, [Next]_vars
               PROVE  ContractStep
    BY DEF ContractStep
  <2>1. Mapped
    BY Mapping, MappingAfter DEF Mapped
  <2> QED
    BY <2>1, DrainRefines, RequestRefines, ThreadRefines, OthersRefine DEF Next
<1> QED
  BY <1>1, <1>2, <1>3, OrderStep, CoreHolds, BoxHolds, PTL
     DEF Spec, ImplementsContract, Contract!Spec

=============================================================================
