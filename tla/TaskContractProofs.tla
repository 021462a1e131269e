-------------------------- MODULE TaskContractProofs --------------------------
(***************************************************************************)
(* Proof that the requests of a trainer, with all their interleavings,     *)
(* crashes, changes of files and quotas, implement TaskContract.           *)
(***************************************************************************)
EXTENDS BundleProofs

\* The contract's variables, as the mapping gives them.
stageMap == [b \in Bundles |-> StageOf(b)]
textMap == [b \in Bundles |-> bundle[b].toml]
orderMap == [r \in Runs |-> OrderOf(r)]

\* One step of the contract, or none.
ContractStep == [Contract!Next]_(Contract!contractVars)

-----------------------------------------------------------------------------
(* The mapping, bundle by bundle and run by run. *)

StageCases ==
    \A b \in Bundles :
        /\ bundle[b].state = "ABSENT" => StageOf(b) = "none"
        /\ bundle[b].state = "UPLOADING" => StageOf(b) = "offered"
        /\ bundle[b].state = "REJECTED" => StageOf(b) = "refused"
        /\ bundle[b].state = "READY" => StageOf(b) = "published"

LEMMA StageMapping == StageCases
BY DEF StageCases, StageOf

LEMMA StageMappingAfter == StageCases'
BY StageMapping, PTL

\* A run as the contract has it.
Ordered(at, row) ==
    [stage |-> at, bundle |-> row.bundle, text |-> row.toml, grant |-> row.spec,
     given |-> row.staged]

OrderCases ==
    \A r \in Runs :
        /\ run[r].state = "ABSENT" => OrderOf(r) = Ordered("none", run[r])
        /\ run[r].state = "QUEUED" => OrderOf(r) = Ordered("made", run[r])
        /\ run[r].state = "OVER" => OrderOf(r) = Ordered("over", run[r])

LEMMA OrderMapping == OrderCases
<1> SUFFICES ASSUME NEW r \in Runs
             PROVE  /\ run[r].state = "ABSENT" => OrderOf(r) = Ordered("none", run[r])
                    /\ run[r].state = "QUEUED" => OrderOf(r) = Ordered("made", run[r])
                    /\ run[r].state = "OVER" => OrderOf(r) = Ordered("over", run[r])
  BY DEF OrderCases
<1>1. ASSUME run[r].state = "ABSENT" PROVE OrderOf(r) = Ordered("none", run[r])
  BY <1>1 DEF OrderOf, Ordered
<1>2. ASSUME run[r].state = "QUEUED" PROVE OrderOf(r) = Ordered("made", run[r])
  BY <1>2 DEF OrderOf, Ordered
<1>3. ASSUME run[r].state = "OVER" PROVE OrderOf(r) = Ordered("over", run[r])
  BY <1>3 DEF OrderOf, Ordered
<1> QED
  BY <1>1, <1>2, <1>3

LEMMA OrderMappingAfter == OrderCases'
BY OrderMapping, PTL

\* What is not written maps to what it mapped to.
LEMMA Untouched ==
    /\ (\A b \in Bundles : bundle'[b].state = bundle[b].state) => stageMap' = stageMap
    /\ (\A b \in Bundles : bundle'[b].toml = bundle[b].toml) => textMap' = textMap
    /\ run' = run => orderMap' = orderMap
<1>1. ASSUME \A b \in Bundles : bundle'[b].state = bundle[b].state
      PROVE  stageMap' = stageMap
  <2>1. \A b \in Bundles : StageOf(b)' = StageOf(b)
    BY <1>1 DEF StageOf
  <2> QED
    BY <2>1 DEF stageMap
<1>2. ASSUME \A b \in Bundles : bundle'[b].toml = bundle[b].toml
      PROVE  textMap' = textMap
  BY <1>2 DEF textMap
<1>3. ASSUME run' = run
      PROVE  orderMap' = orderMap
  BY <1>3 DEF orderMap, OrderOf
<1> QED
  BY <1>1, <1>2, <1>3

-----------------------------------------------------------------------------
(* The kinds of step. *)

\* A step the contract does not see.
LEMMA Unseen ==
    ASSUME \A b \in Bundles : bundle'[b].state = bundle[b].state /\ bundle'[b].toml = bundle[b].toml,
           UNCHANGED <<run, highest>>
    PROVE  ContractStep
BY Untouched DEF ContractStep, Contract!contractVars, stageMap, textMap, orderMap

\* The state of one bundle changes.
LEMMA StageMoves ==
    ASSUME NEW b \in Bundles, \A c \in Bundles : c # b => bundle'[c] = bundle[c]
    PROVE  stageMap' = [stageMap EXCEPT ![b] = StageOf(b)']
<1>1. \A c \in Bundles : c # b => StageOf(c)' = StageOf(c)
  BY DEF StageOf
<1> QED
  BY <1>1 DEF stageMap

LEMMA OfferedOrTurnedDown ==
    ASSUME NEW b \in Bundles, \A c \in Bundles : c # b => bundle'[c] = bundle[c],
           bundle'[b].toml = bundle[b].toml, UNCHANGED <<run, highest>>,
           \/ bundle[b].state = "ABSENT" /\ bundle'[b].state = "UPLOADING"
           \/ bundle[b].state = "UPLOADING" /\ bundle'[b].state = "REJECTED"
    PROVE  ContractStep
<1>1. stageMap' = [stageMap EXCEPT ![b] = StageOf(b)']
  BY StageMoves
<1>2. textMap' = textMap /\ orderMap' = orderMap
  BY Untouched
<1>3. CASE bundle[b].state = "ABSENT" /\ bundle'[b].state = "UPLOADING"
  <2>1. StageOf(b) = "none" /\ StageOf(b)' = "offered"
    BY <1>3, StageMapping, StageMappingAfter DEF StageCases
  <2>2. Contract!Offer(b)
    BY <1>1, <1>2, <2>1 DEF Contract!Offer, Contract!Moves, stageMap, textMap, orderMap
  <2> QED
    BY <2>2 DEF ContractStep, Contract!Next
<1>4. CASE bundle[b].state = "UPLOADING" /\ bundle'[b].state = "REJECTED"
  <2>1. StageOf(b) = "offered" /\ StageOf(b)' = "refused"
    BY <1>4, StageMapping, StageMappingAfter DEF StageCases
  <2>2. Contract!TurnDown(b)
    BY <1>1, <1>2, <2>1 DEF Contract!TurnDown, Contract!Moves, stageMap, textMap, orderMap
  <2> QED
    BY <2>2 DEF ContractStep, Contract!Next
<1> QED
  BY <1>3, <1>4

\* The row of one run changes.
LEMMA OrderMoves ==
    ASSUME NEW r \in Runs, \A q \in Runs : q # r => run'[q] = run[q]
    PROVE  orderMap' = [orderMap EXCEPT ![r] = OrderOf(r)']
<1>1. \A q \in Runs : q # r => OrderOf(q)' = OrderOf(q)
  BY DEF OrderOf
<1> QED
  BY <1>1 DEF orderMap

-----------------------------------------------------------------------------
(* What the contract needs besides the invariant. *)

\* A row that is not there yet is blank: nobody writes in it before it is inserted.
Unwritten ==
    /\ \A b \in Bundles : bundle[b].state = "ABSENT" => bundle[b] = NoBundle
    /\ \A r \in Runs : run[r].state = "ABSENT" => run[r] = NoRun

LEMMA BundleWritten ==
    ASSUME IInv, Unwritten, NEW b \in Bundles, NEW row, Changes(b, row), row.state # "ABSENT",
           run' = run
    PROVE  Unwritten'
<1>1. bundle \in [Bundles -> BundleRows]
  BY DEF IInv, TypeOK
<1> QED
  BY <1>1 DEF Changes, Unwritten

LEMMA RunWritten ==
    ASSUME IInv, Unwritten, NEW r \in Runs, NEW row, run' = [run EXCEPT ![r] = row],
           row.state # "ABSENT", bundle' = bundle
    PROVE  Unwritten'
<1>1. run \in [Runs -> RunRows]
  BY DEF IInv, TypeOK
<1> QED
  BY <1>1 DEF Unwritten

LEMMA OpensLeavesRest ==
    ASSUME IInv, Unwritten, NEW t, NEW s, NEW f, NEW then, Opens(t, s, f, then), run' = run
    PROVE  Unwritten'
<1>1. PICK b \in Bundles : Changes(b, [NoBundle EXCEPT !.state = "UPLOADING"])
  BY DEF Opens
<1>2. [NoBundle EXCEPT !.state = "UPLOADING"].state = "UPLOADING"
  BY DEF NoBundle
<1> QED
  BY <1>1, <1>2, BundleWritten

LEMMA WriterLeavesRest ==
    ASSUME IInv, Unwritten, NEW t \in Requests, Receive(t) \/ Unpack(t) \/ MakeReady(t)
    PROVE  Unwritten'
<1> DEFINE b == job[t].b
<1>1. run' = run
  BY DEF Receive, Unpack, MakeReady, outsideBundle
<1>2. b \in Bundles /\ bundle[b].state = "UPLOADING" /\ bundle[b] \in BundleRows
  BY RowParts DEF IInv, AllSound, Sound, Uploading, Writes, Receive, Unpack, MakeReady, At
<1>3. CASE UNCHANGED bundle
  BY <1>1, <1>3 DEF Unwritten
<1>4. ASSUME NEW row, Changes(b, row), row.state # "ABSENT" PROVE Unwritten'
  BY <1>1, <1>2, <1>4, BundleWritten
<1>5. /\ [bundle[b] EXCEPT !.state = "REJECTED"].state # "ABSENT"
      /\ \A s : [bundle[b] EXCEPT !.files = s].state # "ABSENT"
      /\ \A s : [bundle[b] EXCEPT !.toml = s, !.state = "READY"].state # "ABSENT"
  BY <1>2 DEF BundleRows
<1>6. \/ UNCHANGED bundle
      \/ Changes(b, [bundle[b] EXCEPT !.state = "REJECTED"])
      \/ \E s : Changes(b, [bundle[b] EXCEPT !.files = s])
      \/ \E s : Changes(b, [bundle[b] EXCEPT !.toml = s, !.state = "READY"])
  BY DEF Receive, Unpack, MakeReady, Reject
<1>7. ASSUME NEW s, Changes(b, [bundle[b] EXCEPT !.files = s]) PROVE Unwritten'
  <2>1. PICK row : row = [bundle[b] EXCEPT !.files = s]
    OBVIOUS
  <2>2. Changes(b, row)
    BY <1>7, <2>1
  <2>3. row.state # "ABSENT"
    BY <1>5, <2>1
  <2> QED
    BY <1>4, <2>2, <2>3
<1>8. ASSUME NEW s, Changes(b, [bundle[b] EXCEPT !.toml = s, !.state = "READY"]) PROVE Unwritten'
  <2>1. PICK row : row = [bundle[b] EXCEPT !.toml = s, !.state = "READY"]
    OBVIOUS
  <2>2. Changes(b, row)
    BY <1>8, <2>1
  <2>3. row.state # "ABSENT"
    BY <1>5, <2>1
  <2> QED
    BY <1>4, <2>2, <2>3
<1>9. CASE Changes(b, [bundle[b] EXCEPT !.state = "REJECTED"])
  BY <1>4, <1>5, <1>9
<1> QED
  BY <1>3, <1>6, <1>7, <1>8, <1>9

LEMMA UnwrittenStep == IInv /\ Unwritten /\ [Next]_vars => Unwritten'
<1> SUFFICES ASSUME IInv, Unwritten, [Next]_vars PROVE Unwritten'
  OBVIOUS
<1>0. CASE UNCHANGED <<bundle, run>>
  BY <1>0 DEF Unwritten
<1>1. ASSUME NEW t \in Requests, RequestStep(t) PROVE Unwritten'
  <2>1. CASE Receive(t) \/ Unpack(t) \/ MakeReady(t)
    BY <2>1, WriterLeavesRest
  <2>2. ASSUME NEW s \in Sources, Push(t, s) \/ RunPath(t, s) \/ Upload(t, s) \/ RunArchive(t, s)
        PROVE  Unwritten'
    BY <2>2, OpensLeavesRest DEF Push, RunPath, Upload, RunArchive, Brings, outsideBundle
  <2>3. CASE PackRead(t)
    BY <1>0, <2>3, OpensLeavesRest DEF PackRead, outsideBundle
  <2>4. CASE PackClose(t) \/ (\E s \in Sources : PackOpen(t, s)) \/ \E b \in Bundles : RunBundle(t, b)
    BY <1>0, <2>4 DEF PackClose, PackOpen, RunBundle, outsideBundle
  <2>5. ASSUME NEW old \in Runs, Retry(t, old) PROVE Unwritten'
    <3>1. PICK r \in Runs :
              run' = [run EXCEPT ![r] = [run[old] EXCEPT !.state = "QUEUED", !.staged = None]]
      BY <2>5 DEF Retry
    <3>2. [run[old] EXCEPT !.state = "QUEUED", !.staged = None].state = "QUEUED"
      BY RunParts DEF IInv, RunRows
    <3> QED
      BY <2>5, <3>1, <3>2, RunWritten DEF Retry
  <2>6. CASE InsertRun(t)
    <3>1. CASE UNCHANGED run
      BY <1>0, <2>6, <3>1 DEF InsertRun
    <3>2. ASSUME NEW r \in Runs, NEW b, NEW s, NEW spec,
                 run' = [run EXCEPT ![r] = [state |-> "QUEUED", bundle |-> b, toml |-> s,
                                            spec |-> spec, staged |-> None]]
          PROVE  Unwritten'
      <4>1. PICK row : row = [state |-> "QUEUED", bundle |-> b, toml |-> s, spec |-> spec,
                              staged |-> None]
        OBVIOUS
      <4>2. row.state # "ABSENT" /\ run' = [run EXCEPT ![r] = row]
        BY <3>2, <4>1
      <4>3. bundle' = bundle
        BY <2>6 DEF InsertRun
      <4> QED
        BY <4>2, <4>3, RunWritten
    <3> QED
      BY <2>6, <3>1, <3>2 DEF InsertRun
  <2> QED
    BY <1>1, <2>1, <2>2, <2>3, <2>4, <2>5, <2>6 DEF RequestStep
<1>2. ASSUME NEW r \in Runs, Stage(r) PROVE Unwritten'
  <2>1. run \in [Runs -> RunRows] /\ bundle' = bundle
    BY <1>2 DEF IInv, TypeOK, Stage
  <2>2. /\ [run[r] EXCEPT !.state = "OVER"].state = "OVER"
        /\ [run[r] EXCEPT !.state = "OVER", !.staged = WriteToml(r)].state = "OVER"
    BY <2>1 DEF RunRows
  <2>3. \/ run' = [run EXCEPT ![r] = [run[r] EXCEPT !.state = "OVER"]]
        \/ run' = [run EXCEPT ![r] = [run[r] EXCEPT !.state = "OVER", !.staged = WriteToml(r)]]
    BY <1>2, <2>1 DEF Stage
  <2> QED
    BY <2>1, <2>2, <2>3, RunWritten
<1>3. ASSUME NEW b \in Bundles, Tamper(b) PROVE Unwritten'
  <2>1. bundle[b].state # "ABSENT"
    BY <1>3, ConstantTypes DEF Tamper, Unwritten, NoBundle
  <2>2. PICK f : Changes(b, [bundle[b] EXCEPT !.files = f])
    BY <1>3 DEF Tamper
  <2>3. [bundle[b] EXCEPT !.files = f].state # "ABSENT"
    BY <2>1, RowParts DEF IInv, BundleRows
  <2> QED
    BY <1>3, <2>2, <2>3, BundleWritten DEF Tamper, outsideBundle
<1>4. CASE Crash \/ (\E value \in MaxRuntimes : UpdateQuota(value)) \/ UNCHANGED vars
  BY <1>0, <1>4 DEF Crash, UpdateQuota, vars
<1> QED
  BY <1>1, <1>2, <1>3, <1>4 DEF Next

-----------------------------------------------------------------------------
(* One lemma per action that the contract sees. *)

LEMMA OpensOffers ==
    ASSUME IInv, Unwritten, NEW t \in Requests, NEW s, NEW f, NEW then, Opens(t, s, f, then),
           UNCHANGED outsideBundle
    PROVE  ContractStep
<1>1. PICK b \in Bundles : Absent(b) /\ Changes(b, [NoBundle EXCEPT !.state = "UPLOADING"])
  BY DEF Opens
<1>2. bundle \in [Bundles -> BundleRows] /\ UNCHANGED <<run, highest>>
  BY DEF IInv, TypeOK, outsideBundle
<1>3. bundle[b].state = "ABSENT" /\ bundle[b].toml = None
  BY <1>1 DEF Absent, Unwritten, NoBundle
<1>4. bundle'[b].state = "UPLOADING" /\ bundle'[b].toml = None
  BY <1>1, <1>2 DEF Changes, NoBundle
<1>5. \A c \in Bundles : c # b => bundle'[c] = bundle[c]
  BY <1>1, <1>2 DEF Changes
<1> QED
  BY <1>2, <1>3, <1>4, <1>5, OfferedOrTurnedDown

LEMMA RejectTurnsDown ==
    ASSUME IInv, NEW t \in Requests, Writes(job[t]), Reject(t), UNCHANGED outsideBundle
    PROVE  ContractStep
<1> DEFINE b == job[t].b
<1>1. bundle \in [Bundles -> BundleRows] /\ UNCHANGED <<run, highest>>
  BY DEF IInv, TypeOK, outsideBundle
<1>2. b \in Bundles /\ bundle[b].state = "UPLOADING"
  BY DEF IInv, AllSound, Sound, Uploading, Writes
<1>3. /\ bundle'[b].state = "REJECTED" /\ bundle'[b].toml = bundle[b].toml
      /\ \A c \in Bundles : c # b => bundle'[c] = bundle[c]
  BY <1>1, <1>2, RowParts DEF Reject, Changes, BundleRows
<1> QED
  BY <1>1, <1>2, <1>3, OfferedOrTurnedDown

LEMMA MakeReadyPublishes ==
    ASSUME IInv, NEW t \in Requests, MakeReady(t)
    PROVE  ContractStep
<1>0. PICK b, s : b = job[t].b /\ s = job[t].src
  OBVIOUS
<1>1. bundle \in [Bundles -> BundleRows] /\ highest \in MaxRuntimes /\ UNCHANGED <<run, highest>>
  BY DEF IInv, TypeOK, MakeReady
<1>2. b \in Bundles /\ bundle[b].state = "UPLOADING" /\ Whole(s, highest)
  BY <1>0 DEF IInv, AllSound, Sound, Uploading, Writes, MakeReady, At
<1>3. /\ bundle'[b].state = "READY" /\ bundle'[b].toml = s
      /\ \A c \in Bundles : c # b => bundle'[c] = bundle[c]
  BY <1>0, <1>1, <1>2, RowParts DEF MakeReady, Changes, BundleRows
<1>4. stageMap' = [stageMap EXCEPT ![b] = "published"] /\ stageMap[b] = "offered"
  <2>1. StageOf(b) = "offered" /\ StageOf(b)' = "published"
    BY <1>2, <1>3, StageMapping, StageMappingAfter DEF StageCases
  <2> QED
    BY <1>2, <1>3, <2>1, StageMoves DEF stageMap
<1>5. textMap' = [textMap EXCEPT ![b] = s]
  BY <1>2, <1>3 DEF textMap
<1>6. orderMap' = orderMap
  BY <1>1, Untouched
<1>7. s \in [q \in MaxRuntimes |-> {x \in Sources : Whole(x, q)}][highest]
  BY <1>1, <1>2 DEF Whole
<1>8. Contract!Publish(b)
  BY <1>1, <1>4, <1>5, <1>6, <1>7
     DEF Contract!Publish, Contract!Moves, stageMap, textMap, orderMap
<1> QED
  BY <1>2, <1>8 DEF ContractStep, Contract!Next

LEMMA InsertRunOrders ==
    ASSUME IInv, Unwritten, NEW t \in Requests, InsertRun(t)
    PROVE  ContractStep
<1>0. PICK b, s : b = job[t].b /\ s = bundle[b].toml
  OBVIOUS
<1>1. /\ run \in [Runs -> RunRows] /\ highest \in MaxRuntimes
      /\ UNCHANGED <<bundle, highest>>
  BY DEF IInv, TypeOK, InsertRun
<1>2. b \in Bundles /\ bundle[b].state = "READY"
  BY <1>0 DEF IInv, AllSound, Sound, InsertRun, At
<1>3. CASE UNCHANGED run
  BY <1>1, <1>3, Unseen
<1>4. ASSUME NEW r \in Runs, Unused(r),
             run' = [run EXCEPT ![r] =
                        [state |-> "QUEUED", bundle |-> b, toml |-> s,
                         spec |-> Normalized(Task[s].toml), staged |-> None]]
      PROVE  ContractStep
  <2>1. s \in Sources /\ Whole(s, highest)
    BY <1>0, <1>2 DEF IInv, ReadyIsWhole, Whole
  <2>2. stageMap[b] = "published" /\ stageMap' = stageMap /\ textMap' = textMap
    <3>1. StageOf(b) = "published"
      BY <1>2, StageMapping DEF StageCases
    <3> QED
      BY <1>1, <1>2, <3>1, Untouched DEF stageMap
  <2>3. run[r] = NoRun
    BY <1>4 DEF Unwritten, Unused
  <2>4. /\ run'[r].state = "QUEUED" /\ run'[r].bundle = b /\ run'[r].toml = s
        /\ run'[r].spec = Normalized(Task[s].toml) /\ run'[r].staged = None
        /\ \A q \in Runs : q # r => run'[q] = run[q]
    BY <1>1, <1>4
  <2>5. OrderOf(r).stage = "none"
    BY <2>3, OrderMapping DEF OrderCases, Ordered, NoRun
  <2>6. OrderOf(r)' = [stage |-> "made", bundle |-> b, text |-> s,
                       grant |-> Normalized(Task[s].toml), given |-> None]
    BY <2>4, OrderMappingAfter DEF OrderCases, Ordered
  <2>7. orderMap' = [orderMap EXCEPT ![r] = OrderOf(r)'] /\ orderMap[r] = OrderOf(r)
    BY <2>4, OrderMoves DEF orderMap
  <2>8. Contract!Order(r, b)
    <3>1. [x \in Sources |-> Normalized(Task[x].toml)][textMap[b]] = Normalized(Task[s].toml)
      BY <1>0, <1>2, <2>1 DEF textMap
    <3>2. textMap[b] \in [q \in MaxRuntimes |-> {x \in Sources : Whole(x, q)}][highest]
      BY <1>0, <1>1, <1>2, <2>1 DEF textMap
    <3>3. textMap[b] = s
      BY <1>0, <1>2 DEF textMap
    <3>4. orderMap[r].stage = "none" /\ orderMap'[r].stage = "made"
      BY <2>5, <2>6, <2>7 DEF orderMap
    <3>5. Contract!Advances(r, "none", "made",
              [stage |-> "made", bundle |-> b, text |-> textMap[b],
               grant |-> [x \in Sources |-> Normalized(Task[x].toml)][textMap[b]],
               given |-> None])
      BY <1>1, <2>2, <2>6, <2>7, <3>1, <3>3, <3>4
         DEF Contract!Advances, stageMap, textMap, orderMap
    <3> QED
      BY <2>2, <3>2, <3>5 DEF Contract!Order, stageMap, textMap
  <2> QED
    BY <1>2, <2>8 DEF ContractStep, Contract!Next
<1> QED
  BY <1>0, <1>3, <1>4 DEF InsertRun

LEMMA RetryRepeats ==
    ASSUME IInv, NEW t \in Requests, NEW old \in Runs, Retry(t, old)
    PROVE  ContractStep
<1>1. /\ run \in [Runs -> RunRows] /\ run[old].state = "OVER"
      /\ UNCHANGED <<bundle, highest>>
  BY DEF IInv, TypeOK, Retry
<1>2. PICK r \in Runs :
          /\ Unused(r)
          /\ run' = [run EXCEPT ![r] = [run[old] EXCEPT !.state = "QUEUED", !.staged = None]]
  BY DEF Retry
<1>3. /\ run'[r].state = "QUEUED" /\ run'[r].bundle = run[old].bundle
      /\ run'[r].toml = run[old].toml /\ run'[r].spec = run[old].spec
      /\ run'[r].staged = None /\ \A q \in Runs : q # r => run'[q] = run[q]
  BY <1>1, <1>2 DEF RunRows
<1>4. OrderOf(old) = Ordered("over", run[old]) /\ OrderOf(r).stage = "none"
  BY <1>1, <1>2, OrderMapping DEF OrderCases, Unused, Ordered
<1>5. OrderOf(r)' = [OrderOf(old) EXCEPT !.stage = "made", !.given = None]
  <2>1. OrderOf(r)' = [stage |-> "made", bundle |-> run[old].bundle, text |-> run[old].toml,
                       grant |-> run[old].spec, given |-> None]
    BY <1>3, OrderMappingAfter DEF OrderCases, Ordered
  <2>2. [Ordered("over", run[old]) EXCEPT !.stage = "made"] = Ordered("made", run[old])
    BY DEF Ordered
  <2>3. OrderOf(r)' = [Ordered("made", run[old]) EXCEPT !.given = None]
    BY <2>1 DEF Ordered
  <2> QED
    BY <1>4, <2>2, <2>3, Zenon
<1>6. orderMap' = [orderMap EXCEPT ![r] = OrderOf(r)'] /\ OrderOf(r)'.stage = "made"
  BY <1>3, OrderMoves, OrderMappingAfter DEF OrderCases, Ordered
<1>7. Contract!Advances(r, "none", "made", [orderMap[old] EXCEPT !.stage = "made", !.given = None])
  BY <1>1, <1>4, <1>5, <1>6, Untouched DEF Contract!Advances, stageMap, textMap, orderMap
<1>8. Contract!Repeat(r, old)
  BY <1>4, <1>7 DEF Contract!Repeat, orderMap, Ordered
<1> QED
  BY <1>8 DEF ContractStep, Contract!Next

LEMMA StageServes ==
    ASSUME IInv, NEW r \in Runs, Stage(r)
    PROVE  ContractStep
<1>1. /\ run \in [Runs -> RunRows] /\ run[r].state = "QUEUED" /\ UNCHANGED <<bundle, highest>>
  BY DEF IInv, TypeOK, Stage
<1>2. PICK given \in {None, run[r].toml} :
          /\ run'[r].state = "OVER" /\ run'[r].bundle = run[r].bundle
          /\ run'[r].toml = run[r].toml /\ run'[r].spec = run[r].spec
          /\ run'[r].staged = given /\ \A q \in Runs : q # r => run'[q] = run[q]
  <2>1. run[r].staged \in {None, run[r].toml}
    BY <1>1 DEF IInv, Made, Exists, MadeOf
  <2>2. CASE run' = [run EXCEPT ![r].state = "OVER"]
    BY <1>1, <2>1, <2>2 DEF RunRows
  <2>3. CASE run' = [run EXCEPT ![r] = [run[r] EXCEPT !.state = "OVER", !.staged = WriteToml(r)]]
    BY <1>1, <2>3 DEF RunRows, WriteToml
  <2> QED
    BY <2>2, <2>3 DEF Stage
<1>3. OrderOf(r) = Ordered("made", run[r])
  BY <1>1, OrderMapping DEF OrderCases
<1>4. OrderOf(r)' = [OrderOf(r) EXCEPT !.stage = "over", !.given = given]
  <2>1. OrderOf(r)' = [stage |-> "over", bundle |-> run[r].bundle, text |-> run[r].toml,
                       grant |-> run[r].spec, given |-> given]
    BY <1>2, OrderMappingAfter DEF OrderCases, Ordered
  <2>2. [Ordered("made", run[r]) EXCEPT !.stage = "over"] = Ordered("over", run[r])
    BY DEF Ordered
  <2>3. OrderOf(r)' = [Ordered("over", run[r]) EXCEPT !.given = given]
    BY <2>1 DEF Ordered
  <2> QED
    BY <1>3, <2>2, <2>3, Zenon
<1>5. orderMap' = [orderMap EXCEPT ![r] = OrderOf(r)'] /\ OrderOf(r)'.stage = "over"
  BY <1>2, OrderMoves, OrderMappingAfter DEF OrderCases, Ordered
<1>6. given \in {None, orderMap[r].text} /\ orderMap[r].stage = "made"
  BY <1>2, <1>3 DEF orderMap, Ordered
<1>7. Contract!Advances(r, "made", "over", [orderMap[r] EXCEPT !.stage = "over", !.given = given])
  BY <1>1, <1>4, <1>5, <1>6, Untouched DEF Contract!Advances, stageMap, textMap, orderMap
<1>8. Contract!Serve(r)
  BY <1>6, <1>7 DEF Contract!Serve, orderMap
<1> QED
  BY <1>8 DEF ContractStep, Contract!Next

LEMMA UpdateQuotaRaises ==
    ASSUME IInv, NEW value \in MaxRuntimes, UpdateQuota(value)
    PROVE  ContractStep
<1>1. UNCHANGED <<bundle, run>>
  BY DEF UpdateQuota
<1>2. CASE value > highest
  <2>1. Contract!Raise
    BY <1>1, <1>2, Untouched DEF UpdateQuota, Contract!Raise, stageMap, textMap, orderMap
  <2> QED
    BY <2>1 DEF ContractStep, Contract!Next
<1>3. CASE ~(value > highest)
  BY <1>1, <1>3, Unseen DEF UpdateQuota
<1> QED
  BY <1>2, <1>3

LEMMA StepRefines ==
    ASSUME IInv, Unwritten, [Next]_vars
    PROVE  ContractStep
<1>0. CASE UNCHANGED <<bundle, run, highest>>
  BY <1>0, Unseen
<1>1. ASSUME NEW t \in Requests, RequestStep(t) PROVE ContractStep
  <2>1. CASE Receive(t)
    BY <1>0, <2>1, RejectTurnsDown DEF Receive, Writes, At, outsideBundle
  <2>2. CASE Unpack(t)
    <3>1. CASE Reject(t)
      BY <2>2, <3>1, RejectTurnsDown DEF Unpack, Writes, At
    <3>2. CASE ~Reject(t)
      <4>1. bundle \in [Bundles -> BundleRows]
        BY DEF IInv, TypeOK
      <4>2. \A b \in Bundles : bundle'[b].state = bundle[b].state /\ bundle'[b].toml = bundle[b].toml
        BY <2>2, <3>2, <4>1 DEF Unpack, Changes, BundleRows
      <4> QED
        BY <2>2, <4>2, Unseen DEF Unpack, outsideBundle
    <3> QED
      BY <3>1, <3>2
  <2>3. CASE MakeReady(t)
    BY <2>3, MakeReadyPublishes
  <2>4. ASSUME NEW s \in Sources, Push(t, s) \/ RunPath(t, s) \/ Upload(t, s) \/ RunArchive(t, s)
        PROVE  ContractStep
    BY <2>4, OpensOffers DEF Push, RunPath, Upload, RunArchive, Brings
  <2>5. CASE PackRead(t)
    BY <1>0, <2>5, OpensOffers DEF PackRead, outsideBundle
  <2>6. CASE PackClose(t) \/ (\E s \in Sources : PackOpen(t, s)) \/ \E b \in Bundles : RunBundle(t, b)
    BY <1>0, <2>6 DEF PackClose, PackOpen, RunBundle, outsideBundle
  <2>7. CASE InsertRun(t)
    BY <2>7, InsertRunOrders
  <2>8. CASE \E old \in Runs : Retry(t, old)
    BY <2>8, RetryRepeats
  <2> QED
    BY <1>1, <2>1, <2>2, <2>3, <2>4, <2>5, <2>6, <2>7, <2>8 DEF RequestStep
<1>2. CASE \E r \in Runs : Stage(r)
  BY <1>2, StageServes
<1>3. ASSUME NEW b \in Bundles, Tamper(b) PROVE ContractStep
  <2>1. bundle \in [Bundles -> BundleRows]
    BY DEF IInv, TypeOK
  <2>2. \A c \in Bundles : bundle'[c].state = bundle[c].state /\ bundle'[c].toml = bundle[c].toml
    BY <1>3, <2>1 DEF Tamper, Changes, BundleRows
  <2> QED
    BY <1>3, <2>2, Unseen DEF Tamper, outsideBundle
<1>4. CASE \E value \in MaxRuntimes : UpdateQuota(value)
  BY <1>4, UpdateQuotaRaises
<1>5. CASE Crash \/ UNCHANGED vars
  BY <1>0, <1>5 DEF Crash, vars
<1> QED
  BY <1>1, <1>2, <1>3, <1>4, <1>5 DEF Next

-----------------------------------------------------------------------------

\* For any tasks, quotas and number of requests, bundles and runs, task_bundles.py and the
\* requests that go through it implement TaskContract: a bundle is published once, with a
\* text that passes, and stays as it is; a run is made once, of a published bundle or like
\* one that is over, and is given the text it was made of, or nothing.
THEOREM ImplementsTaskContractHolds == Spec => ImplementsTaskContract
<1>1. Init => Contract!Init /\ Unwritten
  <2> SUFFICES ASSUME Init PROVE Contract!Init /\ Unwritten
    OBVIOUS
  <2>1. \A b \in Bundles : StageOf(b) = "none" /\ bundle[b].toml = None
    BY StageMapping DEF Init, NoBundle, StageCases
  <2>2. \A r \in Runs : OrderOf(r) = Contract!Unmade
    BY OrderMapping DEF Init, NoRun, OrderCases, Ordered, Contract!Unmade
  <2>3. highest \in MaxRuntimes
    BY DEF Init
  <2> QED
    BY <2>1, <2>2, <2>3 DEF Contract!Init, Init, Unwritten
<1>2. IInv /\ Unwritten /\ [Next]_vars => [Contract!Next]_(Contract!contractVars)
  BY StepRefines DEF ContractStep
<1> QED
  BY <1>1, <1>2, UnwrittenStep, Always, PTL DEF Spec, ImplementsTaskContract, Contract!Spec

=============================================================================
