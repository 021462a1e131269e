----------------------------- MODULE ParentProofs -----------------------------
(***************************************************************************)
(* For every number of parents, threads, runs, requests and mishaps: the   *)
(* parents' state is typed, and no row is left in passage.                 *)
(***************************************************************************)
EXTENDS ParentWorkspaces, TLAPS

RowType == [state : States, cid : {"null", "ours", "stale"}, timer : {"unset", "set", "due"}]
RunType ==
    [state : {"ABSENT", "QUEUED", "ACTIVE", "OVER"}, home : Parents \union {NoParent},
     child : {"none", "running", "paused"}]
Tables == row \in [Parents -> RowType] /\ run \in [Runs -> RunType]
Bounds ==
    /\ box \in [Parents -> {"none", "created", "running", "paused", "exited"}]
    /\ lock \in Actors \union {Nobody}
    /\ left \in SUBSET Parents
    /\ asks \in 0..MaxAsks /\ mishaps \in 0..MaxMishaps /\ crashed \in BOOLEAN
    /\ since \in [Actors -> SUBSET Runs]
Jobs == job \in [Actors -> JobType]

LEMMA TypeParts == TypeOK <=> Tables /\ Bounds /\ Jobs
BY DEF TypeOK, Tables, Bounds, Jobs, RowType, RunType

USE ActorNames DEF Actors, Parents, NoParent

-----------------------------------------------------------------------------
(* What the helpers make of typed state. *)

LEMMA GotoType ==
    ASSUME NEW j \in JobType, NEW place \in Places
    PROVE  Goto(j, place) \in JobType
<1>1. NoJob \in JobType
  BY DEF NoJob, NotLoaded, JobType, Places, States
<1>2. ASSUME NEW k \in JobType PROVE [k EXCEPT !.at = place] \in JobType
  BY DEF JobType
<1>3. [NoJob EXCEPT !.at = place] \in JobType
  BY <1>1, <1>2
<1> QED
  BY <1>2, <1>3 DEF Goto

LEMMA FoundType ==
    ASSUME NEW j \in JobType, NEW place \in Places, NEW c \in {"none", "own", "gone"} \union Runs
    PROVE  [j EXCEPT !.at = place, !.found = c] \in JobType
BY DEF JobType

LEMMA SawType ==
    ASSUME NEW j \in JobType, NEW place \in Places,
           NEW v \in [state : States \union {"EXPIRED"}, cid : {"null", "ours", "lost", "stale"}],
           j.p = NoParent => v.cid = "null"
    PROVE  [j EXCEPT !.at = place, !.saw = v] \in JobType
BY DEF JobType

LEMMA AgedType ==
    ASSUME NEW j \in JobType, NEW p
    PROVE  Aged(j, p) \in JobType
<1>1. ASSUME NEW w \in [state : States \union {"EXPIRED"}, cid : {"null", "ours", "lost", "stale"}],
             j.p = NoParent => w.cid = "null", NEW d \in {"none", "own", "gone"} \union Runs
      PROVE  [j EXCEPT !.saw = w, !.found = d] \in JobType
  BY <1>1 DEF JobType
<1> DEFINE v == [state |-> j.saw.state, cid |-> IF j.saw.cid = "ours" THEN "lost" ELSE j.saw.cid]
           c == IF j.found = "own" THEN "gone" ELSE j.found
<1>2. /\ v \in [state : States \union {"EXPIRED"}, cid : {"null", "ours", "lost", "stale"}]
      /\ j.p = NoParent => v.cid = "null"
      /\ c \in {"none", "own", "gone"} \union Runs
  BY DEF JobType
<1>3. Aged(j, p) = IF j.p = p THEN [j EXCEPT !.saw = v, !.found = c] ELSE j
  BY DEF Aged
<1>4. [j EXCEPT !.saw = v, !.found = c] \in JobType
  BY <1>1, <1>2
<1> HIDE DEF v, c
<1> QED
  BY <1>3, <1>4

LEMMA BecomesType ==
    ASSUME Jobs, NEW x \in Actors, NEW j \in JobType, Becomes(x, j)
    PROVE  Jobs'
BY DEF Jobs, Becomes

LEMMA GoType ==
    ASSUME Jobs, NEW x \in Actors, NEW place \in Places, Go(x, place)
    PROVE  Jobs'
BY GotoType, BecomesType DEF Jobs, Go

LEMMA PutType ==
    ASSUME Tables, NEW x \in Actors, NEW s, NEW c,
           job[x].p \in Parents => s \in States,
           c \in {"null", "ours", "stale", job[x].saw.cid},
           Put(x, s, c)
    PROVE  row' \in [Parents -> RowType]
BY DEF Tables, Put, RowType

LEMMA LoadType ==
    ASSUME Tables, NEW p
    PROVE  Load(p) \in [state : States, cid : {"null", "ours", "stale"}]
BY DEF Tables, RowType, Load, View, NotLoaded, States

LEMMA StartType ==
    ASSUME Tables, NEW p \in Parents \union {NoParent}, NEW place \in Places,
           NEW todo \in {"resume", "pause", "refresh", "destroy"},
           NEW next \in {"idle", "insert", "attach", "accept", "sweep"}
    PROVE  Start(p, place, todo, next) \in JobType
<1>1. p = NoParent => Load(p).cid = "null"
  BY BoundsType DEF Load, NotLoaded
<1> QED
  BY <1>1, LoadType DEF Start, JobType

LEMMA SyncType ==
    ASSUME Tables, Bounds, Jobs, NEW x \in Actors, Sync(x)
    PROVE  row' \in [Parents -> RowType] /\ mishaps' \in 0..MaxMishaps /\ Synced(x) \in JobType
<1>1. \A b : StatusState(b) \in States
  BY DEF StatusState, States
<1>2. mishaps' \in 0..MaxMishaps
  BY BoundsType DEF Sync, Mishap, Bounds
<1>3. row' \in [Parents -> RowType]
  BY <1>1, PutType DEF Sync, Tables, States
<1>4. ~Unsynced(x) => job[x].p \in Parents
  BY DEF Unsynced, Jobs, JobType
<1>5. Synced(x) \in JobType
  BY <1>3, <1>4 DEF Synced, Jobs, RowType, JobType, View
<1> QED
  BY <1>2, <1>3, <1>5

LEMMA ForgetType ==
    ASSUME Tables, Bounds, NEW p \in Parents \union {NoParent},
           NEW jobs \in [Actors -> JobType], Forget(p, jobs)
    PROVE  /\ row' \in [Parents -> RowType]
           /\ box' \in [Parents -> {"none", "created", "running", "paused", "exited"}]
           /\ Jobs'
<1>1. row' \in [Parents -> RowType]
  BY DEF Forget, Tables, RowType
<1>2. Jobs'
  BY AgedType DEF Forget, Jobs
<1> QED
  BY <1>1, <1>2 DEF Forget, Bounds

LEMMA LooksType ==
    ASSUME Bounds, NEW x \in Actors, Looks(x)
    PROVE  since' \in [Actors -> SUBSET Runs]
BY DEF Looks, Bounds

LEMMA ActionType ==
    ASSUME Tables, Bounds, Jobs, NEW x \in Actors, ActionStep(x)
    PROVE  Tables' /\ Bounds' /\ Jobs'
<1>0. job[x] \in JobType /\ job[x].next \in Places
  BY DEF Jobs, JobType, Places
<1>1. CASE EnsureSync(x)
  BY <1>0, <1>1, SyncType, GotoType, BecomesType
  DEF EnsureSync, Tables, Bounds, Places
<1>2. CASE Count(x)
  BY <1>2, GoType, LooksType DEF Count, Tables, Bounds, Quit, Places
<1>3. CASE Find(x)
  <2>1. PICK c \in Candidates(job[x]) :
           Becomes(x, [job[x] EXCEPT
              !.at = IF job[x].todo = "refresh" THEN "mark" ELSE "act",
              !.found = IF job[x].todo = "pause" /\ Status(job[x].p, c) # "running"
                        THEN "none" ELSE c])
    BY <1>3 DEF Find
  <2> DEFINE place == IF job[x].todo = "refresh" THEN "mark" ELSE "act"
             f == IF job[x].todo = "pause" /\ Status(job[x].p, c) # "running" THEN "none" ELSE c
  <2>2. place \in Places /\ f \in {"none", "own", "gone"} \union Runs
    BY DEF Candidates, Places
  <2>3. [job[x] EXCEPT !.at = place, !.found = f] \in JobType
    BY <1>0, <2>2, FoundType
  <2>4. Jobs'
    BY <2>1, <2>3, BecomesType
  <2> QED
    BY <1>3, <2>4 DEF Find, Tables, Bounds, outsideAction
<1>4. CASE Mark(x)
  <2> DEFINE v == [state |-> "EXPIRED", cid |-> job[x].saw.cid]
  <2>1. [job[x] EXCEPT !.at = "act", !.saw = v] \in JobType
    <3>1. v \in [state : States \union {"EXPIRED"}, cid : {"null", "ours", "lost", "stale"}]
          /\ (job[x].p = NoParent => v.cid = "null")
      BY <1>0 DEF JobType
    <3> QED
      BY <1>0, <3>1, SawType DEF Places
  <2>2. Jobs'
    BY <1>4, <2>1, BecomesType DEF Mark
  <2> QED
    BY <1>4, <2>2, PutType DEF Mark, Tables, Bounds, outsideAction, States
<1>5. CASE Reload(x)
  <2>1. job[x].p = NoParent => Load(job[x].p).cid = "null"
    BY BoundsType DEF Load, NotLoaded
  <2>2. Jobs'
    BY <1>0, <1>5, <2>1, LoadType, SawType, BecomesType DEF Reload, Places
  <2> QED
    BY <1>5, <2>2 DEF Reload, Tables, Bounds, outsideAction
<1>6. CASE ActOnNothing(x)
  BY <1>6, GoType DEF ActOnNothing, Tables, Bounds, outsideAction, Places
<1>7. CASE ActOnStatus(x)
  BY <1>7, GoType DEF ActOnStatus, Tables, Bounds, outsideAction, Places, SetStatus, Status, RunType
<1>8. CASE ActRemove(x)
  <2> DEFINE went == Goto(job[x], IF job[x].todo = "refresh" THEN "reload" ELSE "write")
  <2>1. went \in JobType
    BY <1>0, GotoType DEF Places
  <2>2. CASE job[x].found = "own"
    <3>1. [job EXCEPT ![x] = went] \in [Actors -> JobType]
      BY <2>1 DEF Jobs
    <3>2. Forget(job[x].p, [job EXCEPT ![x] = went]) /\ UNCHANGED run
      BY <1>8, <2>2 DEF ActRemove
    <3> QED
      BY <1>0, <1>8, <3>1, <3>2, ForgetType DEF ActRemove, Tables, Bounds, outsideAction, JobType
  <2>3. CASE job[x].found # "own"
    <3>1. Jobs'
      BY <1>8, <2>1, <2>3, BecomesType DEF ActRemove
    <3> QED
      BY <1>8, <2>3, <3>1 DEF ActRemove, Tables, Bounds, outsideAction, RunType
  <2> QED
    BY <2>2, <2>3
<1>9. CASE ActFails(x)
  BY <1>9, GoType, BoundsType DEF ActFails, Tables, Bounds, outsideAction, Places, Mishap
<1>10. CASE WriteOutcome(x)
  BY <1>0, <1>10, PutType, GoType DEF WriteOutcome, Outcome, Tables, Bounds, outsideAction, States
<1>11. CASE WriteFailed(x)
  BY <1>11, PutType, GoType DEF WriteFailed, Quit, Tables, Bounds, outsideAction, States, Places
<1>12. CASE Provision(x)
  <2>1. CASE job[x].p # NoParent
    BY <1>12, <2>1, PutType, GoType DEF Provision, Tables, Bounds, outsideProvision, States, Places
  <2>2. CASE job[x].p = NoParent
    <3>1. PICK p \in Parents :
             /\ row' = [row EXCEPT ![p] = NewRow]
             /\ Becomes(x, [job[x] EXCEPT !.at = "create", !.p = p])
      BY <1>12, <2>2 DEF Provision
    <3>2. [job[x] EXCEPT !.at = "create", !.p = p] \in JobType
      <4>1. p # NoParent /\ "create" \in Places
        BY BoundsType DEF Places
      <4> QED
        BY <1>0, <4>1 DEF JobType
    <3>3. Jobs'
      BY <3>1, <3>2, BecomesType
    <3> QED
      BY <1>12, <3>1, <3>3 DEF Provision, Tables, Bounds, outsideProvision, RowType, States, NewRow
  <2> QED
    BY <2>1, <2>2
<1>13. CASE Create(x)
  <2>1. ASSUME NEW place \in Places, NEW c \in {"none", "own", "gone"} \union Runs
        PROVE  [job[x] EXCEPT !.at = place, !.saw = Load(job[x].p), !.found = c] \in JobType
    <3>1. job[x].p = NoParent => Load(job[x].p).cid = "null"
      BY BoundsType DEF Load, NotLoaded
    <3> QED
      BY <1>0, <2>1, <3>1, LoadType DEF JobType
  <2>2. Jobs'
    BY <1>13, <2>1, BecomesType DEF Create, Places
  <2>3. /\ box' \in [Parents -> {"none", "created", "running", "paused", "exited"}]
        /\ mishaps' \in 0..MaxMishaps
    BY <1>13, BoundsType DEF Create, Bounds, Mishap
  <2> QED
    BY <1>13, <2>2, <2>3 DEF Create, Tables, Bounds, outsideProvision
<1>14. CASE Record(x)
  <2>1. Jobs'
    BY <1>0, <1>14, GoType DEF Record
  <2>2. row' \in [Parents -> RowType]
    <3> DEFINE p == job[x].p
               saw == job[x].saw
               new == [state |-> IF saw.state = "RUNNING" THEN row[p].state ELSE "RUNNING",
                       cid |-> CASE saw.cid \in {"ours", "lost"} -> row[p].cid
                                 [] saw.cid \in {"null", "stale"} ->
                                        IF job[x].found = "own" THEN "ours" ELSE "stale",
                       timer |-> "set"]
    <3>1. row' = [row EXCEPT ![p] = new]
      BY <1>14 DEF Record
    <3>2. saw.cid \in {"null", "ours", "lost", "stale"}
      BY <1>0 DEF JobType
    <3>3. p \in Parents => new \in RowType
      BY <3>2 DEF Tables, RowType, States
    <3> HIDE DEF new
    <3> QED
      BY <3>1, <3>3 DEF Tables
  <2> QED
    BY <1>14, <2>1, <2>2 DEF Record, Release, Tables, Bounds, outsideProvision
<1>15. CASE RecordError(x)
  BY <1>0, <1>15, PutType, GoType DEF RecordError, Release, Tables, Bounds, outsideProvision, States
<1> QED
  BY <1>1, <1>2, <1>3, <1>4, <1>5, <1>6, <1>7, <1>8, <1>9, <1>10, <1>11, <1>12, <1>13, <1>14,
     <1>15 DEF ActionStep

LEMMA AskType ==
    ASSUME Tables, Bounds, Jobs, NEW t \in Threads, NEW j \in JobType, Ask(t, j)
    PROVE  Tables' /\ Bounds' /\ Jobs'
BY BecomesType, BoundsType DEF Ask, Tables, Bounds

LEMMA EnsureType ==
    ASSUME Tables, Bounds, Jobs, NEW t \in Threads, NEW next \in {"idle", "insert", "attach"},
           Ensure(t, next)
    PROVE  Tables' /\ Bounds' /\ Jobs'
BY AskType, StartType DEF Ensure, Places

LEMMA RequestType ==
    ASSUME Tables, Bounds, Jobs, NEW t \in Threads, RequestStep(t)
    PROVE  Tables' /\ Bounds' /\ Jobs'
<1>1. CASE AskEnsure(t)
  BY <1>1, EnsureType DEF AskEnsure
<1>2. CASE AskProvision(t)
  BY <1>2, AskType, StartType DEF AskProvision, Places
<1>3. CASE Insert(t)
  <2>1. Jobs'
    BY <1>3, GoType DEF Insert, Places
  <2>2. run' \in [Runs -> RunType]
    <3>1. job[t].p \in Parents \union {NoParent}
      BY DEF Jobs, JobType
    <3> QED
      BY <1>3, <3>1 DEF Insert, NewRun, Tables, RunType
  <2> QED
    BY <1>3, <2>1, <2>2 DEF Insert, Tables, Bounds
<1>4. ASSUME NEW r \in Runs, AskRetry(t, r) PROVE Tables' /\ Bounds' /\ Jobs'
  <2>1. run[r].home \in Parents \union {NoParent}
    BY DEF Tables, RunType
  <2> QED
    BY <1>4, <2>1, EnsureType, AskType, StartType DEF AskRetry, Places
<1>5. ASSUME NEW p \in Parents, NEW action \in {"resume", "pause", "refresh", "destroy"},
             AskAction(t, p, action)
      PROVE  Tables' /\ Bounds' /\ Jobs'
  BY <1>5, AskType, StartType DEF AskAction, Places
<1> QED
  BY <1>1, <1>2, <1>3, <1>4, <1>5 DEF RequestStep

LEMMA RunStepType ==
    ASSUME Tables, Bounds, Jobs, NEW r \in Runs, RunStep(r)
    PROVE  Tables' /\ Bounds' /\ Jobs'
<1>1. CASE Dispatch(r)
  BY <1>1, GoType DEF Dispatch, outsideRun, Tables, Bounds, RunType, Places
<1>2. CASE LoadParent(r)
  <2>1. run[r].home \in Parents \union {NoParent} /\ job[r] \in JobType
    BY DEF Tables, RunType, Jobs
  <2>2. /\ Start(run[r].home, "count", "resume", "accept") \in JobType
        /\ Goto(job[r], "launch") \in JobType
        /\ Goto(job[r], "refused") \in JobType
    BY <2>1, StartType, GotoType DEF Places
  <2> QED
    BY <1>2, <2>2, BecomesType DEF LoadParent, outsideRun, Tables, Bounds
<1>3. CASE Accept(r)
  BY <1>3, GoType DEF Accept, outsideRun, Tables, Bounds, Places
<1>4. CASE Launch(r)
  BY <1>4, GoType DEF Launch, outsideRun, Tables, Bounds, RunType, Places
<1>5. CASE Verdict(r)
  BY <1>5, GoType DEF Verdict, outsideRun, Tables, Bounds, RunType, Places
<1>6. CASE RemoveChild(r)
  BY <1>6 DEF RemoveChild, outsideRun, Tables, Bounds, RunType, Jobs
<1> QED
  BY <1>1, <1>2, <1>3, <1>4, <1>5, <1>6 DEF RunStep

LEMMA ReconcileType ==
    ASSUME Tables, Bounds, Jobs, ReconcileStep
    PROVE  Tables' /\ Bounds' /\ Jobs'
<1>1. CASE ListParents
  BY <1>1, GoType DEF ListParents, outsidePass, Tables, Bounds, Places
<1>2. CASE NextParent
  BY <1>2, StartType, BecomesType DEF NextParent, outsidePass, Tables, Bounds, Places
<1>3. CASE PassEnds
  BY <1>3, GoType DEF PassEnds, outsidePass, Tables, Bounds, Places
<1>4. CASE Examine
  <2> DEFINE j == Synced(Reconciler)
  <2>1. row' \in [Parents -> RowType] /\ mishaps' \in 0..MaxMishaps /\ j \in JobType
    BY <1>4, SyncType DEF Examine
  <2>2. ASSUME NEW place \in Places, NEW todo \in {"resume", "pause", "refresh", "destroy"}
        PROVE  [j EXCEPT !.at = place, !.todo = todo] \in JobType
    BY <2>1 DEF JobType
  <2>3. \/ Becomes(Reconciler, [j EXCEPT !.at = "count", !.todo = "pause"])
        \/ Becomes(Reconciler, [j EXCEPT !.at = "count", !.todo = "refresh"])
        \/ Becomes(Reconciler, [j EXCEPT !.at = "lock", !.todo = "resume"])
        \/ Go(Reconciler, "sweep")
    BY <1>4 DEF Examine
  <2> HIDE DEF j
  <2>4. Jobs'
    BY <2>2, <2>3, BecomesType, GoType DEF Places
  <2> QED
    BY <1>4, <2>1, <2>4, LooksType DEF Examine, outsidePass, Tables, Bounds
<1> QED
  BY <1>1, <1>2, <1>3, <1>4 DEF ReconcileStep

LEMMA TypeInit == Init => TypeOK
<1> SUFFICES ASSUME Init PROVE Tables /\ Bounds /\ Jobs
  BY TypeParts
<1>1. Tables
  BY DEF Init, Tables, RowType, RunType, States
<1>2. Bounds
  <2>1. box \in [Parents -> {"none", "created", "running", "paused", "exited"}]
    BY DEF Init
  <2>2. asks \in 0..MaxAsks /\ mishaps \in 0..MaxMishaps
    BY BoundsType DEF Init
  <2> QED
    BY <2>1, <2>2 DEF Init, Bounds
<1>3. Jobs
  BY DEF Init, Jobs, NoJob, NotLoaded, JobType, Places, States
<1> QED
  BY <1>1, <1>2, <1>3

LEMMA TypeNext == TypeOK /\ [Next]_vars => TypeOK'
<1>0. (TypeOK <=> Tables /\ Bounds /\ Jobs)'
  BY DEF TypeOK, Tables, Bounds, Jobs, RowType, RunType
<1> SUFFICES ASSUME Tables, Bounds, Jobs, [Next]_vars PROVE Tables' /\ Bounds' /\ Jobs'
  BY <1>0, TypeParts
<1>1. ASSUME NEW t \in Threads, RequestStep(t) PROVE Tables' /\ Bounds' /\ Jobs'
  BY <1>1, RequestType
<1>2. ASSUME NEW r \in Runs, RunStep(r) PROVE Tables' /\ Bounds' /\ Jobs'
  BY <1>2, RunStepType
<1>3. ASSUME NEW x \in Actors, ActionStep(x) PROVE Tables' /\ Bounds' /\ Jobs'
  BY <1>3, ActionType
<1>4. CASE ReconcileStep
  BY <1>4, ReconcileType
<1>5. ASSUME NEW p \in Parents, MakeDue(p) PROVE Tables' /\ Bounds' /\ Jobs'
  BY <1>5 DEF MakeDue, Tables, Bounds, Jobs, RowType
<1>6. ASSUME NEW p \in Parents, LoseContainer(p) PROVE Tables' /\ Bounds' /\ Jobs'
  <2>1. mishaps' \in 0..MaxMishaps
    BY <1>6, BoundsType DEF LoseContainer, Mishap, Bounds
  <2>2. CASE Forget(p, job)
    <3>1. row' \in [Parents -> RowType] /\ Jobs'
          /\ box' \in [Parents -> {"none", "created", "running", "paused", "exited"}]
      BY <2>2, ForgetType DEF Jobs
    <3> QED
      BY <1>6, <2>1, <3>1 DEF LoseContainer, Tables, Bounds
  <2>3. CASE box' = [box EXCEPT ![p] = "exited"] /\ UNCHANGED <<row, job>>
    BY <1>6, <2>1, <2>3 DEF LoseContainer, Tables, Bounds, Jobs
  <2> QED
    BY <1>6, <2>2, <2>3 DEF LoseContainer
<1>7. CASE Crash
  BY <1>7, BoundsType
  DEF Crash, Mishap, Tables, Bounds, Jobs, NoJob, NotLoaded, JobType, Places, States
<1>8. CASE UNCHANGED vars
  BY <1>8 DEF vars, Tables, Bounds, Jobs
<1> QED
  BY <1>1, <1>2, <1>3, <1>4, <1>5, <1>6, <1>7, <1>8 DEF Next

\* Whatever requests, runs, the reconciler and mishaps do, rows, containers and
\* locals keep the values parent_runtime.py gives them.
THEOREM TypeCorrect == Spec => []TypeOK
BY TypeInit, TypeNext, PTL DEF Spec

-----------------------------------------------------------------------------
(* The lock. *)

Holding == {"create", "record", "broken"}
Resting == {"idle", "sweep", "accept", "launch", "refused"}

\* Whoever is provisioning holds the lock, has a row in hand, and is alone.
LockInv ==
    \A x \in Actors : /\ job[x].at \in Holding <=> lock = x
                      /\ job[x].at \in Holding => job[x].p \in Parents

LEMMA GotoFacts ==
    ASSUME NEW j \in JobType, NEW place \in Places
    PROVE  /\ Goto(j, place).at = place
           /\ place \in Resting => /\ Goto(j, place).p = NoParent
                                   /\ Goto(j, place).saw.cid = "null"
           /\ place \notin Resting => /\ Goto(j, place).p = j.p
                                      /\ Goto(j, place).todo = j.todo
                                      /\ Goto(j, place).saw = j.saw
                                      /\ Goto(j, place).found = j.found
BY DEF Goto, Resting, NoJob, NotLoaded, JobType, Places

\* A step that moves one actor to a place where no lock is held.
LEMMA OutsideLock ==
    ASSUME Jobs, LockInv, NEW x \in Actors, NEW j, Becomes(x, j),
           j.at \notin Holding, lock # x, UNCHANGED lock
    PROVE  LockInv'
BY DEF Jobs, LockInv, Becomes

LEMMA GoOutside ==
    ASSUME Jobs, LockInv, NEW x \in Actors, NEW place \in Places, Go(x, place),
           place \notin Holding, lock # x, UNCHANGED lock
    PROVE  LockInv'
BY OutsideLock, GotoFacts DEF Jobs, Go

LEMMA AgedFacts ==
    ASSUME NEW j \in JobType, NEW p
    PROVE  /\ Aged(j, p).at = j.at /\ Aged(j, p).p = j.p /\ Aged(j, p).todo = j.todo
           /\ Aged(j, p).saw.state = j.saw.state
           /\ Aged(j, p).saw.cid = IF j.p = p /\ j.saw.cid = "ours" THEN "lost" ELSE j.saw.cid
           /\ Aged(j, p).found = IF j.p = p /\ j.found = "own" THEN "gone" ELSE j.found
<1>1. ASSUME NEW w, NEW d
      PROVE  LET k == [j EXCEPT !.saw = w, !.found = d]
             IN  k.at = j.at /\ k.p = j.p /\ k.todo = j.todo /\ k.saw = w /\ k.found = d
  BY DEF JobType
<1>2. Aged(j, p) = IF j.p = p
                   THEN [j EXCEPT !.saw = [state |-> j.saw.state,
                                           cid |-> IF j.saw.cid = "ours" THEN "lost" ELSE j.saw.cid],
                                  !.found = IF j.found = "own" THEN "gone" ELSE j.found]
                   ELSE j
  BY DEF Aged
<1>3. CASE j.p = p
  <2> DEFINE w == [state |-> j.saw.state, cid |-> IF j.saw.cid = "ours" THEN "lost" ELSE j.saw.cid]
             d == IF j.found = "own" THEN "gone" ELSE j.found
  <2>1. Aged(j, p) = [j EXCEPT !.saw = w, !.found = d]
    BY <1>2, <1>3
  <2>2. w.state = j.saw.state /\ w.cid = IF j.saw.cid = "ours" THEN "lost" ELSE j.saw.cid
    OBVIOUS
  <2> HIDE DEF w
  <2> QED
    BY <1>1, <1>3, <2>1, <2>2
<1>4. CASE j.p # p
  BY <1>2, <1>4
<1> QED
  BY <1>3, <1>4

\* What Create makes of its locals.
LEMMA LoadedFacts ==
    ASSUME Jobs, NEW x \in Actors, Create(x)
    PROVE  /\ job'[x].at \in {"record", "broken"} /\ job'[x].p = job[x].p
           /\ job'[x].todo = job[x].todo /\ job'[x].saw = Load(job[x].p)
           /\ job'[x].at = "record" => job'[x].found = "own" /\ box' = [box EXCEPT ![job[x].p] = "running"]
           /\ \A y \in Actors : y # x => job'[y] = job[y]
<1>1. ASSUME NEW place, NEW v, NEW c
      PROVE  LET k == [job[x] EXCEPT !.at = place, !.saw = v, !.found = c]
             IN  k.at = place /\ k.p = job[x].p /\ k.todo = job[x].todo /\ k.saw = v /\ k.found = c
  BY DEF Jobs, JobType
<1>2. \/ /\ job' = [job EXCEPT ![x] = [job[x] EXCEPT !.at = "record", !.saw = Load(job[x].p), !.found = "own"]]
         /\ box' = [box EXCEPT ![job[x].p] = "running"]
      \/ job' = [job EXCEPT ![x] = [job[x] EXCEPT !.at = "broken", !.saw = Load(job[x].p), !.found = "none"]]
  BY DEF Create, Becomes
<1>3. PICK place \in {"record", "broken"}, c \in {"own", "none"} :
         /\ job' = [job EXCEPT ![x] = [job[x] EXCEPT !.at = place, !.saw = Load(job[x].p), !.found = c]]
         /\ place = "record" => c = "own" /\ box' = [box EXCEPT ![job[x].p] = "running"]
  BY <1>2
<1>4. job'[x] = [job[x] EXCEPT !.at = place, !.saw = Load(job[x].p), !.found = c]
      /\ \A y \in Actors : y # x => job'[y] = job[y]
  BY <1>3 DEF Jobs
<1>5. PICK v : v = Load(job[x].p)
  OBVIOUS
<1>6. /\ job'[x].at = place /\ job'[x].p = job[x].p /\ job'[x].todo = job[x].todo
      /\ job'[x].saw = v /\ job'[x].found = c
  BY <1>1, <1>4, <1>5
<1> QED
  BY <1>3, <1>4, <1>5, <1>6

LEMMA SyncedFacts ==
    ASSUME Jobs, NEW x \in Actors
    PROVE  Synced(x).at = job[x].at /\ Synced(x).p = job[x].p
BY DEF Synced, Jobs, JobType

LEMMA LockAction ==
    ASSUME Tables, Bounds, Jobs, LockInv, NEW x \in Actors, ActionStep(x)
    PROVE  LockInv'
<1> USE DEF Holding
<1>0. job[x] \in JobType /\ job[x].next \in Places \ Holding
  BY DEF Jobs, JobType, Places
<1>1. CASE EnsureSync(x)
  <2>1. lock # x
    BY <1>1 DEF EnsureSync, At, LockInv
  <2> DEFINE place == CASE Synced(x).saw.state = "PAUSED" -> "count"
                         [] Synced(x).saw.state = "RUNNING" -> job[x].next
                         [] OTHER -> "lock"
  <2>2. place \in Places \ Holding
    BY <1>0 DEF Places
  <2>3. Synced(x) \in JobType /\ Becomes(x, Goto(Synced(x), place)) /\ UNCHANGED lock
    BY <1>1, SyncType DEF EnsureSync
  <2> HIDE DEF place
  <2> QED
    BY <2>1, <2>2, <2>3, OutsideLock, GotoFacts
<1>2. CASE Count(x)
  BY <1>2, GoOutside DEF Count, At, outsideAction, Quit, Places, LockInv
<1>3. CASE Find(x)
  BY <1>0, <1>3, OutsideLock DEF Find, At, outsideAction, LockInv, JobType
<1>4. CASE Mark(x)
  BY <1>0, <1>4, OutsideLock DEF Mark, At, outsideAction, LockInv, JobType
<1>5. CASE Reload(x)
  BY <1>0, <1>5, OutsideLock DEF Reload, At, outsideAction, LockInv, JobType
<1>6. CASE ActOnNothing(x)
  BY <1>6, GoOutside DEF ActOnNothing, At, outsideAction, LockInv, Places
<1>7. CASE ActOnStatus(x)
  BY <1>7, GoOutside DEF ActOnStatus, At, outsideAction, LockInv, Places
<1>8. CASE ActRemove(x)
  <2> DEFINE went == Goto(job[x], IF job[x].todo = "refresh" THEN "reload" ELSE "write")
  <2>1. lock # x /\ UNCHANGED lock
    BY <1>8 DEF ActRemove, At, LockInv, outsideAction
  <2>2. went \in JobType /\ went.at \notin Holding
    <3>1. (IF job[x].todo = "refresh" THEN "reload" ELSE "write") \in Places \ Holding
      BY DEF Places
    <3> QED
      BY <1>0, <3>1, GotoFacts, GotoType
  <2>3. CASE job[x].found = "own"
    <3>1. job' = [y \in Actors |-> Aged([job EXCEPT ![x] = went][y], job[x].p)]
      BY <1>8, <2>3 DEF ActRemove, Forget
    <3>2. \A y \in Actors : [job EXCEPT ![x] = went][y] = IF y = x THEN went ELSE job[y]
      BY DEF Jobs
    <3>3. ASSUME NEW y \in Actors, y # x PROVE job'[y].at = job[y].at /\ job'[y].p = job[y].p
      BY <3>1, <3>2, <3>3, AgedFacts DEF Jobs
    <3>4. job'[x].at = went.at
      BY <2>2, <3>1, <3>2, AgedFacts
    <3> QED
      BY <2>1, <2>2, <3>3, <3>4 DEF LockInv
  <2>4. CASE job[x].found # "own"
    BY <1>8, <2>1, <2>2, <2>4, OutsideLock DEF ActRemove
  <2> QED
    BY <2>3, <2>4
<1>9. CASE ActFails(x)
  BY <1>9, GoOutside DEF ActFails, At, outsideAction, LockInv, Places
<1>10. CASE WriteOutcome(x)
  BY <1>0, <1>10, GoOutside DEF WriteOutcome, At, outsideAction, LockInv
<1>11. CASE WriteFailed(x)
  BY <1>11, GoOutside DEF WriteFailed, At, Quit, outsideAction, LockInv, Places
<1>12. CASE Provision(x)
  <2>1. \A y \in Actors : job[y].at \notin Holding
    BY <1>12 DEF Provision, LockFree, LockInv
  <2>2. job'[x].at = "create" /\ job'[x].p \in Parents /\ lock' = x
    <3>1. CASE job[x].p # NoParent
      <4>1. Goto(job[x], "create").at = "create" /\ Goto(job[x], "create").p = job[x].p
        BY <1>0, GotoFacts DEF Resting, Places
      <4> QED
        BY <1>0, <1>12, <3>1, <4>1 DEF Provision, Go, Becomes, Jobs, JobType
    <3>2. CASE job[x].p = NoParent
      <4>1. PICK p \in Parents : Becomes(x, [job[x] EXCEPT !.at = "create", !.p = p])
        BY <1>12, <3>2 DEF Provision
      <4>2. [job[x] EXCEPT !.at = "create", !.p = p].at = "create"
            /\ [job[x] EXCEPT !.at = "create", !.p = p].p = p
        BY <1>0 DEF JobType
      <4> QED
        BY <1>12, <4>1, <4>2 DEF Provision, Becomes, Jobs
    <3> QED
      BY <3>1, <3>2
  <2>3. \A y \in Actors : y # x => job'[y] = job[y]
    BY <1>12 DEF Provision, Go, Becomes, Jobs
  <2> QED
    BY <2>1, <2>2, <2>3 DEF LockInv
<1>13. CASE Create(x)
  BY <1>13, LoadedFacts DEF LockInv, Create, At
<1>14. ASSUME Record(x) \/ RecordError(x) PROVE LockInv'
  <2>1. job'[x].at \notin Holding /\ lock = x /\ lock' = Nobody
    BY <1>0, <1>14, GotoFacts DEF Record, RecordError, Release, Go, Becomes, Jobs, LockInv, At
  <2>2. \A y \in Actors : y # x => job'[y] = job[y]
    BY <1>14 DEF Record, RecordError, Go, Becomes, Jobs
  <2> QED
    BY <2>1, <2>2 DEF LockInv
<1> QED
  BY <1>1, <1>2, <1>3, <1>4, <1>5, <1>6, <1>7, <1>8, <1>9, <1>10, <1>11, <1>12, <1>13,
     <1>14 DEF ActionStep

LEMMA LockOthers ==
    ASSUME Tables, Bounds, Jobs, LockInv,
           \/ \E t \in Threads : RequestStep(t)
           \/ \E r \in Runs : RunStep(r)
           \/ ReconcileStep
           \/ \E p \in Parents : MakeDue(p) \/ LoseContainer(p)
           \/ Crash
           \/ UNCHANGED vars
    PROVE  LockInv'
<1> USE DEF Holding
<1>1. ASSUME NEW t \in Threads, RequestStep(t) PROVE LockInv'
  <2>1. CASE Insert(t)
    BY <2>1, GoOutside DEF Insert, At, LockInv, Places
  <2>2. ASSUME NEW j, Ask(t, j), j.at \notin Holding PROVE LockInv'
    BY <2>2, OutsideLock DEF Ask, At, LockInv
  <2> QED
    BY <1>1, <2>1, <2>2 DEF RequestStep, AskEnsure, AskProvision, AskRetry, AskAction, Ensure, Start
<1>2. ASSUME NEW r \in Runs, RunStep(r) PROVE LockInv'
  <2>1. CASE LoadParent(r)
    <3>1. lock # r /\ job[r] \in JobType /\ UNCHANGED lock
      BY <2>1 DEF LoadParent, At, LockInv, Jobs, outsideRun
    <3>2. /\ Goto(job[r], "launch").at \notin Holding
          /\ Goto(job[r], "refused").at \notin Holding
          /\ Start(run[r].home, "count", "resume", "accept").at \notin Holding
      BY <3>1, GotoFacts DEF Places, Start
    <3> QED
      BY <2>1, <3>1, <3>2, OutsideLock DEF LoadParent
  <2>2. CASE Accept(r)
    BY <2>2, GoOutside DEF Accept, At, LockInv, Places, outsideRun
  <2>3. CASE RemoveChild(r)
    BY <2>3 DEF RemoveChild, outsideRun, LockInv
  <2>4. CASE Dispatch(r)
    BY <2>4, GoOutside DEF Dispatch, At, LockInv, Places, outsideRun
  <2>5. CASE Launch(r)
    BY <2>5, GoOutside DEF Launch, At, LockInv, Places, outsideRun
  <2>6. CASE Verdict(r)
    BY <2>6, GoOutside DEF Verdict, At, LockInv, Places, outsideRun
  <2> QED
    BY <1>2, <2>1, <2>2, <2>3, <2>4, <2>5, <2>6 DEF RunStep
<1>3. CASE ReconcileStep
  <2>1. CASE ListParents \/ PassEnds
    BY <2>1, GoOutside DEF ListParents, PassEnds, At, LockInv, Places, outsidePass
  <2>2. CASE NextParent
    BY <2>2, OutsideLock DEF NextParent, Start, At, LockInv, outsidePass
  <2>3. CASE Examine
    <3>1. lock # Reconciler /\ UNCHANGED lock /\ Synced(Reconciler) \in JobType
      BY <2>3, SyncType DEF Examine, At, LockInv, outsidePass
    <3>2. ASSUME NEW j \in JobType, NEW place, NEW todo
          PROVE  [j EXCEPT !.at = place, !.todo = todo].at = place
      BY DEF JobType
    <3>3. CASE Go(Reconciler, "sweep")
      BY <3>1, <3>3, GoOutside DEF Places
    <3>4. ASSUME NEW place \in {"count", "lock"}, NEW todo,
                 Becomes(Reconciler, [Synced(Reconciler) EXCEPT !.at = place, !.todo = todo])
          PROVE  LockInv'
      BY <3>1, <3>2, <3>4, OutsideLock
    <3> QED
      BY <2>3, <3>3, <3>4 DEF Examine
  <2> QED
    BY <1>3, <2>1, <2>2, <2>3 DEF ReconcileStep
<1>4. ASSUME NEW p \in Parents, LoseContainer(p) PROVE LockInv'
  BY <1>4, AgedFacts DEF LoseContainer, Forget, LockInv, Jobs
<1>5. ASSUME NEW p \in Parents, MakeDue(p) PROVE LockInv'
  BY <1>5 DEF MakeDue, LockInv
<1>6. CASE Crash
  BY <1>6 DEF Crash, LockInv, NoJob
<1>7. CASE UNCHANGED vars
  BY <1>7 DEF vars, LockInv
<1> QED
  BY <1>1, <1>2, <1>3, <1>4, <1>5, <1>6, <1>7

-----------------------------------------------------------------------------
(* Containers and rows in passage. *)

Started(b) == b \notin {"none", "created"}

\* What a row or a session calls its container has been started, so no sync
\* can turn a row back to PROVISIONING.
ContainerInv ==
    /\ \A p \in Parents : row[p].cid = "ours" => Started(box[p])
    /\ \A x \in Actors : job[x].p \in Parents =>
          /\ job[x].saw.cid = "ours" => Started(box[job[x].p])
          /\ job[x].at = "record" /\ job[x].found = "own" => Started(box[job[x].p])

\* A PROVISIONING row is in the hands of the holder of the lock, who has seen it so.
ProvisioningInv ==
    crashed \/ \A p \in Parents : row[p].state = "PROVISIONING" =>
        /\ lock \in Actors
        /\ job[lock].p = p
        /\ job[lock].at \in {"record", "broken"} => job[lock].saw.state = "PROVISIONING"

\* A REFRESHING row is in the hands of one who will write something else to it.
WillWrite(j, p) ==
    /\ j.p = p /\ j.todo = "refresh"
    /\ \/ j.at \in {"act", "failed"} /\ j.saw.state = "EXPIRED"
       \/ j.at = "reload"
       \/ j.at = "lock" /\ j.saw.state = "REFRESHING"
RefreshingInv ==
    crashed \/ \A p \in Parents : row[p].state = "REFRESHING" => \E x \in Actors : WillWrite(job[x], p)

LEMMA PutFacts ==
    ASSUME Tables, NEW x \in Actors, NEW s, NEW c, Put(x, s, c), NEW q \in Parents
    PROVE  /\ row'[q].state = IF q = job[x].p /\ s # job[x].saw.state THEN s ELSE row[q].state
           /\ row'[q].cid = IF q = job[x].p /\ c # job[x].saw.cid THEN c ELSE row[q].cid
BY DEF Tables, Put, RowType

LEMMA BoxStep ==
    ASSUME Jobs, ContainerInv, NEW x \in Actors, NEW j, Becomes(x, j),
           \A q \in Parents : /\ Started(box[q]) => Started(box'[q])
                              /\ row'[q].cid = "ours" => row[q].cid = "ours" \/ Started(box'[q]),
           j.p \in Parents => /\ j.saw.cid = "ours" => Started(box'[j.p])
                              /\ j.at = "record" /\ j.found = "own" => Started(box'[j.p])
    PROVE  ContainerInv'
BY DEF Jobs, ContainerInv, Becomes

LEMMA ProvisioningStep ==
    ASSUME Jobs, ProvisioningInv, NEW x \in Actors, NEW j, Becomes(x, j),
           lock # x, UNCHANGED <<lock, crashed>>,
           \A q \in Parents : row'[q].state = "PROVISIONING" => row[q].state = "PROVISIONING"
    PROVE  ProvisioningInv'
BY DEF Jobs, ProvisioningInv, Becomes

LEMMA RefreshingStep ==
    ASSUME Jobs, RefreshingInv, NEW x \in Actors, NEW j, Becomes(x, j), UNCHANGED crashed,
           \A q \in Parents : row'[q].state = "REFRESHING" =>
               \/ WillWrite(j, q)
               \/ row[q].state = "REFRESHING" /\ ~WillWrite(job[x], q)
    PROVE  RefreshingInv'
<1> SUFFICES ASSUME ~crashed', NEW q \in Parents, row'[q].state = "REFRESHING"
             PROVE  \E y \in Actors : WillWrite(job'[y], q)
  BY DEF RefreshingInv, WillWrite
<1>1. job'[x] = j /\ \A y \in Actors : y # x => job'[y] = job[y]
  BY DEF Jobs, Becomes
<1>2. CASE WillWrite(j, q)
  BY <1>1, <1>2
<1>3. CASE row[q].state = "REFRESHING" /\ ~WillWrite(job[x], q)
  <2>1. PICK y \in Actors : WillWrite(job[y], q)
    BY <1>3 DEF RefreshingInv
  <2> QED
    BY <1>1, <1>3, <2>1
<1> QED
  BY <1>2, <1>3

\* A step of an actor without the lock that leaves rows and containers alone.
LEMMA PlainStep ==
    ASSUME Tables, Jobs, LockInv, ContainerInv, ProvisioningInv, RefreshingInv,
           NEW x \in Actors, NEW j, Becomes(x, j),
           job[x].at \notin Holding \union {"act", "failed", "reload", "lock"},
           UNCHANGED <<row, box, lock, crashed>>,
           j.at # "record",
           j.p \in Parents /\ j.saw.cid = "ours" => Started(box[j.p])
    PROVE  ContainerInv' /\ ProvisioningInv' /\ RefreshingInv'
<1>1. lock # x
  BY DEF LockInv
<1>2. ContainerInv'
  BY BoxStep DEF ContainerInv
<1>3. ProvisioningInv'
  BY <1>1, ProvisioningStep
<1>4. RefreshingInv'
  BY RefreshingStep DEF WillWrite
<1> QED
  BY <1>2, <1>3, <1>4

LEMMA PlainGo ==
    ASSUME Tables, Jobs, LockInv, ContainerInv, ProvisioningInv, RefreshingInv,
           NEW x \in Actors, NEW place \in Places, Go(x, place), place # "record",
           job[x].at \notin Holding \union {"act", "failed", "reload", "lock"},
           UNCHANGED <<row, box, lock, crashed>>
    PROVE  ContainerInv' /\ ProvisioningInv' /\ RefreshingInv'
<1> DEFINE j == Goto(job[x], place)
<1>1. job[x] \in JobType
  BY DEF Jobs
<1>2. /\ j.at = place
      /\ j.p \in Parents => j.p = job[x].p /\ j.saw = job[x].saw
  BY <1>1, GotoFacts, BoundsType
<1>3. Becomes(x, j)
  BY DEF Go
<1> HIDE DEF j
<1>4. j.p \in Parents /\ j.saw.cid = "ours" => Started(box[j.p])
  BY <1>2 DEF ContainerInv
<1> QED
  BY <1>2, <1>3, <1>4, PlainStep

\* A step of an actor without the lock that writes its row and then goes on.
LEMMA WriteStep ==
    ASSUME Tables, Jobs, LockInv, ContainerInv, ProvisioningInv, RefreshingInv,
           NEW x \in Actors, NEW s, NEW c, NEW j, Put(x, s, c), Becomes(x, j),
           job[x].at \notin Holding,
           s # "PROVISIONING", c \in {"null", job[x].saw.cid},
           s = "REFRESHING" => WillWrite(j, job[x].p),
           s = job[x].saw.state => ~WillWrite(job[x], job[x].p),
           UNCHANGED <<box, lock, crashed>>,
           j.at # "record",
           j.p \in Parents => /\ j.p = job[x].p
                              /\ j.saw.cid = "ours" => job[x].saw.cid = "ours" \/ row'[j.p].cid = "ours"
    PROVE  ContainerInv' /\ ProvisioningInv' /\ RefreshingInv'
<1>1. lock # x
  BY DEF LockInv
<1>2. ASSUME NEW q \in Parents
      PROVE  /\ row'[q].cid = "ours" => row[q].cid = "ours"
             /\ row'[q].state = "PROVISIONING" => row[q].state = "PROVISIONING"
             /\ row'[q].state = "REFRESHING" =>
                    WillWrite(j, q) \/ (row[q].state = "REFRESHING" /\ ~WillWrite(job[x], q))
  <2>1. q # job[x].p => ~WillWrite(job[x], q)
    BY DEF WillWrite
  <2>2. /\ row'[q].state = IF q = job[x].p /\ s # job[x].saw.state THEN s ELSE row[q].state
        /\ row'[q].cid = IF q = job[x].p /\ c # job[x].saw.cid THEN c ELSE row[q].cid
    BY PutFacts
  <2>3. CASE q # job[x].p
    BY <2>1, <2>2, <2>3
  <2>4. CASE q = job[x].p
    <3>1. /\ s = "REFRESHING" => WillWrite(j, q)
          /\ s = job[x].saw.state => ~WillWrite(job[x], q)
      BY <2>4
    <3>2. row'[q].state = IF s # job[x].saw.state THEN s ELSE row[q].state
      BY <2>2, <2>4
    <3>3. row'[q].cid = "ours" => row[q].cid = "ours"
      BY <2>2, <2>4
    <3>4. row'[q].state = "REFRESHING" =>
              WillWrite(j, q) \/ (row[q].state = "REFRESHING" /\ ~WillWrite(job[x], q))
      <4>1. CASE s # job[x].saw.state
        <5>1. row'[q].state = s
          BY <3>2, <4>1
        <5>2. CASE s = "REFRESHING"
          <6>1. WillWrite(j, q)
            BY <3>1, <5>2
          <6> QED
            BY <6>1
        <5>3. CASE s # "REFRESHING"
          BY <5>1, <5>3
        <5> QED
          BY <5>2, <5>3
      <4>2. CASE s = job[x].saw.state
        BY <3>1, <3>2, <4>2
      <4> QED
        BY <4>1, <4>2
    <3> QED
      BY <3>2, <3>3, <3>4
  <2> QED
    BY <2>3, <2>4
<1>3. ContainerInv'
  BY <1>2, BoxStep DEF ContainerInv
<1>4. ProvisioningInv'
  BY <1>1, <1>2, ProvisioningStep
<1>5. RefreshingInv'
  BY <1>2, RefreshingStep
<1> QED
  BY <1>3, <1>4, <1>5

LEMMA SyncStep ==
    ASSUME Tables, Bounds, Jobs, LockInv, ContainerInv, ProvisioningInv, RefreshingInv,
           NEW x \in Actors, NEW j, Sync(x), Becomes(x, j),
           job[x].at \notin Holding \union {"act", "failed", "reload", "lock"},
           UNCHANGED <<box, lock, crashed>>,
           j.at # "record",
           j.p \in Parents => j.p = Synced(x).p /\ j.saw = Synced(x).saw
    PROVE  ContainerInv' /\ ProvisioningInv' /\ RefreshingInv'
<1>1. Synced(x).p = job[x].p
  BY SyncedFacts
<1>2. CASE Unsynced(x)
  <2>1. Synced(x).saw = job[x].saw /\ UNCHANGED row
    BY <1>2 DEF Synced, Sync
  <2> QED
    BY <1>1, <2>1, PlainStep DEF ContainerInv
<1>3. CASE ~Unsynced(x)
  <2>1. job[x].p \in Parents
    BY <1>3 DEF Unsynced, Jobs, JobType
  <2>2. PICK s \in {"RUNNING", "PAUSED", "ERROR"} : Put(x, s, job[x].saw.cid)
    BY <1>3, <2>1 DEF Sync, StatusState, ContainerInv, Started
  <2>3. Synced(x).saw.cid = row'[job[x].p].cid
    BY <1>3 DEF Synced, View, Jobs, JobType
  <2>4. ~WillWrite(job[x], job[x].p)
    BY DEF WillWrite
  <2> QED
    BY <1>1, <2>2, <2>3, <2>4, WriteStep
<1> QED
  BY <1>2, <1>3

\* A step of an actor without the lock that leaves the rows alone.
LEMMA ActStep ==
    ASSUME Jobs, LockInv, ContainerInv, ProvisioningInv, RefreshingInv,
           NEW x \in Actors, NEW j, Becomes(x, j), lock # x,
           UNCHANGED <<row, lock, crashed>>,
           \A q \in Parents : /\ Started(box[q]) => Started(box'[q])
                              /\ row[q].state = "REFRESHING" => WillWrite(j, q) \/ ~WillWrite(job[x], q),
           j.at # "record",
           j.p \in Parents /\ j.saw.cid = "ours" => Started(box[j.p])
    PROVE  ContainerInv' /\ ProvisioningInv' /\ RefreshingInv'
<1>1. ContainerInv'
  BY BoxStep DEF ContainerInv
<1>2. ProvisioningInv'
  BY ProvisioningStep
<1>3. RefreshingInv'
  BY RefreshingStep
<1> QED
  BY <1>1, <1>2, <1>3

LEMMA ActGo ==
    ASSUME Jobs, LockInv, ContainerInv, ProvisioningInv, RefreshingInv,
           NEW x \in Actors, NEW place \in Places \ Resting, Go(x, place), lock # x,
           UNCHANGED <<row, lock, crashed>>, place # "record",
           \A q \in Parents : /\ Started(box[q]) => Started(box'[q])
                              /\ WillWrite(Goto(job[x], place), q) \/ ~WillWrite(job[x], q)
    PROVE  ContainerInv' /\ ProvisioningInv' /\ RefreshingInv'
<1> DEFINE j == Goto(job[x], place)
<1>1. j.at = place /\ j.p = job[x].p /\ j.saw = job[x].saw
  BY GotoFacts DEF Jobs
<1>2. Becomes(x, j) /\ \A q \in Parents : WillWrite(j, q) \/ ~WillWrite(job[x], q)
  BY DEF Go
<1> HIDE DEF j
<1> QED
  BY <1>1, <1>2, ActStep DEF ContainerInv

LEMMA ForgetStep ==
    ASSUME Tables, Bounds, Jobs, LockInv, ContainerInv, ProvisioningInv, RefreshingInv,
           NEW p, NEW jobs \in [Actors -> JobType], Forget(p, jobs),
           UNCHANGED <<lock, crashed>>,
           \A y \in Actors : /\ jobs[y].p = job[y].p /\ jobs[y].saw = job[y].saw
                             /\ jobs[y].at = "record" \/ y = lock => jobs[y] = job[y],
           \A y \in Actors, q \in Parents : WillWrite(job[y], q) => WillWrite(jobs[y], q)
    PROVE  ContainerInv' /\ ProvisioningInv' /\ RefreshingInv'
<1>1. ASSUME NEW y \in Actors
      PROVE  /\ job'[y].at = jobs[y].at /\ job'[y].p = jobs[y].p /\ job'[y].todo = jobs[y].todo
             /\ job'[y].saw.state = jobs[y].saw.state
             /\ job'[y].saw.cid = "ours" => jobs[y].saw.cid = "ours" /\ jobs[y].p # p
             /\ job'[y].found = "own" => jobs[y].found = "own" /\ jobs[y].p # p
  BY AgedFacts DEF Forget
<1>2. ASSUME NEW q \in Parents
      PROVE  /\ row'[q].state = row[q].state
             /\ row'[q].cid = "ours" => row[q].cid = "ours" /\ q # p
             /\ box'[q] = IF q = p THEN "none" ELSE box[q]
  BY DEF Forget, Tables, RowType, Bounds
<1>3. ContainerInv'
  <2>1. ASSUME NEW q \in Parents
        PROVE  row'[q].cid = "ours" => Started(box'[q])
    BY <1>2 DEF ContainerInv
  <2>2. ASSUME NEW y \in Actors, job'[y].p \in Parents
        PROVE  /\ job'[y].saw.cid = "ours" => Started(box'[job'[y].p])
               /\ job'[y].at = "record" /\ job'[y].found = "own" => Started(box'[job'[y].p])
    <3>1. job'[y].p = job[y].p
      BY <1>1
    <3>3. ASSUME job'[y].saw.cid = "ours" PROVE Started(box'[job'[y].p])
      BY <1>1, <1>2, <2>2, <3>1, <3>3 DEF ContainerInv
    <3>4. ASSUME job'[y].at = "record", job'[y].found = "own" PROVE Started(box'[job'[y].p])
      BY <1>1, <1>2, <2>2, <3>1, <3>4 DEF ContainerInv
    <3> QED
      BY <3>3, <3>4
  <2> QED
    BY <2>1, <2>2 DEF ContainerInv
<1>4. ProvisioningInv'
  BY <1>1, <1>2 DEF ProvisioningInv
<1>5. RefreshingInv'
  <2>1. \A y \in Actors, q \in Parents : WillWrite(jobs[y], q) => WillWrite(job'[y], q)
    BY <1>1 DEF WillWrite
  <2>2. \A y \in Actors, q \in Parents : WillWrite(job[y], q) => WillWrite(job'[y], q)
    BY <2>1
  <2> QED
    BY <1>2, <2>2 DEF RefreshingInv, WillWrite
<1> QED
  BY <1>3, <1>4, <1>5

LEMMA PassageAction ==
    ASSUME Tables, Bounds, Jobs, LockInv, ContainerInv, ProvisioningInv, RefreshingInv,
           NEW x \in Actors, ActionStep(x)
    PROVE  ContainerInv' /\ ProvisioningInv' /\ RefreshingInv'
<1>0. job[x] \in JobType /\ job[x].next \in Places /\ job[x].next # "record"
  BY DEF Jobs, JobType, Places
<1>1. CASE EnsureSync(x)
  <2> DEFINE place == CASE Synced(x).saw.state = "PAUSED" -> "count"
                         [] Synced(x).saw.state = "RUNNING" -> job[x].next
                         [] OTHER -> "lock"
             k == Goto(Synced(x), place)
  <2>1. place \in Places /\ place # "record"
    BY <1>0 DEF Places
  <2>2. Synced(x) \in JobType /\ Becomes(x, k) /\ Sync(x)
    BY <1>1, SyncType DEF EnsureSync
  <2>3. /\ k.at # "record"
        /\ k.p \in Parents => k.p = Synced(x).p /\ k.saw = Synced(x).saw
    BY <2>1, <2>2, GotoFacts, BoundsType
  <2> HIDE DEF k
  <2> QED
    BY <1>1, <2>2, <2>3, SyncStep DEF EnsureSync, At, Holding
<1>2. CASE Count(x)
  BY <1>2, PlainGo DEF Count, At, outsideAction, Quit, Places, Holding
<1>3. CASE Find(x)
  <2>1. ASSUME NEW place, NEW f
        PROVE  LET k == [job[x] EXCEPT !.at = place, !.found = f]
               IN  k.at = place /\ k.p = job[x].p /\ k.saw = job[x].saw
    BY <1>0 DEF JobType
  <2>0. PICK place \in {"mark", "act"} :
            \E f : Becomes(x, [job[x] EXCEPT !.at = place, !.found = f])
    BY <1>3 DEF Find
  <2>2. PICK f : Becomes(x, [job[x] EXCEPT !.at = place, !.found = f])
    BY <2>0
  <2> DEFINE k == [job[x] EXCEPT !.at = place, !.found = f]
  <2>3. k.at = place /\ k.p = job[x].p /\ k.saw = job[x].saw
    BY <2>1
  <2>4. Becomes(x, k)
    BY <2>2
  <2> HIDE DEF k
  <2> QED
    BY <1>3, <2>3, <2>4, PlainStep DEF Find, At, outsideAction, Holding, ContainerInv
<1>4. CASE Mark(x)
  <2> DEFINE k == [job[x] EXCEPT !.at = "act", !.saw = [state |-> "EXPIRED", cid |-> job[x].saw.cid]]
  <2>1. /\ k.at = "act" /\ k.p = job[x].p /\ k.todo = job[x].todo
        /\ k.saw.state = "EXPIRED" /\ k.saw.cid = job[x].saw.cid
    BY <1>0 DEF JobType
  <2>2. Becomes(x, k)
    BY <1>4 DEF Mark
  <2> HIDE DEF k
  <2> QED
    BY <1>4, <2>1, <2>2, WriteStep DEF Mark, At, outsideAction, Holding, WillWrite
<1>5. CASE Reload(x)
  <2> DEFINE k == [job[x] EXCEPT !.at = "lock", !.saw = Load(job[x].p)]
  <2>1. PICK v : v = Load(job[x].p)
    OBVIOUS
  <2>2. LET m == [job[x] EXCEPT !.at = "lock", !.saw = v]
        IN  m.at = "lock" /\ m.p = job[x].p /\ m.todo = job[x].todo /\ m.saw = v
    BY <1>0 DEF JobType
  <2>3. k.at = "lock" /\ k.p = job[x].p /\ k.todo = job[x].todo /\ k.saw = v
    BY <2>1, <2>2
  <2>4. Becomes(x, k)
    BY <1>5 DEF Reload
  <2> HIDE DEF k
  <2>5. \A q \in Parents : row[q].state = "REFRESHING" => WillWrite(k, q) \/ ~WillWrite(job[x], q)
    BY <2>1, <2>3 DEF WillWrite, Load, View
  <2>6. k.p \in Parents => k.saw.cid = row[k.p].cid
    BY <2>1, <2>3 DEF Load, View
  <2>7. lock # x /\ UNCHANGED <<row, box, lock, crashed>>
    BY <1>5 DEF Reload, At, LockInv, Holding, outsideAction
  <2> QED
    BY <2>3, <2>4, <2>5, <2>6, <2>7, ActStep DEF ContainerInv
<1>6. CASE ActOnNothing(x)
  <2>1. PICK place \in {"lock", "reload", "write"} :
           /\ Go(x, place)
           /\ job[x].todo = "refresh" => place = "reload"
    BY <1>6 DEF ActOnNothing
  <2>2. place \in Places \ Resting
    BY DEF Places, Resting
  <2>3. lock # x /\ UNCHANGED <<row, box, lock, crashed>>
    BY <1>6 DEF ActOnNothing, At, LockInv, Holding, outsideAction
  <2>4. \A q \in Parents : WillWrite(Goto(job[x], place), q) \/ ~WillWrite(job[x], q)
    BY <1>0, <2>1, <2>2, GotoFacts DEF WillWrite
  <2> QED
    BY <1>0, <2>1, <2>2, <2>3, <2>4, ActGo
<1>7. CASE ActOnStatus(x)
  <2>1. "write" \in Places \ Resting
    BY DEF Places, Resting
  <2>2. lock # x /\ UNCHANGED <<row, lock, crashed>> /\ Go(x, "write")
    BY <1>7 DEF ActOnStatus, At, LockInv, Holding, outsideAction
  <2>3. \A q \in Parents : ~WillWrite(job[x], q)
    BY <1>7 DEF ActOnStatus, WillWrite
  <2>4. \A q \in Parents : Started(box[q]) => Started(box'[q])
    BY <1>7 DEF ActOnStatus, SetStatus, Now, Status, Started, Bounds
  <2> QED
    BY <1>0, <2>1, <2>2, <2>3, <2>4, ActGo
<1>8. CASE ActRemove(x)
  <2> DEFINE place == IF job[x].todo = "refresh" THEN "reload" ELSE "write"
             went == Goto(job[x], place)
  <2>1. place \in Places \ Resting /\ place # "record"
    BY DEF Places, Resting
  <2>2. /\ went \in JobType /\ went.at = place
        /\ went.p = job[x].p /\ went.saw = job[x].saw /\ went.todo = job[x].todo
    BY <1>0, <2>1, GotoType, GotoFacts
  <2>3. \A q \in Parents : WillWrite(went, q) \/ ~WillWrite(job[x], q)
    BY <1>8, <2>2 DEF ActRemove, At, WillWrite
  <2>4. lock # x /\ UNCHANGED <<lock, crashed>>
    BY <1>8 DEF ActRemove, At, LockInv, Holding, outsideAction
  <2>5. CASE job[x].found = "own"
    <3> DEFINE jobs == [job EXCEPT ![x] = went]
    <3>1. jobs \in [Actors -> JobType] /\ Forget(job[x].p, jobs)
      BY <1>8, <2>2, <2>5 DEF ActRemove, Jobs
    <3>2. \A y \in Actors : jobs[y] = IF y = x THEN went ELSE job[y]
      BY DEF Jobs
    <3> HIDE DEF jobs, went
    <3>3. \A y \in Actors : /\ jobs[y].p = job[y].p /\ jobs[y].saw = job[y].saw
                            /\ jobs[y].at = "record" \/ y = lock => jobs[y] = job[y]
      BY <2>1, <2>2, <2>4, <3>2
    <3>4. \A y \in Actors, q \in Parents : WillWrite(job[y], q) => WillWrite(jobs[y], q)
      BY <2>3, <3>2
    <3> QED
      BY <2>4, <3>1, <3>3, <3>4, ForgetStep
  <2>6. CASE job[x].found # "own"
    <3>1. Becomes(x, went) /\ UNCHANGED <<row, box>>
      BY <1>8, <2>6 DEF ActRemove
    <3> HIDE DEF went
    <3> QED
      BY <2>1, <2>2, <2>3, <2>4, <3>1, ActStep DEF ContainerInv
  <2> QED
    BY <2>5, <2>6
<1>9. CASE ActFails(x)
  <2>1. "failed" \in Places \ Resting
    BY DEF Places, Resting
  <2>2. lock # x /\ UNCHANGED <<row, box, lock, crashed>> /\ Go(x, "failed")
    BY <1>9 DEF ActFails, At, LockInv, Holding, outsideAction
  <2>3. \A q \in Parents : WillWrite(Goto(job[x], "failed"), q) \/ ~WillWrite(job[x], q)
    BY <1>0, <1>9, <2>1, GotoFacts DEF ActFails, At, WillWrite
  <2> QED
    BY <1>0, <2>1, <2>2, <2>3, ActGo
<1>10. CASE WriteOutcome(x)
  <2> DEFINE k == Goto(job[x], job[x].next)
  <2>1. k.at = job[x].next /\ (k.p \in Parents => k.p = job[x].p /\ k.saw = job[x].saw)
    BY <1>0, GotoFacts, BoundsType
  <2>2. Becomes(x, k)
    BY <1>10 DEF WriteOutcome, Go
  <2> HIDE DEF k
  <2> QED
    BY <1>0, <1>10, <2>1, <2>2, WriteStep DEF WriteOutcome, Outcome, At, outsideAction, Holding, WillWrite
<1>11. CASE WriteFailed(x)
  <2>1. PICK place \in {"refused", "idle"} : Becomes(x, Goto(job[x], place))
    BY <1>11 DEF WriteFailed, Quit, Go
  <2> DEFINE k == Goto(job[x], place)
  <2>2. k.at = place /\ k.p \notin Parents
    BY <1>0, GotoFacts, BoundsType DEF Places, Resting
  <2>3. Becomes(x, k)
    BY <2>1
  <2> HIDE DEF k
  <2> QED
    BY <1>0, <1>11, <2>2, <2>3, WriteStep DEF WriteFailed, At, outsideAction, Holding, WillWrite
<1>12. CASE Provision(x)
  <2>1. PICK p, k :
           /\ p \in Parents
           /\ Becomes(x, k) /\ k.at = "create" /\ k.p = p /\ job[x].p \in {p, NoParent}
           /\ k.saw.cid = "ours" => job[x].p = p /\ job[x].saw.cid = "ours"
           /\ \A q \in Parents :
                 /\ row'[q].state = row[q].state \/ (q = p /\ row'[q].state = "PROVISIONING")
                 /\ row'[q].cid = "ours" => row[q].cid = "ours"
                 /\ q = p /\ job[x].saw.state # "PROVISIONING" => row'[q].state = "PROVISIONING"
    <3>1. CASE job[x].p # NoParent
      <4> DEFINE k == Goto(job[x], "create")
      <4>1. k.at = "create" /\ k.p = job[x].p /\ k.saw = job[x].saw
        BY <1>0, GotoFacts DEF Places, Resting
      <4>2. Becomes(x, k) /\ Put(x, "PROVISIONING", job[x].saw.cid) /\ job[x].p \in Parents
        BY <1>0, <1>12, <3>1 DEF Provision, Go, JobType
      <4> HIDE DEF k
      <4> QED
        BY <4>1, <4>2, PutFacts DEF ContainerInv
    <3>2. CASE job[x].p = NoParent
      <4>1. PICK p \in Parents : /\ Becomes(x, [job[x] EXCEPT !.at = "create", !.p = p])
                                 /\ row' = [row EXCEPT ![p] = NewRow]
        BY <1>12, <3>2 DEF Provision
      <4> DEFINE k == [job[x] EXCEPT !.at = "create", !.p = p]
      <4>2. k.at = "create" /\ k.p = p /\ k.saw = job[x].saw /\ job[x].saw.cid = "null"
        BY <1>0, <3>2 DEF JobType
      <4>3. Becomes(x, k)
        BY <4>1
      <4> HIDE DEF k
      <4> QED
        BY <3>2, <4>1, <4>2, <4>3 DEF Tables, NewRow
    <3> QED
      BY <3>1, <3>2
  <2>2. lock = Nobody /\ lock' = x /\ UNCHANGED <<box, crashed>> /\ job[x].at = "lock"
    BY <1>12 DEF Provision, LockFree, outsideProvision, At
  <2>3. ContainerInv'
    BY <2>1, <2>2, BoxStep DEF ContainerInv
  <2>4. ProvisioningInv'
    BY <2>1, <2>2 DEF ProvisioningInv, Becomes, Jobs
  <2>5. RefreshingInv'
    <3>1. ASSUME NEW q \in Parents, row'[q].state = "REFRESHING"
          PROVE  row[q].state = "REFRESHING" /\ ~WillWrite(job[x], q)
      BY <2>1, <2>2, <3>1, BoundsType DEF WillWrite
    <3> QED
      BY <2>1, <2>2, <3>1, RefreshingStep
  <2> QED
    BY <2>3, <2>4, <2>5
<1>13. CASE Create(x)
  <2>1. lock = x /\ UNCHANGED <<row, lock, crashed>> /\ job[x].p \in Parents /\ job[x].at = "create"
    BY <1>13 DEF Create, At, LockInv, Holding, outsideProvision
  <2>2. \A q \in Parents : Started(box[q]) => Started(box'[q])
    BY <1>13 DEF Create, Bounds, Started
  <2>3. PICK k : Becomes(x, k)
    BY <1>13 DEF Create
  <2>4. k = job'[x]
    BY <2>3 DEF Becomes, Jobs
  <2>6. k.at = "record" => Started(box'[job[x].p])
    BY <1>13, <2>1, <2>4, LoadedFacts DEF Bounds, Started
  <2>7. k.p = job[x].p /\ k.saw = View(row[job[x].p]) /\ k.at \in {"record", "broken"}
    BY <1>13, <2>1, <2>4, LoadedFacts DEF Load
  <2>8. ContainerInv'
    BY <2>1, <2>2, <2>3, <2>6, <2>7, BoxStep DEF ContainerInv, View
  <2>9. ProvisioningInv'
    BY <2>1, <2>4, <2>7 DEF ProvisioningInv, View
  <2>10. RefreshingInv'
    BY <2>1, <2>3, RefreshingStep DEF WillWrite
  <2> QED
    BY <2>8, <2>9, <2>10
<1>14. ASSUME Record(x) \/ RecordError(x)
       PROVE  ContainerInv' /\ ProvisioningInv' /\ RefreshingInv'
  <2> DEFINE k == Goto(job[x], job[x].next)
             p == job[x].p
  <2>1. k.at = job[x].next /\ (k.p \in Parents => k.p = p /\ k.saw = job[x].saw)
    BY <1>0, GotoFacts, BoundsType
  <2>2. Becomes(x, k) /\ UNCHANGED <<box, crashed>>
    BY <1>14 DEF Record, RecordError, Go, outsideProvision
  <2>3. lock = x /\ p \in Parents /\ job[x].at \in {"record", "broken"}
    BY <1>14 DEF Record, RecordError, At, LockInv, Holding
  <2>4. ASSUME NEW q \in Parents
        PROVE  /\ q # p => row'[q] = row[q]
               /\ row'[q].state \notin {"RUNNING", "ERROR"} => row'[q].state = row[q].state
               /\ q = p => row'[q].state \in {"RUNNING", "ERROR"} \/ job[x].saw.state \in {"RUNNING", "ERROR"}
               /\ row'[q].cid = "ours" =>
                     row[q].cid = "ours" \/ (q = p /\ job[x].at = "record" /\ job[x].found = "own")
    <3>1. CASE RecordError(x)
      BY <3>1, PutFacts DEF RecordError, Put, Tables
    <3>2. CASE Record(x)
      BY <1>0, <2>3, <3>2 DEF Record, At, Tables, RowType, JobType
    <3> QED
      BY <1>14, <3>1, <3>2
  <2> HIDE DEF k, p
  <2>5. ContainerInv'
    BY <1>0, <2>1, <2>2, <2>3, <2>4, BoxStep DEF ContainerInv, p
  <2>6. ProvisioningInv'
    <3>1. ASSUME ~crashed, NEW q \in Parents, row'[q].state = "PROVISIONING" PROVE FALSE
      BY <2>3, <2>4, <3>1 DEF ProvisioningInv, p
    <3> QED
      BY <2>2, <3>1 DEF ProvisioningInv
  <2>7. RefreshingInv'
    BY <2>2, <2>3, <2>4, RefreshingStep DEF WillWrite
  <2> QED
    BY <2>5, <2>6, <2>7
<1> QED
  BY <1>1, <1>2, <1>3, <1>4, <1>5, <1>6, <1>7, <1>8, <1>9, <1>10, <1>11, <1>12, <1>13, <1>14
  DEF ActionStep

LEMMA PassageOthers ==
    ASSUME Tables, Bounds, Jobs, LockInv, ContainerInv, ProvisioningInv, RefreshingInv,
           \/ \E t \in Threads : RequestStep(t)
           \/ \E r \in Runs : RunStep(r)
           \/ ReconcileStep
           \/ \E p \in Parents : MakeDue(p) \/ LoseContainer(p)
           \/ Crash
           \/ UNCHANGED vars
    PROVE  ContainerInv' /\ ProvisioningInv' /\ RefreshingInv'
<1> USE DEF Holding
<1>0. ASSUME NEW x \in Actors, NEW p \in Parents \union {NoParent}, NEW place, NEW todo, NEW next,
             Becomes(x, Start(p, place, todo, next)), place # "record",
             job[x].at \notin Holding \union {"act", "failed", "reload", "lock"},
             UNCHANGED <<row, box, lock, crashed>>
      PROVE  ContainerInv' /\ ProvisioningInv' /\ RefreshingInv'
  <2> DEFINE k == Start(p, place, todo, next)
  <2>1. k.at = place /\ k.p = p /\ k.saw = Load(p)
    BY DEF Start
  <2>2. p \in Parents /\ Load(p).cid = "ours" => Started(box[p])
    BY DEF Load, View, ContainerInv
  <2> HIDE DEF k
  <2> QED
    BY <1>0, <2>1, <2>2, PlainStep DEF k
<1>1. ASSUME NEW t \in Threads, RequestStep(t)
      PROVE  ContainerInv' /\ ProvisioningInv' /\ RefreshingInv'
  <2>1. CASE Insert(t)
    BY <2>1, PlainGo DEF Insert, At, Places
  <2>2. ASSUME NEW p \in Parents \union {NoParent}, NEW place, NEW todo, NEW next,
               place # "record",
               Ask(t, Start(p, place, todo, next))
        PROVE  ContainerInv' /\ ProvisioningInv' /\ RefreshingInv'
    BY <1>0, <2>2 DEF Ask, At
  <2>3. ASSUME NEW next, Ensure(t, next) PROVE ContainerInv' /\ ProvisioningInv' /\ RefreshingInv'
    BY <2>2, <2>3, BoundsType DEF Ensure, Current, Live
  <2>4. CASE AskProvision(t)
    BY <2>2, <2>4, BoundsType DEF AskProvision, Current, Live
  <2>5. ASSUME NEW r \in Runs, AskRetry(t, r)
        PROVE  ContainerInv' /\ ProvisioningInv' /\ RefreshingInv'
    BY <2>2, <2>3, <2>5 DEF AskRetry, Tables, RunType
  <2> QED
    BY <1>1, <2>1, <2>2, <2>3, <2>4, <2>5 DEF RequestStep, AskEnsure, AskAction
<1>2. ASSUME NEW r \in Runs, RunStep(r)
      PROVE  ContainerInv' /\ ProvisioningInv' /\ RefreshingInv'
  <2>1. CASE LoadParent(r)
    BY <1>0, <2>1, PlainGo DEF LoadParent, At, Places, outsideRun, Go, Tables, RunType
  <2>2. CASE Accept(r)
    BY <2>2, PlainGo DEF Accept, At, Places, outsideRun
  <2>3. CASE RemoveChild(r)
    BY <2>3 DEF RemoveChild, outsideRun, ContainerInv, ProvisioningInv, RefreshingInv
  <2>4. CASE Dispatch(r)
    BY <2>4, PlainGo DEF Dispatch, At, Places, outsideRun
  <2>5. CASE Launch(r)
    BY <2>5, PlainGo DEF Launch, At, Places, outsideRun
  <2>6. CASE Verdict(r)
    BY <2>6, PlainGo DEF Verdict, At, Places, outsideRun
  <2> QED
    BY <1>2, <2>1, <2>2, <2>3, <2>4, <2>5, <2>6 DEF RunStep
<1>3. CASE ReconcileStep
  <2>1. CASE ListParents \/ PassEnds
    BY <2>1, PlainGo DEF ListParents, PassEnds, At, Places, outsidePass
  <2>2. CASE NextParent
    BY <1>0, <2>2 DEF NextParent, At, Bounds, outsidePass
  <2>3. CASE Examine
    <3>1. /\ job[Reconciler].at = "examine" /\ UNCHANGED <<box, lock, crashed>>
          /\ Sync(Reconciler) /\ Synced(Reconciler) \in JobType
      BY <2>3, SyncType DEF Examine, At, outsidePass
    <3>2. ASSUME NEW j \in JobType, NEW place, NEW todo
          PROVE  LET k == [j EXCEPT !.at = place, !.todo = todo]
                 IN  k.at = place /\ k.p = j.p /\ k.saw = j.saw
      BY DEF JobType
    <3>3. CASE Go(Reconciler, "sweep")
      <4> DEFINE k == Goto(job[Reconciler], "sweep")
      <4>1. k.at = "sweep" /\ k.p \notin Parents
        BY GotoFacts, BoundsType DEF Jobs, Places, Resting
      <4>2. Becomes(Reconciler, k)
        BY <3>3 DEF Go
      <4> HIDE DEF k
      <4> QED
        BY <3>1, <4>1, <4>2, SyncStep
    <3>4. ASSUME NEW place \in {"count", "lock"}, NEW todo,
                 Becomes(Reconciler, [Synced(Reconciler) EXCEPT !.at = place, !.todo = todo])
          PROVE  ContainerInv' /\ ProvisioningInv' /\ RefreshingInv'
      <4> DEFINE k == [Synced(Reconciler) EXCEPT !.at = place, !.todo = todo]
      <4>1. k.at = place /\ k.p = Synced(Reconciler).p /\ k.saw = Synced(Reconciler).saw
        BY <3>1, <3>2
      <4>2. Becomes(Reconciler, k)
        BY <3>4
      <4> HIDE DEF k
      <4> QED
        BY <3>1, <4>1, <4>2, SyncStep
    <3> QED
      BY <2>3, <3>3, <3>4 DEF Examine
  <2> QED
    BY <1>3, <2>1, <2>2, <2>3 DEF ReconcileStep
<1>4. ASSUME NEW p \in Parents, LoseContainer(p)
      PROVE  ContainerInv' /\ ProvisioningInv' /\ RefreshingInv'
  <2>1. CASE Forget(p, job)
    BY <1>4, <2>1, ForgetStep DEF LoseContainer, Jobs
  <2>2. CASE box' = [box EXCEPT ![p] = "exited"] /\ UNCHANGED <<row, job>>
    BY <1>4, <2>2
    DEF LoseContainer, Bounds, ContainerInv, ProvisioningInv, RefreshingInv, Started, WillWrite
  <2> QED
    BY <1>4, <2>1, <2>2 DEF LoseContainer
<1>5. ASSUME NEW p \in Parents, MakeDue(p)
      PROVE  ContainerInv' /\ ProvisioningInv' /\ RefreshingInv'
  <2>1. \A q \in Parents : row'[q].state = row[q].state /\ row'[q].cid = row[q].cid
    BY <1>5 DEF MakeDue, Tables, RowType
  <2> QED
    BY <1>5, <2>1 DEF MakeDue, ContainerInv, ProvisioningInv, RefreshingInv, WillWrite
<1>6. CASE Crash
  <2>1. job' = [x \in Actors |-> NoJob] /\ crashed' /\ UNCHANGED <<row, box>>
    BY <1>6 DEF Crash
  <2>2. ContainerInv'
    BY <2>1, BoundsType DEF ContainerInv, NoJob
  <2> QED
    BY <2>1, <2>2 DEF ProvisioningInv, RefreshingInv
<1>7. CASE UNCHANGED vars
  BY <1>7 DEF vars, ContainerInv, ProvisioningInv, RefreshingInv, WillWrite
<1> QED
  BY <1>1, <1>2, <1>3, <1>4, <1>5, <1>6, <1>7

IInv == TypeOK /\ LockInv /\ ContainerInv /\ ProvisioningInv /\ RefreshingInv

LEMMA IInvInit == Init => IInv
<1> SUFFICES ASSUME Init PROVE LockInv /\ ContainerInv /\ ProvisioningInv /\ RefreshingInv
  BY TypeInit DEF IInv
<1> QED
  BY BoundsType
  DEF Init, LockInv, Holding, ContainerInv, ProvisioningInv, RefreshingInv, NoJob, NotLoaded

LEMMA IInvNext == IInv /\ [Next]_vars => IInv'
<1> SUFFICES ASSUME IInv, [Next]_vars PROVE IInv'
  OBVIOUS
<1>1. TypeOK' /\ Tables /\ Bounds /\ Jobs
  BY TypeNext, TypeParts DEF IInv
<1>2. ASSUME NEW x \in Actors, ActionStep(x) PROVE IInv'
  BY <1>1, <1>2, LockAction, PassageAction DEF IInv
<1>3. CASE \/ \E t \in Threads : RequestStep(t)
           \/ \E r \in Runs : RunStep(r)
           \/ ReconcileStep
           \/ \E p \in Parents : MakeDue(p) \/ LoseContainer(p)
           \/ Crash
           \/ UNCHANGED vars
  BY <1>1, <1>3, LockOthers, PassageOthers DEF IInv
<1> QED
  BY <1>2, <1>3 DEF Next

\* While the process lives a PROVISIONING row is being provisioned and a
\* REFRESHING one refreshed: the commits of parent_action and provision_parent
\* that lose a race leave none of them behind.
THEOREM PassageEnds == Spec => []TransientIsWorkedOn
<1>1. IInv => TransientIsWorkedOn
  BY DEF IInv, TypeOK, ProvisioningInv, RefreshingInv, WillWrite, TransientIsWorkedOn,
         Provisioning, Refreshing
<1> QED
  BY <1>1, IInvInit, IInvNext, PTL DEF Spec

\* provision_parent is entered by one actor at a time, whoever calls it.
THEOREM OneProvisions ==
    Spec => [](\A x, y \in Actors : job[x].at \in Holding /\ job[y].at \in Holding => x = y)
<1>1. IInv => \A x, y \in Actors : job[x].at \in Holding /\ job[y].at \in Holding => x = y
  BY DEF IInv, LockInv
<1> QED
  BY <1>1, IInvInit, IInvNext, PTL DEF Spec

-----------------------------------------------------------------------------
(* Runs that were there before. *)

\* Who will act on what belongs to a run, and has looked for active runs.
Answers(x) ==
    \/ Careful(x) /\ job[x].at \in {"find", "mark", "act"}
    \/ x = Reconciler /\ job[x].at = "count"

\* A run's thread is at work only while its row is active; the reconciler asks for nothing
\* else than a pause or a refresh; a sandbox taken for the parent's container is that of
\* one of its runs; and all active runs of the parent have been dispatched since the look.
Mine(x) ==
    /\ x \in Runs /\ job[x].at # "idle" => run[x].state = "ACTIVE"
    /\ x = Reconciler => /\ job[x].at # "sync"
                         /\ job[x].at = "count" => job[x].todo \in {"pause", "refresh"}
    /\ job[x].at \in {"mark", "act"} /\ job[x].found \in Runs =>
          run[job[x].found].home = job[x].p /\ run[job[x].found].state # "ABSENT"
    /\ Answers(x) =>
          \A r \in Runs : run[r].home = job[x].p /\ run[r].state = "ACTIVE" => r \in since[x]
SparingInv ==
    /\ \A x \in Actors : Mine(x)
    /\ \A r \in Runs : run[r].child # "none" => run[r].state # "ABSENT"

\* What a step may do to the runs, and to an actor that does not take it.
RunsKept ==
    \A r \in Runs :
        /\ run'[r].state = "ACTIVE" =>
              run[r].state = "ACTIVE" \/ \A y \in Actors : r \in since'[y]
        /\ run[r].state # "ABSENT" => run'[r].state # "ABSENT" /\ run'[r].home = run[r].home
        /\ run'[r].child # "none" => run'[r].state # "ABSENT"
Kept(y) ==
    /\ job'[y].at = job[y].at /\ job'[y].p = job[y].p /\ job'[y].todo = job[y].todo
    /\ job'[y].found \in Runs => job'[y].found = job[y].found
    /\ since[y] \subseteq since'[y]
    /\ y \in Runs /\ job[y].at # "idle" => run'[y].state = "ACTIVE"

LEMMA KeptMine ==
    ASSUME SparingInv, RunsKept, NEW y \in Actors, Kept(y)
    PROVE  Mine(y)'
<1>1. Mine(y)
  BY DEF SparingInv
<1>2. Answers(y)' => Answers(y)
  BY DEF Kept, Answers, Careful
<1>3. ASSUME Answers(y)', NEW r \in Runs, run'[r].home = job'[y].p, run'[r].state = "ACTIVE"
      PROVE  r \in since'[y]
  BY <1>1, <1>2, <1>3 DEF Mine, Kept, RunsKept
<1>4. job'[y].at \in {"mark", "act"} /\ job'[y].found \in Runs =>
          run'[job'[y].found].home = job'[y].p /\ run'[job'[y].found].state # "ABSENT"
  BY <1>1 DEF Mine, Kept, RunsKept
<1> QED
  BY <1>1, <1>3, <1>4 DEF Mine, Kept

LEMMA SparingKept ==
    ASSUME SparingInv, RunsKept, NEW x \in Actors, Mine(x)',
           \A y \in Actors : y # x => Kept(y)
    PROVE  SparingInv'
BY KeptMine DEF SparingInv, RunsKept

\* The commits and Docker calls of parent_runtime.py change no run but its sandbox.
LEMMA ActionRuns ==
    ASSUME TypeOK, NEW x \in Actors, ActionStep(x), NEW r \in Runs
    PROVE  /\ run'[r].state = run[r].state /\ run'[r].home = run[r].home
           /\ run'[r].child # "none" => run[r].child # "none"
           /\ run'[r].child # run[r].child => At(x, "act") /\ r = job[x].found
<1>1. Tables
  BY TypeParts
<1>2. CASE UNCHANGED run
  BY <1>2
<1>3. CASE ActOnStatus(x)
  <2>1. CASE job[x].found = "own"
    BY <1>2, <1>3, <2>1 DEF ActOnStatus, SetStatus
  <2>2. CASE job[x].found # "own"
    <3>1. PICK s : run' = [run EXCEPT ![job[x].found].child = s]
      BY <1>3, <2>2 DEF ActOnStatus, SetStatus
    <3>2. job[x].found \in Runs /\ run[job[x].found].child # "none" /\ At(x, "act")
      BY <1>3, <2>2 DEF ActOnStatus, Now, Status
    <3> QED
      BY <1>1, <3>1, <3>2 DEF Tables, RunType
  <2> QED
    BY <2>1, <2>2
<1>4. CASE ActRemove(x)
  <2>1. CASE job[x].found = "own"
    BY <1>2, <1>4, <2>1 DEF ActRemove
  <2>2. CASE job[x].found # "own"
    <3>1. run' = [run EXCEPT ![job[x].found].child = "none"] /\ At(x, "act")
      BY <1>4, <2>2 DEF ActRemove
    <3> QED
      BY <1>1, <3>1 DEF Tables, RunType
  <2> QED
    BY <2>1, <2>2
<1> QED
  BY <1>2, <1>3, <1>4
     DEF ActionStep, EnsureSync, Count, Find, Mark, Reload, ActOnNothing, ActFails, WriteOutcome,
         WriteFailed, Provision, Create, Record, RecordError, outsideProvision

\* Where an actor may go.
Near == {"sync", "count", "find", "mark", "act"}

LEMMA ActionMoves ==
    ASSUME TypeOK, NEW x \in Actors, ActionStep(x)
    PROVE  /\ job[x].at # "idle" /\ job'[x].at # "sync"
           /\ job'[x].at = "count" => job[x].at = "sync"
           /\ job'[x].at = "find" => Count(x)
           /\ job'[x].at \in {"mark", "act"} => Find(x) \/ Mark(x)
           /\ Count(x) \/ UNCHANGED since
<1>t. Tables /\ Bounds /\ Jobs
  BY TypeParts
<1>0. /\ job[x] \in JobType /\ job[x].next \in Places \ Near
      /\ job[x].next \in {"idle", "insert", "attach", "accept", "sweep"}
  BY <1>t DEF Jobs, JobType, Places, Near
<1>1. ASSUME NEW place \in Places, Go(x, place) PROVE job'[x].at = place
  BY <1>0, <1>1, <1>t, GotoFacts DEF Go, Becomes, Jobs
<1>2. CASE EnsureSync(x)
  <2> DEFINE place == CASE Synced(x).saw.state = "PAUSED" -> "count"
                        [] Synced(x).saw.state = "RUNNING" -> job[x].next
                        [] OTHER -> "lock"
  <2>1. place \in Places /\ place \in {"count", "lock", job[x].next}
    BY <1>0 DEF Places
  <2>2. Synced(x) \in JobType /\ Becomes(x, Goto(Synced(x), place))
    BY <1>2, <1>t, SyncType DEF EnsureSync
  <2> HIDE DEF place
  <2>3. job'[x].at = place
    BY <1>t, <2>1, <2>2, GotoFacts DEF Becomes, Jobs
  <2> QED
    BY <1>0, <1>2, <2>1, <2>3 DEF EnsureSync, At
<1>3. CASE Count(x)
  <2>1. job'[x].at \in {"refused", "idle", "find"}
    BY <1>1, <1>3 DEF Count, Quit, Places
  <2> QED
    BY <1>3, <2>1 DEF Count, At
<1>4. CASE Find(x) \/ Mark(x)
  <2>1. CASE Find(x)
    <3>0. PICK place \in {"mark", "act"} :
              place = IF job[x].todo = "refresh" THEN "mark" ELSE "act"
      OBVIOUS
    <3>1. PICK c : Becomes(x, [job[x] EXCEPT !.at = place, !.found = c])
      BY <2>1, <3>0 DEF Find
    <3>2. [job[x] EXCEPT !.at = place, !.found = c].at = place
      BY <1>0 DEF JobType
    <3> QED
      BY <1>t, <2>1, <3>1, <3>2 DEF Find, At, outsideAction, Becomes, Jobs
  <2>2. CASE Mark(x)
    BY <1>0, <1>t, <2>2 DEF Mark, At, outsideAction, Becomes, Jobs, JobType
  <2> QED
    BY <1>4, <2>1, <2>2
<1>5. CASE Reload(x)
  <2>1. job'[x].at = "lock"
    BY <1>0, <1>5, <1>t DEF Reload, Becomes, Jobs, JobType
  <2> QED
    BY <1>5, <2>1 DEF Reload, At, outsideAction
<1>6. CASE ActOnNothing(x)
  <2>1. job'[x].at \in {"lock", "reload", "write"}
    BY <1>1, <1>6 DEF ActOnNothing, Places
  <2> QED
    BY <1>6, <2>1 DEF ActOnNothing, At, outsideAction
<1>7. CASE ActOnStatus(x)
  <2>1. job'[x].at = "write"
    BY <1>1, <1>7 DEF ActOnStatus, Places
  <2> QED
    BY <1>7, <2>1 DEF ActOnStatus, At, outsideAction
<1>8. CASE ActRemove(x)
  <2> DEFINE went == Goto(job[x], IF job[x].todo = "refresh" THEN "reload" ELSE "write")
  <2>1. went \in JobType /\ went.at \in {"reload", "write"}
    <3>1. PICK place \in {"reload", "write"} : went = Goto(job[x], place)
      OBVIOUS
    <3>2. place \in Places
      BY DEF Places
    <3> HIDE DEF went
    <3> QED
      BY <1>0, <3>1, <3>2, GotoType, GotoFacts
  <2>2. \/ Forget(job[x].p, [job EXCEPT ![x] = went])
        \/ Becomes(x, went)
    BY <1>8 DEF ActRemove
  <2> HIDE DEF went
  <2>3. job'[x].at = went.at
    BY <1>t, <2>1, <2>2, AgedFacts DEF Forget, Becomes, Jobs
  <2> QED
    BY <1>8, <2>1, <2>3 DEF ActRemove, At, outsideAction
<1>9. CASE ActFails(x)
  <2>1. job'[x].at = "failed"
    BY <1>1, <1>9 DEF ActFails, Places
  <2> QED
    BY <1>9, <2>1 DEF ActFails, At, outsideAction
<1>10. CASE WriteOutcome(x)
  <2>1. job'[x].at = job[x].next
    BY <1>0, <1>1, <1>10 DEF WriteOutcome
  <2> QED
    BY <1>0, <1>10, <2>1 DEF WriteOutcome, At, outsideAction, Near
<1>11. CASE WriteFailed(x)
  <2>1. job'[x].at \in {"refused", "idle"}
    BY <1>1, <1>11 DEF WriteFailed, Quit, Places
  <2> QED
    BY <1>11, <2>1 DEF WriteFailed, At, outsideAction
<1>12. CASE Provision(x)
  <2>1. job'[x].at = "create"
    <3>1. CASE Go(x, "create")
      BY <1>1, <3>1 DEF Places
    <3>2. ASSUME NEW p, Becomes(x, [job[x] EXCEPT !.at = "create", !.p = p])
          PROVE  job'[x].at = "create"
      BY <1>0, <1>t, <3>2 DEF Becomes, Jobs, JobType
    <3> QED
      BY <1>12, <3>1, <3>2 DEF Provision
  <2> QED
    BY <1>12, <2>1 DEF Provision, At, outsideProvision
<1>13. CASE Create(x)
  BY <1>13, <1>t, LoadedFacts DEF Create, At, outsideProvision
<1>14. CASE Record(x) \/ RecordError(x)
  <2>1. job'[x].at = job[x].next
    BY <1>0, <1>1, <1>14 DEF Record, RecordError
  <2> QED
    BY <1>0, <1>14, <2>1 DEF Record, RecordError, At, outsideProvision, Near
<1> QED
  BY <1>2, <1>3, <1>4, <1>5, <1>6, <1>7, <1>8, <1>9, <1>10, <1>11, <1>12, <1>13, <1>14
     DEF ActionStep

\* What the others hold while one acts.
LEMMA ActionLeaves ==
    ASSUME TypeOK, NEW x \in Actors, ActionStep(x), NEW y \in Actors, y # x
    PROVE  /\ job'[y].at = job[y].at /\ job'[y].p = job[y].p /\ job'[y].todo = job[y].todo
           /\ job'[y].found \in Runs => job'[y].found = job[y].found
           /\ since'[y] = since[y]
<1>t. Tables /\ Bounds /\ Jobs
  BY TypeParts
<1>1. since'[y] = since[y]
  BY <1>t, ActionMoves DEF Count, Looks, Bounds
<1>2. ASSUME NEW j, Becomes(x, j) PROVE job'[y] = job[y]
  BY <1>2, <1>t DEF Becomes, Jobs
<1>3. CASE ActRemove(x)
  <2> DEFINE went == Goto(job[x], IF job[x].todo = "refresh" THEN "reload" ELSE "write")
  <2>1. \/ Forget(job[x].p, [job EXCEPT ![x] = went])
        \/ Becomes(x, went)
    BY <1>3 DEF ActRemove
  <2> HIDE DEF went
  <2>2. CASE Forget(job[x].p, [job EXCEPT ![x] = went])
    <3>1. job'[y] = Aged(job[y], job[x].p) /\ job[y] \in JobType
      BY <1>t, <2>2 DEF Forget, Jobs
    <3>2. "own" \notin Runs /\ "gone" \notin Runs
      OBVIOUS
    <3> QED
      BY <1>1, <3>1, <3>2, AgedFacts
  <2> QED
    BY <1>1, <1>2, <2>1, <2>2
<1>4. CASE ~ActRemove(x)
  <2>1. \E j : Becomes(x, j)
    BY <1>4 DEF ActionStep, EnsureSync, Count, Quit, Find, Mark, Reload, ActOnNothing, ActOnStatus,
       ActFails, WriteOutcome, WriteFailed, Provision, Create, Record, RecordError, Go
  <2> QED
    BY <1>1, <1>2, <2>1
<1> QED
  BY <1>3, <1>4

LEMMA FindMine ==
    ASSUME TypeOK, SparingInv, NEW x \in Actors, Find(x), Mine(x)
    PROVE  /\ job'[x].p = job[x].p /\ job'[x].todo = job[x].todo
           /\ job'[x].found \in Runs =>
                 /\ run[job'[x].found].home = job[x].p
                 /\ run[job'[x].found].state # "ABSENT"
<1>t. Jobs
  BY TypeParts
<1>1. PICK c, place, found :
          /\ c \in Candidates(job[x])
          /\ Becomes(x, [job[x] EXCEPT !.at = place, !.found = found])
          /\ found \in {"none", c}
  BY DEF Find
<1>2. job'[x].p = job[x].p /\ job'[x].todo = job[x].todo /\ job'[x].found = found
  BY <1>1, <1>t DEF Becomes, Jobs, JobType
<1>3. c \in Runs => run[c].home = job[x].p /\ run[c].child # "none"
  BY <1>1 DEF Candidates, Status
<1> QED
  BY <1>1, <1>2, <1>3 DEF SparingInv

\* The commits and Docker calls of parent_runtime.py spare who they should.
LEMMA ActionSpares ==
    ASSUME TypeOK, SparingInv, NEW x \in Actors, ActionStep(x)
    PROVE  SparingInv'
<1>t. Jobs /\ Bounds
  BY TypeParts
<1>1. RunsKept
  BY ActionRuns DEF RunsKept, SparingInv
<1>2. ASSUME NEW y \in Actors, y # x PROVE Kept(y)
  <2>1. y \in Runs /\ job[y].at # "idle" => run'[y].state = "ACTIVE"
    BY ActionRuns DEF SparingInv, Mine
  <2> QED
    BY <1>2, <2>1, ActionLeaves DEF Kept
<1>3. Mine(x)'
  <2>0. Mine(x)
    BY DEF SparingInv
  <2>1. x \in Runs => run'[x].state = "ACTIVE"
    BY <2>0, ActionMoves, ActionRuns DEF Mine
  <2>2. x = Reconciler => job'[x].at \notin {"sync", "count"}
    BY <2>0, ActionMoves DEF Mine
  <2>3. ASSUME NEW r \in Runs PROVE run'[r].state = run[r].state /\ run'[r].home = run[r].home
    BY ActionRuns
  <2>4. CASE Find(x)
    <3>1. UNCHANGED since /\ (Answers(x)' => Answers(x))
      BY <2>2, <2>4, FindMine, <2>0 DEF Find, At, Answers, Careful, outsideAction
    <3>2. job'[x].p = job[x].p /\ run' = run
      BY <2>0, <2>4, FindMine DEF Find
    <3>3. Answers(x)' => \A r \in Runs :
              run'[r].home = job'[x].p /\ run'[r].state = "ACTIVE" => r \in since'[x]
      BY <2>0, <3>1, <3>2 DEF Mine
    <3>4. job'[x].found \in Runs =>
              run'[job'[x].found].home = job'[x].p /\ run'[job'[x].found].state # "ABSENT"
      BY <2>0, <2>4, <3>2, FindMine
    <3> QED
      BY <2>1, <2>2, <3>3, <3>4 DEF Mine
  <2>5. CASE Mark(x)
    <3>1. /\ job'[x].p = job[x].p /\ job'[x].todo = job[x].todo /\ job'[x].found = job[x].found
          /\ job'[x].at = "act" /\ job[x].at = "mark" /\ UNCHANGED since
      BY <1>t, <2>5 DEF Mark, At, outsideAction, Becomes, Jobs, JobType
    <3>2. Answers(x)' => Answers(x)
      BY <3>1 DEF Answers, Careful
    <3> QED
      BY <2>0, <2>1, <2>2, <2>3, <3>1, <3>2 DEF Mine
  <2>6. CASE Count(x)
    <3>1. job'[x].at \in {"refused", "idle", "find"}
      <4>1. ASSUME NEW place \in Places, Go(x, place) PROVE job'[x].at = place
        BY <1>t, <4>1, GotoFacts DEF Go, Becomes, Jobs
      <4> QED
        BY <2>6, <4>1 DEF Count, Quit, Places
    <3>2. CASE job'[x].at # "find"
      BY <2>1, <3>1, <3>2 DEF Mine, Answers
    <3>3. CASE job'[x].at = "find"
      <4>1. Go(x, "find") /\ ~(Exclusive(job[x].todo) /\ Busy(job[x].p)) /\ job[x].at = "count"
        <5>1. ASSUME NEW place \in Places, Go(x, place) PROVE job'[x].at = place
          BY <1>t, <5>1, GotoFacts DEF Go, Becomes, Jobs
        <5> QED
          BY <2>6, <3>3, <5>1 DEF Count, Quit, At, Places
      <4>2. job'[x].p = job[x].p /\ job'[x].todo = job[x].todo
        BY <1>t, <4>1, GotoFacts DEF Go, Becomes, Jobs, Places, Resting
      <4>3. CASE job[x].todo = "pause"
        BY <2>0, <2>1, <2>2, <2>3, <2>6, <3>3, <4>1, <4>2, <4>3
           DEF Mine, Answers, Careful, Count
      <4>4. CASE job[x].todo # "pause"
        <5>1. Careful(x)' => ~Busy(job[x].p)
          BY <2>0, <4>1, <4>2, <4>4 DEF Careful, Exclusive, Mine
        <5> QED
          BY <2>1, <2>2, <2>3, <3>3, <4>2, <5>1 DEF Mine, Answers, Busy
      <4> QED
        BY <4>3, <4>4
    <3> QED
      BY <3>2, <3>3
  <2>7. CASE ~Find(x) /\ ~Mark(x) /\ ~Count(x)
    BY <2>1, <2>2, <2>7, ActionMoves DEF Mine, Answers
  <2> QED
    BY <2>4, <2>5, <2>6, <2>7
<1> QED
  BY <1>1, <1>2, <1>3, SparingKept

\* So do those who call it.
LEMMA RequestSpares ==
    ASSUME TypeOK, SparingInv, NEW t \in Threads, RequestStep(t)
    PROVE  SparingInv'
<1>t. Jobs /\ Tables
  BY TypeParts
<1>1. UNCHANGED since /\ job'[t].at \in {"idle", "lock", "sync", "attach", "count"}
      /\ \A y \in Actors : y # t => job'[y] = job[y]
  <2>1. ASSUME NEW j, Ask(t, j)
        PROVE  /\ job'[t] = j /\ UNCHANGED since
               /\ \A y \in Actors : y # t => job'[y] = job[y]
    BY <1>t, <2>1 DEF Ask, Becomes, Jobs
  <2>2. \A p, place, todo, next : Start(p, place, todo, next).at = place
    BY DEF Start
  <2>3. ASSUME NEW next, Ensure(t, next)
        PROVE  UNCHANGED since /\ job'[t].at \in {"lock", "sync"}
               /\ \A y \in Actors : y # t => job'[y] = job[y]
    <3>1. PICK p : Ask(t, Start(p, IF Load(p).state \in {"ABSENT", "ERROR"} THEN "lock" ELSE "sync",
                                "resume", next))
      BY <2>3 DEF Ensure
    <3>2. PICK place \in {"lock", "sync"} :
              place = IF Load(p).state \in {"ABSENT", "ERROR"} THEN "lock" ELSE "sync"
      OBVIOUS
    <3>3. Ask(t, Start(p, place, "resume", next))
      BY <3>1, <3>2, Zenon
    <3> QED
      BY <2>1, <2>2, <3>2, <3>3
  <2>4. CASE Insert(t)
    BY <1>t, <2>4, GotoFacts DEF Insert, Go, Becomes, Jobs, Places
  <2>5. CASE ~Insert(t)
    <3>1. CASE AskEnsure(t)
      BY <2>3, <3>1 DEF AskEnsure
    <3>2. ASSUME NEW old \in Runs, AskRetry(t, old), ~Ensure(t, "attach")
          PROVE  Ask(t, Start(run[old].home, "attach", "resume", "attach"))
      BY <3>2 DEF AskRetry
    <3>3. CASE \E old \in Runs : AskRetry(t, old)
      BY <2>1, <2>2, <2>3, <3>2, <3>3
    <3>4. CASE AskProvision(t)
      BY <2>1, <2>2, <3>4 DEF AskProvision
    <3>5. CASE \E p \in Parents, action \in {"resume", "pause", "refresh", "destroy"} :
                  AskAction(t, p, action)
      BY <2>1, <2>2, <3>5 DEF AskAction
    <3> QED
      BY <2>5, <3>1, <3>3, <3>4, <3>5 DEF RequestStep
  <2> QED
    BY <2>4, <2>5
<1>2. \/ UNCHANGED run
      \/ \E r \in Runs : \E p :
            run[r].state = "ABSENT" /\ run' = [run EXCEPT ![r] = NewRun(p)]
  BY DEF RequestStep, AskEnsure, AskProvision, AskRetry, AskAction, Ensure, Ask, Insert
<1>3. RunsKept
  BY <1>t, <1>2 DEF RunsKept, SparingInv, NewRun, Tables, RunType
<1>4. ASSUME NEW y \in Actors, y # t PROVE Kept(y)
  BY <1>t, <1>1, <1>2, <1>4 DEF Kept, SparingInv, Mine, Tables, RunType
<1>5. Mine(t)'
  BY <1>1 DEF Mine, Answers, Careful
<1> QED
  BY <1>3, <1>4, <1>5, SparingKept

LEMMA RunSpares ==
    ASSUME TypeOK, SparingInv, NEW r \in Runs, RunStep(r)
    PROVE  SparingInv'
<1>t. Jobs /\ Tables /\ Bounds
  BY TypeParts
<1>0. Mine(r)
  BY DEF SparingInv
<1>1. \A y \in Actors : y # r => job'[y] = job[y] /\ since[y] \subseteq since'[y]
  BY <1>t DEF RunStep, Dispatch, LoadParent, Accept, Launch, Verdict, RemoveChild, Go, Becomes,
     outsideRun, Jobs, Bounds
<1>2. ASSUME NEW place \in Places, Go(r, place) PROVE job'[r].at = place
  BY <1>t, <1>2, GotoFacts DEF Go, Becomes, Jobs
<1>3. /\ job'[r].at \in {"idle", "load", "count", "launch", "refused", "execute"}
      /\ job'[r].at # "idle" => run'[r].state = "ACTIVE"
  <2>1. CASE Dispatch(r)
    BY <1>t, <1>2, <2>1 DEF Dispatch, Places, Tables, RunType
  <2>2. CASE LoadParent(r)
    <3>1. \A p : Start(p, "count", "resume", "accept").at = "count"
      BY DEF Start
    <3>2. Goto(job[r], "launch").at = "launch" /\ Goto(job[r], "refused").at = "refused"
      BY <1>t, GotoFacts DEF Jobs, Places
    <3> QED
      BY <1>0, <1>t, <2>2, <3>1, <3>2 DEF LoadParent, Becomes, Jobs, At, Mine
  <2>3. CASE Accept(r)
    BY <1>0, <1>2, <2>3 DEF Accept, At, Mine, Places
  <2>4. CASE Launch(r)
    BY <1>0, <1>t, <1>2, <2>4 DEF Launch, At, Mine, Places, Tables, RunType
  <2>5. CASE Verdict(r)
    BY <1>2, <2>5 DEF Verdict, Places
  <2>6. CASE RemoveChild(r)
    BY <1>0, <2>6 DEF RemoveChild, Mine
  <2> QED
    BY <2>1, <2>2, <2>3, <2>4, <2>5, <2>6 DEF RunStep
<1>4. \A q \in Runs : q # r => run'[q] = run[q]
  BY <1>t DEF RunStep, Dispatch, LoadParent, Accept, Launch, Verdict, RemoveChild, Tables, RunType,
     outsideRun
<1>5. /\ run'[r].home = run[r].home
      /\ run[r].state # "ABSENT" => run'[r].state # "ABSENT"
      /\ run'[r].child # "none" => run'[r].state # "ABSENT"
      /\ run'[r].state = "ACTIVE" => run[r].state = "ACTIVE" \/ \A y \in Actors : r \in since'[y]
  <2>1. CASE Dispatch(r)
    BY <1>t, <2>1 DEF Dispatch, Tables, RunType
  <2>2. CASE LoadParent(r) \/ Accept(r)
    BY <2>2 DEF LoadParent, Accept, SparingInv
  <2>3. CASE Launch(r)
    BY <1>0, <1>t, <2>3 DEF Launch, At, Mine, Tables, RunType
  <2>4. CASE Verdict(r) \/ RemoveChild(r)
    BY <1>t, <2>4 DEF Verdict, RemoveChild, Tables, RunType
  <2> QED
    BY <2>1, <2>2, <2>3, <2>4 DEF RunStep
<1>6. RunsKept
  BY <1>4, <1>5 DEF RunsKept, SparingInv
<1>7. ASSUME NEW y \in Actors, y # r PROVE Kept(y)
  BY <1>1, <1>4, <1>7 DEF Kept, SparingInv, Mine
<1>8. Mine(r)'
  BY <1>3 DEF Mine, Answers
<1> QED
  BY <1>6, <1>7, <1>8, SparingKept

LEMMA ReconcilerSpares ==
    ASSUME TypeOK, SparingInv, ReconcileStep
    PROVE  SparingInv'
<1>t. Jobs /\ Tables /\ Bounds
  BY TypeParts
<1> DEFINE x == Reconciler
<1>1. UNCHANGED run /\ \A y \in Actors : y # x => job'[y] = job[y] /\ since'[y] = since[y]
  BY <1>t DEF ReconcileStep, ListParents, NextParent, PassEnds, Examine, Go, Becomes, Looks,
     outsidePass, Jobs, Bounds
<1>2. RunsKept
  BY <1>1 DEF RunsKept, SparingInv
<1>3. ASSUME NEW y \in Actors, y # x PROVE Kept(y)
  BY <1>1, <1>3 DEF Kept, SparingInv, Mine
<1>4. ASSUME NEW place \in Places, Go(x, place) PROVE job'[x].at = place
  BY <1>t, <1>4, GotoFacts DEF Go, Becomes, Jobs
<1>5. ASSUME job'[x].at \in {"idle", "sweep", "examine", "lock"} PROVE Mine(x)'
  BY <1>5 DEF Mine, Answers
<1>6. Mine(x)'
  <2>1. CASE ListParents
    BY <1>4, <1>5, <2>1 DEF ListParents, Places
  <2>2. CASE NextParent
    <3>1. \A p : Start(p, "examine", "resume", "sweep").at = "examine"
      BY DEF Start
    <3> QED
      BY <1>5, <1>t, <2>2, <3>1 DEF NextParent, Becomes, Jobs
  <2>3. CASE PassEnds
    BY <1>4, <1>5, <2>3 DEF PassEnds, Places
  <2>4. CASE Examine
    <3>1. Synced(x) \in JobType /\ Synced(x).p = job[x].p /\ since'[x] = {}
      BY <1>t, <2>4, SyncType, SyncedFacts DEF Examine, Looks, Bounds
    <3>2. CASE Go(x, "sweep")
      BY <1>4, <1>5, <3>2 DEF Places
    <3>3. ASSUME NEW place \in {"count", "lock"}, NEW todo \in {"pause", "refresh", "resume"},
                 Becomes(x, [Synced(x) EXCEPT !.at = place, !.todo = todo])
          PROVE  job'[x].at = place /\ job'[x].todo = todo /\ job'[x].p = job[x].p
      BY <1>t, <3>1, <3>3 DEF Becomes, Jobs, JobType
    <3>4. \/ Go(x, "sweep")
          \/ Becomes(x, [Synced(x) EXCEPT !.at = "lock", !.todo = "resume"])
          \/ /\ ~Busy(Synced(x).p)
             /\ \E todo \in {"pause", "refresh"} :
                   Becomes(x, [Synced(x) EXCEPT !.at = "count", !.todo = todo])
      BY <2>4 DEF Examine
    <3>5. CASE Becomes(x, [Synced(x) EXCEPT !.at = "lock", !.todo = "resume"])
      BY <1>5, <3>3, <3>5
    <3>6. ASSUME ~Busy(Synced(x).p), NEW todo \in {"pause", "refresh"},
                 Becomes(x, [Synced(x) EXCEPT !.at = "count", !.todo = todo])
          PROVE  Mine(x)'
      <4>1. job'[x].at = "count" /\ job'[x].todo = todo /\ job'[x].p = job[x].p
        BY <3>3, <3>6
      <4>2. \A r \in Runs : ~(run'[r].home = job'[x].p /\ run'[r].state = "ACTIVE")
        BY <1>1, <3>1, <3>6, <4>1 DEF Busy
      <4> QED
        BY <4>1, <4>2 DEF Mine
    <3> QED
      BY <3>2, <3>4, <3>5, <3>6
  <2> QED
    BY <2>1, <2>2, <2>3, <2>4 DEF ReconcileStep
<1> QED
  BY <1>2, <1>3, <1>6, SparingKept

\* A step of nobody's.
LEMMA OthersSpare ==
    ASSUME TypeOK, SparingInv, UNCHANGED <<run, since>>,
           \A y \in Actors :
              /\ job'[y].at = job[y].at /\ job'[y].p = job[y].p /\ job'[y].todo = job[y].todo
              /\ job'[y].found \in Runs => job'[y].found = job[y].found
    PROVE  SparingInv'
<1>1. RunsKept
  BY DEF RunsKept, SparingInv
<1>2. \A y \in Actors : Kept(y)
  BY DEF Kept, SparingInv, Mine
<1> QED
  BY <1>1, <1>2, KeptMine DEF SparingInv, RunsKept

\* What a container's loss does to the locals.
LEMMA LossLeaves ==
    ASSUME TypeOK, NEW p \in Parents, LoseContainer(p), NEW y \in Actors
    PROVE  /\ job'[y].at = job[y].at /\ job'[y].p = job[y].p /\ job'[y].todo = job[y].todo
           /\ job'[y].found \in Runs => job'[y].found = job[y].found
<1>t. Jobs
  BY TypeParts
<1>1. job'[y] = Aged(job[y], p) \/ job' = job
  BY DEF LoseContainer, Forget
<1>2. "own" \notin Runs /\ "gone" \notin Runs /\ job[y] \in JobType
  BY <1>t DEF Jobs
<1> QED
  BY <1>1, <1>2, AgedFacts

LEMMA SparingNext == TypeOK /\ SparingInv /\ [Next]_vars => SparingInv'
<1> SUFFICES ASSUME TypeOK, SparingInv, [Next]_vars PROVE SparingInv'
  OBVIOUS
<1>1. ASSUME NEW p \in Parents, MakeDue(p) PROVE SparingInv'
  BY <1>1, OthersSpare DEF MakeDue
<1>2. ASSUME NEW p \in Parents, LoseContainer(p) PROVE SparingInv'
  BY <1>2, LossLeaves, OthersSpare DEF LoseContainer
<1>3. CASE Crash
  <2>1. \A y \in Actors : job'[y] = NoJob
    BY <1>3 DEF Crash
  <2>2. \A y \in Actors : Mine(y)'
    BY <2>1 DEF Mine, Answers, NoJob
  <2> QED
    BY <1>3, <2>2 DEF SparingInv, Crash
<1>4. CASE UNCHANGED vars
  BY <1>4, OthersSpare DEF vars
<1> QED
  BY <1>1, <1>2, <1>3, <1>4, ActionSpares, RequestSpares, RunSpares, ReconcilerSpares DEF Next

\* Who acts on a container does so in a step of its own.
LEMMA HitByAction ==
    ASSUME TypeOK, SparingInv, Next, NEW x \in Actors, NEW r \in Runs, Hit(x, r)
    PROVE  ActionStep(x)
<1>t. Jobs
  BY TypeParts
<1>1. SUFFICES ASSUME ~ActionStep(x) PROVE job'[x].at = job[x].at \/ UNCHANGED <<box, run>>
  BY DEF Hit, At
<1>2. ASSUME NEW y \in Actors, ActionStep(y) PROVE job'[x].at = job[x].at
  BY <1>1, <1>2, ActionLeaves
<1>3. ASSUME NEW t \in Threads, RequestStep(t) PROVE job'[x].at = job[x].at \/ UNCHANGED <<box, run>>
  <2>1. CASE Insert(t)
    BY <1>t, <2>1 DEF Insert, At, Go, Becomes, Jobs, Hit
  <2>2. CASE ~Insert(t)
    BY <1>3, <2>2 DEF RequestStep, AskEnsure, AskProvision, AskRetry, AskAction, Ensure, Ask
  <2> QED
    BY <2>1, <2>2
<1>4. ASSUME NEW q \in Runs, RunStep(q) PROVE job'[x].at = job[x].at
  BY <1>t, <1>4 DEF RunStep, Dispatch, LoadParent, Accept, Launch, Verdict, RemoveChild, At, Go,
     Becomes, Jobs, Hit
<1>5. CASE ReconcileStep
  BY <1>t, <1>5 DEF ReconcileStep, ListParents, NextParent, PassEnds, Examine, At, Go, Becomes,
     Jobs, Hit
<1>6. ASSUME NEW p \in Parents, MakeDue(p) \/ LoseContainer(p) PROVE job'[x].at = job[x].at
  BY <1>6, LossLeaves DEF MakeDue
<1>7. CASE Crash
  BY <1>7 DEF Crash
<1> QED
  BY <1>2, <1>3, <1>4, <1>5, <1>6, <1>7 DEF Next

\* For any number of requests, parents, runs and mishaps: a refresh or a destroy, and a
\* pause by the reconciler, never touch the parent's container or the sandbox of a run that
\* was active when they looked (parent_action, reconcile_parents).
THEOREM OlderRunsSparedHolds == Spec => OlderRunsSpared
<1>1. Init => SparingInv
  BY DEF Init, SparingInv, Mine, Answers, NoJob
<1>2. TypeOK /\ SparingInv /\ [Next]_vars =>
          [\A x \in Actors, r \in Runs : Careful(x) /\ Hit(x, r) => r \in since[x]]_vars
  <2> SUFFICES ASSUME TypeOK, SparingInv, Next,
                      NEW x \in Actors, NEW r \in Runs, Careful(x), Hit(x, r)
               PROVE  r \in since[x]
    OBVIOUS
  <2>1. ActionStep(x) /\ Mine(x) /\ At(x, "act") /\ run[r].state = "ACTIVE"
    BY HitByAction DEF Hit, SparingInv
  <2>2. run[r].home = job[x].p
    BY <2>1, ActionRuns DEF Hit, Mine, At
  <2> QED
    BY <2>1, <2>2 DEF Mine, Answers, At
<1> QED
  BY <1>1, <1>2, TypeInit, TypeNext, SparingNext, PTL DEF Spec, OlderRunsSpared

=============================================================================
