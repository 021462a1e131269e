--------------------------- MODULE ParentWorkspaces ---------------------------
(***************************************************************************)
(* Who works on a trainer's parents: the requests of main.py, the threads  *)
(* of the runs attached to a parent, and the reconciler; what can happen   *)
(* to their containers; and what holds whatever they do to one another.    *)
(***************************************************************************)
EXTENDS ParentRuntime

-----------------------------------------------------------------------------
(* Entry points. *)

\* The job of one that loads row p, to do something and go on at next.
Start(p, place, todo, next) ==
    [at |-> place, p |-> p, todo |-> todo, next |-> next, saw |-> Load(p), found |-> "none"]

Ask(t, j) ==
    /\ At(t, "idle")
    /\ asks < MaxAsks
    /\ asks' = asks + 1
    /\ Becomes(t, j)
    /\ UNCHANGED <<row, box, run, lock, left, mishaps, crashed, since>>

\* ensure_parent: nothing usable is provisioned anew, anything else is synced.
Ensure(t, next) ==
    \E p \in Parents \union {NoParent} :
        /\ Current(p)
        /\ Ask(t, Start(p, IF Load(p).state \in {"ABSENT", "ERROR"} THEN "lock" ELSE "sync",
                        "resume", next))

\* login, workspace and the uploads only ensure a parent; create_run and submit
\* then insert a run.
AskEnsure(t) == \E next \in {"idle", "insert"} : Ensure(t, next)

\* retry keeps the old run's parent unless that is DESTROYED or in ERROR.
AskRetry(t, old) ==
    /\ run[old].state = "OVER"
    /\ IF row[run[old].home].state \in {"DESTROYED", "ERROR"}
       THEN Ensure(t, "attach")
       ELSE Ask(t, Start(run[old].home, "attach", "resume", "attach"))

\* /v1/workspace/{action} on the current row, /admin/parents/{id}/{action} on any.
AskAction(t, p, action) ==
    /\ row[p].state # "ABSENT"
    /\ Ask(t, Start(p, "count", action, "idle"))

\* A resume without a parent, and create_parent of an operator, who also gets
\* past a row in ERROR.
AskProvision(t) ==
    \E p \in Parents \union {NoParent} :
        /\ Current(p)
        /\ Load(p).state \in {"ABSENT", "ERROR"}
        /\ Ask(t, Start(p, "lock", "resume", "idle"))

NewRun(p) == [state |-> "QUEUED", home |-> p, child |-> "none"]

\* The run is inserted, after an ensure only for a parent that is RUNNING; a
\* retry takes no other look at the parent.
Insert(t) ==
    /\ At(t, "insert") \/ At(t, "attach")
    /\ Go(t, "idle")
    /\ LET p == job[t].p
           new == {r \in Runs : run[r].state = "ABSENT"}
       IN  IF new = {} \/ (At(t, "insert") /\ row[p].state # "RUNNING")
           THEN UNCHANGED run
           ELSE \E r \in new : run' = [run EXCEPT ![r] = NewRun(p)]
    /\ UNCHANGED <<row, box, lock, left, asks, mishaps, crashed, since>>

RequestStep(t) ==
    \/ AskEnsure(t) \/ AskProvision(t) \/ Insert(t)
    \/ \E r \in Runs : AskRetry(t, r)
    \/ \E p \in Parents, action \in {"resume", "pause", "refresh", "destroy"} :
          AskAction(t, p, action)

-----------------------------------------------------------------------------
(* The thread of a run, as far as it touches parents. *)

outsideRun == <<row, box, lock, left, asks, mishaps, crashed, since>>

Dispatch(r) ==
    /\ run[r].state = "QUEUED"
    /\ At(r, "idle")
    /\ run' = [run EXCEPT ![r].state = "ACTIVE"]
    /\ Go(r, "load")
    /\ since' = [x \in Actors |-> since[x] \union {r}]
    /\ UNCHANGED <<row, box, lock, left, asks, mishaps, crashed>>

\* The parent is loaded; a paused one is resumed by the thread itself.
LoadParent(r) ==
    /\ At(r, "load")
    /\ Becomes(r, CASE row[run[r].home].state = "PAUSED" ->
                           Start(run[r].home, "count", "resume", "accept")
                    [] row[run[r].home].state = "RUNNING" -> Goto(job[r], "launch")
                    [] OTHER -> Goto(job[r], "refused"))
    /\ UNCHANGED <<outsideRun, run>>

\* After the resume the row, read again, must say RUNNING.
Accept(r) ==
    /\ At(r, "accept")
    /\ Go(r, IF row[run[r].home].state = "RUNNING" THEN "launch" ELSE "refused")
    /\ UNCHANGED <<outsideRun, run>>

\* The execution sandbox is started with the parent's id among its labels.
Launch(r) ==
    /\ At(r, "launch")
    /\ run' = [run EXCEPT ![r].child = "running"]
    /\ Go(r, "execute")
    /\ UNCHANGED outsideRun

\* The verdict is committed. A sandbox that is paused prints nothing more, and
\* the thread waits in its log stream.
Verdict(r) ==
    /\ At(r, "refused") \/ (At(r, "execute") /\ run[r].child # "paused")
    /\ run' = [run EXCEPT ![r].state = "OVER"]
    /\ Go(r, "idle")
    /\ UNCHANGED outsideRun

\* The thread, or later cleanup_orphans, removes what is left of the sandbox.
RemoveChild(r) ==
    /\ run[r].state = "OVER"
    /\ run[r].child # "none"
    /\ run' = [run EXCEPT ![r].child = "none"]
    /\ UNCHANGED <<outsideRun, job>>

RunStep(r) ==
    \/ Dispatch(r) \/ LoadParent(r) \/ Accept(r) \/ Launch(r) \/ Verdict(r) \/ RemoveChild(r)

-----------------------------------------------------------------------------
(* reconcile_parents *)

outsidePass == <<box, run, lock, asks, crashed>>

ListParents ==
    /\ At(Reconciler, "idle")
    /\ left' = {p \in Parents : Live(p)}
    /\ Go(Reconciler, "sweep")
    /\ UNCHANGED <<outsidePass, row, mishaps, since>>

NextParent ==
    /\ At(Reconciler, "sweep")
    /\ \E p \in left :
          /\ left' = left \ {p}
          /\ Becomes(Reconciler, Start(p, "examine", "resume", "sweep"))
    /\ UNCHANGED <<outsidePass, row, mishaps, since>>

PassEnds ==
    /\ At(Reconciler, "sweep")
    /\ left = {}
    /\ Go(Reconciler, "idle")
    /\ UNCHANGED <<outsidePass, row, left, mishaps, since>>

\* With a mistake: errors are for the trainer to sort out.
NeverBroken(s) == FALSE

Broken(s) == s = "ERROR"

\* Sync, then pause what has been idle for long, refresh what is due, provision
\* what is in ERROR; a row with an active run is left alone.
Examine ==
    /\ At(Reconciler, "examine")
    /\ Sync(Reconciler)
    /\ Looks(Reconciler)
    /\ LET j == Synced(Reconciler)
           due == row[j.p].timer = "due"
           Do(place, todo) == Becomes(Reconciler, [j EXCEPT !.at = place, !.todo = todo])
       IN  \/ ~Busy(j.p) /\ j.saw.state = "RUNNING" /\ Do("count", "pause")
           \/ ~Busy(j.p) /\ due /\ Do("count", "refresh")
           \/ ~Busy(j.p) /\ ~due /\ Broken(j.saw.state) /\ Do("lock", "resume")
           \/ /\ Busy(j.p) \/ (~due /\ ~Broken(j.saw.state))
              /\ Go(Reconciler, "sweep")
    /\ UNCHANGED <<outsidePass, left>>

ReconcileStep == ListParents \/ NextParent \/ PassEnds \/ Examine

-----------------------------------------------------------------------------
(* What nobody asked for. *)

\* refresh_after_at passes.
MakeDue(p) ==
    /\ row[p].timer = "set"
    /\ row' = [row EXCEPT ![p].timer = "due"]
    /\ UNCHANGED <<box, run, job, lock, left, asks, mishaps, crashed, since>>

\* A parent's container stops, or is removed behind the control plane's back.
LoseContainer(p) ==
    /\ box[p] # "none"
    /\ Mishap
    /\ \/ Forget(p, job)
       \/ box' = [box EXCEPT ![p] = "exited"] /\ UNCHANGED <<row, job>>
    /\ UNCHANGED <<run, lock, left, asks, crashed, since>>

\* The process dies and starts again: rows and containers are all that is left.
Crash ==
    /\ Mishap
    /\ crashed' = TRUE
    /\ job' = [x \in Actors |-> NoJob]
    /\ lock' = Nobody
    /\ left' = {}
    /\ since' = [x \in Actors |-> {}]
    /\ UNCHANGED <<row, box, run, asks>>

Next ==
    \/ \E t \in Threads : RequestStep(t)
    \/ \E r \in Runs : RunStep(r)
    \/ \E x \in Actors : ActionStep(x)
    \/ ReconcileStep
    \/ \E p \in Parents : MakeDue(p) \/ LoseContainer(p)
    \/ Crash

Spec == Init /\ [][Next]_vars

\* Threads that can run do run, and time passes; whoever waits for the lock gets
\* it, as no holder waits for anything. Nobody has to ask for anything.
FairSpec ==
    /\ Spec
    /\ \A t \in Threads : WF_vars(Insert(t))
    /\ \A r \in Runs : WF_vars(RunStep(r))
    /\ \A x \in Actors : WF_vars(ActionStep(x)) /\ SF_vars(Provision(x))
    /\ WF_vars(ReconcileStep)
    /\ \A p \in Parents : WF_vars(MakeDue(p))

-----------------------------------------------------------------------------

States == {"ABSENT", "PROVISIONING", "RUNNING", "PAUSED", "REFRESHING", "ERROR", "DESTROYED"}
Places ==
    {"idle", "sync", "count", "find", "mark", "act", "reload", "write", "failed", "lock",
     "create", "record", "broken", "insert", "attach", "load", "accept", "launch", "execute",
     "refused", "sweep", "examine"}

\* A session with no row in hand has loaded none.
JobType ==
    {j \in [at : Places, p : Parents \union {NoParent},
            todo : {"resume", "pause", "refresh", "destroy"},
            next : {"idle", "insert", "attach", "accept", "sweep"},
            saw : [state : States \union {"EXPIRED"}, cid : {"null", "ours", "lost", "stale"}],
            found : {"none", "own", "gone"} \union Runs] :
        j.p = NoParent => j.saw.cid = "null"}

TypeOK ==
    /\ row \in [Parents -> [state : States, cid : {"null", "ours", "stale"},
                            timer : {"unset", "set", "due"}]]
    /\ box \in [Parents -> {"none", "created", "running", "paused", "exited"}]
    /\ run \in [Runs -> [state : {"ABSENT", "QUEUED", "ACTIVE", "OVER"},
                         home : Parents \union {NoParent},
                         child : {"none", "running", "paused"}]]
    /\ job \in [Actors -> JobType]
    /\ lock \in Actors \union {Nobody}
    /\ left \in SUBSET Parents
    /\ asks \in 0..MaxAsks /\ mishaps \in 0..MaxMishaps /\ crashed \in BOOLEAN
    /\ since \in [Actors -> SUBSET Runs]

\* A row is in passage only while somebody is bringing it somewhere: as long as
\* the process lives, no interleaving of requests, runs and the reconciler leaves
\* one PROVISIONING or REFRESHING for good.
Provisioning(p) == lock # Nobody /\ job[lock].p = p
Refreshing(p) ==
    \E x \in Actors : job[x].p = p /\ job[x].todo = "refresh"
                      /\ job[x].at \in {"act", "reload", "failed", "lock"}
TransientIsWorkedOn ==
    crashed \/ \A p \in Parents :
        /\ row[p].state = "PROVISIONING" => Provisioning(p)
        /\ row[p].state = "REFRESHING" => Refreshing(p)

\* A refresh or a destroy, whoever asked for it, and whatever the reconciler does, spare
\* the runs that were active when they looked: neither is the container of their parent
\* stopped or removed, nor, taken for it, their own sandbox. Only a run that was
\* dispatched between the look and the deed is hit (parent_action, reconcile_parents).
Careful(x) == x = Reconciler \/ job[x].todo \in {"refresh", "destroy"}
Hit(x, r) ==
    /\ At(x, "act") /\ job'[x].at # "act"
    /\ run[r].state = "ACTIVE"
    /\ \/ run[r].home = job[x].p /\ box' # box
       \/ run'[r].child # run[r].child
OlderRunsSpared ==
    [][\A x \in Actors, r \in Runs : Careful(x) /\ Hit(x, r) => r \in since[x]]_vars

\* A request that was accepted is answered, and a pass of the reconciler ends,
\* whoever else holds or wants the lock.
RequestsEnd == \A x \in Threads \union {Reconciler} : ~At(x, "idle") ~> At(x, "idle")

\* Again and again, a parent nobody uses is what its row says, or gone: the
\* reconciler brings back whatever Docker or another actor broke. Left out are
\* rows without an id and without a date to refresh, which it passes over.
Settled(p) ==
    \/ row[p].state \in {"ABSENT", "DESTROYED"}
    \/ row[p].state = "RUNNING" /\ box[p] = "running"
    \/ row[p].state = "PAUSED" /\ box[p] = "paused"
Unwatched(p) == row[p].state # "ERROR" /\ row[p].cid = "null" /\ row[p].timer = "unset"
Converges == \A p \in Parents : []<>(Settled(p) \/ Busy(p) \/ Unwatched(p))

=============================================================================
