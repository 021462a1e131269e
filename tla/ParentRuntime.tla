---------------------------- MODULE ParentRuntime ----------------------------
(***************************************************************************)
(* api/app/parent_runtime.py: the parent workspaces of one trainer, their  *)
(* rows, their Docker containers, and the runs attached to them. Requests, *)
(* the threads of runs and the reconciler each work in a session of their  *)
(* own; only provisioning takes a lock.                                    *)
(*                                                                         *)
(* A step is one transaction or one Docker call with the local decision    *)
(* that follows it.                                                        *)
(***************************************************************************)
EXTENDS Integers

CONSTANTS
    MaxParents,  \* rows the trainer may have had at the end
    Threads,     \* threads that serve requests
    Runs,        \* runs the trainer may submit
    Reconciler,  \* the thread of _start_reconciler
    Nobody,      \* holds no lock
    MaxAsks,     \* how many requests arrive
    MaxMishaps   \* how often Docker fails, a container is lost or the process dies

Parents == 1..MaxParents    \* in the order of created_at
NoParent == 0
Actors == Threads \union Runs \union {Reconciler}

ASSUME BoundsType == MaxParents \in Nat /\ MaxAsks \in Nat /\ MaxMishaps \in Nat
ASSUME ActorNames ==
    /\ Threads \intersect Runs = {}
    /\ Reconciler \notin Threads \union Runs
    /\ Nobody \notin Actors
    /\ \A r \in Runs : r \notin {"none", "own", "gone"}

VARIABLES
    row,      \* parent_sandboxes: state, cid ("null", "ours": the container there
              \* is, "stale"), timer (refresh_after_at: "unset", "set", "due")
    box,      \* the parents' containers, as Docker sees them
    run,      \* runs: state, home (parent_sandbox_id), child (its sandbox)
    job,      \* the locals of each actor
    lock,     \* holder of _parent_provision_lock
    left,     \* rows the reconciler's pass has still to look at
    asks,     \* requests so far
    mishaps,  \* mishaps so far
    crashed,  \* history: the process has died
    since     \* history: runs dispatched since an actor last looked for active ones

vars == <<row, box, run, job, lock, left, asks, mishaps, crashed, since>>

-----------------------------------------------------------------------------

Live(p) == row[p].state \notin {"ABSENT", "DESTROYED"}
Busy(p) == \E r \in Runs : run[r].home = p /\ run[r].state = "ACTIVE"

\* current_parent: the newest row that is not DESTROYED, if there is one.
Current(p) ==
    \/ p \in Parents /\ Live(p) /\ \A q \in Parents : Live(q) => q <= p
    \/ p = NoParent /\ \A q \in Parents : ~Live(q)

\* The columns as a session has loaded them.
NotLoaded == [state |-> "ABSENT", cid |-> "null"]
View(r) == [state |-> r.state, cid |-> r.cid]
Load(p) == IF p \in Parents THEN View(row[p]) ELSE NotLoaded

\* at: where the actor is; p: the row in hand; todo: the action it was asked for;
\* next: where it goes on when the call on the parent returns; saw: what its
\* session loaded; found: what _find_container or the provisioning returned.
NoJob ==
    [at |-> "idle", p |-> NoParent, todo |-> "resume", next |-> "idle",
     saw |-> NotLoaded, found |-> "none"]

At(x, place) == job[x].at = place

\* Going on somewhere; where the call has returned its locals are gone.
Goto(j, place) ==
    IF place \in {"idle", "sweep", "accept", "launch", "refused"}
    THEN [NoJob EXCEPT !.at = place]
    ELSE [j EXCEPT !.at = place]

Becomes(x, j) == job' = [job EXCEPT ![x] = j]
Go(x, place) == Becomes(x, Goto(job[x], place))

Init ==
    /\ row = [p \in Parents |-> [state |-> "ABSENT", cid |-> "null", timer |-> "unset"]]
    /\ box = [p \in Parents |-> "none"]
    /\ run = [r \in Runs |-> [state |-> "ABSENT", home |-> NoParent, child |-> "none"]]
    /\ job = [x \in Actors |-> NoJob]
    /\ lock = Nobody
    /\ left = {}
    /\ asks = 0 /\ mishaps = 0 /\ crashed = FALSE
    /\ since = [x \in Actors |-> {}]

Mishap == mishaps < MaxMishaps /\ mishaps' = mishaps + 1

\* With a mistake: the row is written as the request decided, whatever it said.
Overwrite(x, s, c) == row' = [row EXCEPT ![job[x].p].state = s, ![job[x].p].cid = c]

\* The commit of a session: only columns that differ from what was loaded are
\* in the UPDATE.
Put(x, s, c) ==
    LET p == job[x].p
        saw == job[x].saw
    IN  row' = [row EXCEPT ![p] = [state |-> IF s = saw.state THEN row[p].state ELSE s,
                                   cid |-> IF c = saw.cid THEN row[p].cid ELSE c,
                                   timer |-> row[p].timer]]

\* The parent's container goes: no id that named it will ever name another.
Aged(j, p) ==
    IF j.p = p
    THEN [j EXCEPT !.saw = [state |-> j.saw.state,
                            cid |-> IF j.saw.cid = "ours" THEN "lost" ELSE j.saw.cid],
                   !.found = IF j.found = "own" THEN "gone" ELSE j.found]
    ELSE j

Forget(p, jobs) ==
    /\ box' = [box EXCEPT ![p] = "none"]
    /\ row' = [row EXCEPT ![p] =
           [state |-> row[p].state, timer |-> row[p].timer,
            cid |-> IF row[p].cid = "ours" THEN "stale" ELSE row[p].cid]]
    /\ job' = [x \in Actors |-> Aged(jobs[x], p)]

-----------------------------------------------------------------------------
(* _sync_parent_state *)

StatusState(status) ==
    CASE status = "running" -> "RUNNING"
      [] status = "paused" -> "PAUSED"
      [] status = "created" -> "PROVISIONING"
      [] OTHER -> "ERROR"

Unsynced(x) == job[x].saw.state \in {"DESTROYED", "ERROR"} \/ job[x].saw.cid = "null"

\* The row is made to say what Docker says of the container it names.
Sync(x) ==
    \/ Unsynced(x) /\ UNCHANGED <<row, mishaps>>
    \/ /\ ~Unsynced(x)
       /\ LET c == job[x].saw.cid
          IN  \/ /\ Put(x, IF c = "ours" THEN StatusState(box[job[x].p]) ELSE "ERROR", c)
                 /\ UNCHANGED mishaps
              \/ Mishap /\ Put(x, "ERROR", c)

\* Its commit makes the session load the row again.
Synced(x) ==
    IF Unsynced(x) THEN job[x] ELSE [job[x] EXCEPT !.saw = View(row'[job[x].p])]

\* ensure_parent after its sync: a paused parent is resumed, a running one will
\* do, anything else is provisioned again.
EnsureSync(x) ==
    /\ At(x, "sync")
    /\ Sync(x)
    /\ Becomes(x, Goto(Synced(x),
                       CASE Synced(x).saw.state = "PAUSED" -> "count"
                         [] Synced(x).saw.state = "RUNNING" -> job[x].next
                         [] OTHER -> "lock"))
    /\ UNCHANGED <<box, run, lock, left, asks, crashed, since>>

-----------------------------------------------------------------------------
(* parent_action *)

\* An exception: a request is answered with an error, a run is given up, a pass
\* of the reconciler ends.
Quit(x) == Go(x, IF x \in Runs THEN "refused" ELSE "idle")

outsideAction == <<lock, left, asks, crashed, since>>

Looks(x) == since' = [since EXCEPT ![x] = {}]

\* With a mistake: a refresh keeps the files, so it is let through.
OnlyDestroy(todo) == todo = "destroy"

\* Only refresh and destroy are refused while a run of the parent is active; what a
\* pause counts it does not use.
Exclusive(todo) == todo \in {"refresh", "destroy"}
Count(x) ==
    /\ At(x, "count")
    /\ IF job[x].todo = "pause" THEN UNCHANGED since ELSE Looks(x)
    /\ IF Exclusive(job[x].todo) /\ Busy(job[x].p) THEN Quit(x) ELSE Go(x, "find")
    /\ UNCHANGED <<row, box, run, lock, left, asks, mishaps, crashed>>

Status(p, c) ==
    IF c = "own" THEN box[p] ELSE IF c \in Runs THEN run[c].child ELSE "none"

\* _find_container: by id, else any container labelled with the parent's id. The
\* execution sandboxes of its runs carry that label too.
Candidates(j) ==
    LET labelled == {c \in {"own"} \union {r \in Runs : run[r].home = j.p} :
                        Status(j.p, c) # "none"}
    IN  CASE j.saw.cid = "ours" -> {"own"}
          [] j.saw.cid # "ours" /\ labelled # {} -> labelled
          [] OTHER -> {"none"}

\* A pause leaves alone a container that was not running when it was found.
Find(x) ==
    /\ At(x, "find")
    /\ \E c \in Candidates(job[x]) :
          Becomes(x, [job[x] EXCEPT
              !.at = IF job[x].todo = "refresh" THEN "mark" ELSE "act",
              !.found = IF job[x].todo = "pause" /\ Status(job[x].p, c) # "running"
                        THEN "none" ELSE c])
    /\ UNCHANGED <<outsideAction, row, box, run, mishaps>>

\* A refresh says so first; what the session had loaded expires.
Mark(x) ==
    /\ At(x, "mark")
    /\ job[x].todo = "refresh"
    /\ Put(x, "REFRESHING", job[x].saw.cid)
    /\ Becomes(x, [job[x] EXCEPT !.at = "act",
                              !.saw = [state |-> "EXPIRED", cid |-> job[x].saw.cid]])
    /\ UNCHANGED <<outsideAction, box, run, mishaps>>

Now(x) == Status(job[x].p, job[x].found)

\* Nothing was found to act on: a resume provisions, a refresh goes on.
ActOnNothing(x) ==
    /\ At(x, "act")
    /\ job[x].found = "none"
    /\ Go(x, CASE job[x].todo = "resume" -> "lock"
               [] job[x].todo = "refresh" -> "reload"
               [] OTHER -> "write")
    /\ UNCHANGED <<outsideAction, row, box, run, mishaps>>

SetStatus(p, c, s) ==
    IF c = "own"
    THEN box' = [box EXCEPT ![p] = s] /\ UNCHANGED run
    ELSE run' = [run EXCEPT ![c].child = s] /\ UNCHANGED box

\* pause, unpause or start the container that was found.
ActOnStatus(x) ==
    /\ At(x, "act")
    /\ \/ job[x].todo = "pause" /\ Now(x) = "running"
          /\ SetStatus(job[x].p, job[x].found, "paused")
       \/ job[x].todo = "resume" /\ Now(x) # "none"
          /\ SetStatus(job[x].p, job[x].found, "running")
    /\ Go(x, "write")
    /\ UNCHANGED <<outsideAction, row, mishaps>>

\* refresh and destroy remove it.
ActRemove(x) ==
    /\ At(x, "act")
    /\ job[x].todo \in {"refresh", "destroy"}
    /\ Now(x) # "none"
    /\ LET went == Goto(job[x], IF job[x].todo = "refresh" THEN "reload" ELSE "write")
       IN  IF job[x].found = "own"
           THEN Forget(job[x].p, [job EXCEPT ![x] = went]) /\ UNCHANGED run
           ELSE /\ run' = [run EXCEPT ![job[x].found].child = "none"]
                /\ Becomes(x, went)
                /\ UNCHANGED <<row, box>>
    /\ UNCHANGED <<outsideAction, mishaps>>

\* The container is no longer what it was when it was found, or Docker fails.
ActFails(x) ==
    /\ \/ At(x, "find") /\ Mishap
       \/ At(x, "act") /\ job[x].found # "none" /\ Mishap
       \/ /\ At(x, "act") /\ job[x].found # "none"
          /\ Now(x) = "none" \/ (job[x].todo = "pause" /\ Now(x) # "running")
          /\ UNCHANGED mishaps
    /\ Go(x, "failed")
    /\ UNCHANGED <<outsideAction, row, box, run>>

\* The refresh reads the user's id from the expired row and goes on to provision.
Reload(x) ==
    /\ At(x, "reload")
    /\ Becomes(x, [job[x] EXCEPT !.at = "lock", !.saw = Load(job[x].p)])
    /\ UNCHANGED <<outsideAction, row, box, run, mishaps>>

Outcome(todo) ==
    CASE todo = "pause" -> "PAUSED" [] todo = "destroy" -> "DESTROYED" [] OTHER -> "RUNNING"

\* The last commit of pause, resume and destroy.
WriteOutcome(x) ==
    /\ At(x, "write")
    /\ Put(x, Outcome(job[x].todo),
           IF job[x].todo = "destroy" THEN "null" ELSE job[x].saw.cid)
    /\ Go(x, job[x].next)
    /\ UNCHANGED <<outsideAction, box, run, mishaps>>

\* except DockerException: ERROR is committed, then the caller gets a 502.
WriteFailed(x) ==
    /\ At(x, "failed")
    /\ Put(x, "ERROR", job[x].saw.cid)
    /\ Quit(x)
    /\ UNCHANGED <<outsideAction, box, run, mishaps>>

-----------------------------------------------------------------------------
(* provision_parent *)

outsideProvision == <<run, left, asks, crashed, since>>

\* With a mistake: nobody waits.
NoLock == TRUE
LockFree == lock = Nobody

\* The first row that does not exist yet.
Unused(p) == row[p].state = "ABSENT" /\ \A q \in Parents : q < p => row[q].state # "ABSENT"

NewRow == [state |-> "PROVISIONING", cid |-> "null", timer |-> "unset"]

\* with _parent_provision_lock: the row in hand, or a new one, is PROVISIONING.
Provision(x) ==
    /\ At(x, "lock")
    /\ LockFree
    /\ lock' = x
    /\ \/ /\ job[x].p # NoParent
          /\ Put(x, "PROVISIONING", job[x].saw.cid)
          /\ Go(x, "create")
       \/ /\ job[x].p = NoParent
          /\ \E p \in Parents :
                /\ Unused(p)
                /\ row' = [row EXCEPT ![p] = NewRow]
                /\ Becomes(x, [job[x] EXCEPT !.at = "create", !.p = p])
    /\ UNCHANGED <<outsideProvision, box, mishaps>>

\* _create_or_reuse_parent_container, for the row as it is loaded again; when
\* Docker fails the container may have been created without being started.
Create(x) ==
    /\ At(x, "create")
    /\ LET p == job[x].p
           Loaded(place, c) == [job[x] EXCEPT !.at = place, !.saw = Load(p), !.found = c]
       IN  \/ /\ box' = [box EXCEPT ![p] = "running"]
              /\ Becomes(x, Loaded("record", "own"))
              /\ UNCHANGED mishaps
           \/ /\ Mishap
              /\ \/ UNCHANGED box
                 \/ box[p] = "none" /\ box' = [box EXCEPT ![p] = "created"]
              /\ Becomes(x, Loaded("broken", "none"))
    /\ UNCHANGED <<outsideProvision, row, lock>>

\* With a mistake: the lock is not released on the way out of the except branch.
KeepOnError(x) == lock' = IF At(x, "broken") THEN lock ELSE Nobody

Release(x) == lock' = Nobody

\* The container's id and RUNNING are recorded, and the next refresh is set.
Record(x) ==
    /\ At(x, "record")
    /\ Release(x)
    /\ LET p == job[x].p
           saw == job[x].saw
       IN  row' = [row EXCEPT ![p] =
               [state |-> IF saw.state = "RUNNING" THEN row[p].state ELSE "RUNNING",
                cid |-> CASE saw.cid \in {"ours", "lost"} -> row[p].cid
                          [] saw.cid \in {"null", "stale"} ->
                                 IF job[x].found = "own" THEN "ours" ELSE "stale",
                timer |-> "set"]]
    /\ Go(x, job[x].next)
    /\ UNCHANGED <<outsideProvision, box, mishaps>>

\* Docker failed: the row says ERROR and the caller gets it back.
RecordError(x) ==
    /\ At(x, "broken")
    /\ Release(x)
    /\ Put(x, "ERROR", job[x].saw.cid)
    /\ Go(x, job[x].next)
    /\ UNCHANGED <<outsideProvision, box, mishaps>>

ActionStep(x) ==
    \/ EnsureSync(x) \/ Count(x) \/ Find(x) \/ Mark(x) \/ Reload(x)
    \/ ActOnNothing(x) \/ ActOnStatus(x) \/ ActRemove(x) \/ ActFails(x)
    \/ WriteOutcome(x) \/ WriteFailed(x)
    \/ Provision(x) \/ Create(x) \/ Record(x) \/ RecordError(x)

=============================================================================
