----------------------------- MODULE TaskBundles -----------------------------
(***************************************************************************)
(* api/app/task_bundles.py and the requests of one trainer that go through *)
(* it: tasks are uploaded, submitted, or imported from the incoming        *)
(* directory, become bundles, and runs are made of bundles. The clients    *)
(* are runnerctl, the gateway's terminal and others; the trainer and an    *)
(* operator change files and quotas meanwhile.                             *)
(*                                                                         *)
(* Whether the parent is RUNNING, the queue has room and Harbor is enabled *)
(* is decided elsewhere: a request may be refused for it.                  *)
(***************************************************************************)
EXTENDS TomlValidator, Sequences

CONSTANTS
    Requests,      \* threads that serve the trainer
    Sources,       \* task folders, and archives made by hand
    Task,          \* Task[s]: what is in them
    MaxBundles,    \* bundles there may have been at the end
    MaxRuns,       \* runs there may have been at the end
    MaxUpload,     \* quotas.max_upload_mb
    MaxRuntimes    \* values quotas.max_runtime_seconds may be given

Bundles == 1..MaxBundles
Runs == 1..MaxRuns
None == "none"
Torn == "torn"   \* the bytes of an archive two requests wrote, or one did not finish

\* size in MB; archive: staged as a tar.gz; rooted: task.toml is at the top; tomls:
\* how many there are; links: links or unsafe paths; toml: what task.toml says.
Contents ==
    [size : Nat, archive : BOOLEAN, rooted : BOOLEAN, tomls : Nat, links : BOOLEAN,
     toml : Manifests]

ASSUME TaskType == Task \in [Sources -> Contents] /\ {None, Torn} \intersect Sources = {}
ASSUME LimitsType ==
    /\ MaxBundles \in Nat /\ MaxRuns \in Nat /\ MaxUpload \in Nat
    /\ MaxRuntimes \subseteq Nat /\ MaxRuntimes # {}

VARIABLES
    bundle,   \* task_bundles: state, files (the copy in the workspace), toml
    run,      \* runs: state, bundle, toml, spec, staged (the task.toml in its sandbox)
    job,      \* the locals of each request
    staging,  \* bundles/staging/<user>.tar.gz: the file of that name
    file,     \* what is in each file that ever had that name
    quota,    \* quotas.max_runtime_seconds
    highest   \* history: the highest quota there was

vars == <<bundle, run, job, staging, file, quota, highest>>

-----------------------------------------------------------------------------

\* at: where the request is; src: what it brings, then what was stored; b: its bundle;
\* then: whether a run follows; fd: the staging file it has open; limit: the quota it
\* has loaded. The mode of the run is chosen where it first matters.
NoJob == [at |-> "idle", src |-> None, b |-> 0, then |-> "end", fd |-> 0, limit |-> 0]

At(t, place) == job[t].at = place
Becomes(t, j) == job' = [job EXCEPT ![t] = j]
Go(t, place) == Becomes(t, [job[t] EXCEPT !.at = place])
Ends(t) == Becomes(t, NoJob)

NoBundle == [state |-> "ABSENT", files |-> None, toml |-> None]
NoSpec ==
    [profile |-> "other", cpu |-> 0, memory_gb |-> 0, disk_gb |-> 0, timeout |-> 0,
     task_type |-> "none"]
NoRun == [state |-> "ABSENT", bundle |-> 0, toml |-> None, spec |-> NoSpec, staged |-> None]

Init ==
    /\ bundle = [b \in Bundles |-> NoBundle]
    /\ run = [r \in Runs |-> NoRun]
    /\ job = [t \in Requests |-> NoJob]
    /\ staging = 0 /\ file = <<>>
    /\ quota \in MaxRuntimes /\ highest = quota

-----------------------------------------------------------------------------
(* create_task_bundle *)

outsideBundle == <<run, staging, file, quota, highest>>

Changes(b, row) == bundle' = [bundle EXCEPT ![b] = row]
Absent(b) == bundle[b].state = "ABSENT" /\ \A c \in Bundles : c < b => bundle[c].state # "ABSENT"

\* A request comes with s, or with the staging file f open: the row is committed in
\* UPLOADING, and the quota loaded after that. A request refused before, because the
\* parent is not RUNNING, changes nothing.
Opens(t, s, f, then) ==
    \E b \in Bundles :
        /\ Absent(b)
        /\ Changes(b, [NoBundle EXCEPT !.state = "UPLOADING"])
        /\ Becomes(t, [at |-> "receive", src |-> s, b |-> b, then |-> then, fd |-> f,
                       limit |-> quota])

\* What it reads.
Incoming(t) ==
    CASE job[t].fd = 0 -> job[t].src
      [] job[t].fd # 0 /\ file[job[t].fd] = None -> Torn
      [] OTHER -> file[job[t].fd]

Reject(t) ==
    Changes(job[t].b, [bundle[job[t].b] EXCEPT !.state = "REJECTED"]) /\ Ends(t)

\* The bytes are copied into the bundle's own archive, up to the upload quota.
Receive(t) ==
    /\ At(t, "receive")
    /\ LET s == Incoming(t)
       IN  \/ (s # Torn => Task[s].size > MaxUpload) /\ Reject(t)
           \/ /\ s # Torn => Task[s].size <= MaxUpload
              /\ Becomes(t, [job[t] EXCEPT !.at = "unpack", !.src = s])
              /\ UNCHANGED bundle
    /\ UNCHANGED outsideBundle

\* With a mistake: links are extracted like anything else.
AnyMember(s) == s # Torn
Extractable(s) == s # Torn /\ ~Task[s].links

Found(s) == Task[s].rooted \/ Task[s].tomls = 1

\* _safe_extract, _find_task_toml, the validator, then the copy in the parent's
\* workspace. A bad archive is rejected; what the later ones raise, and what some torn
\* archives raise, is not caught and leaves the row UPLOADING.
Unpack(t) ==
    /\ At(t, "unpack")
    /\ LET b == job[t].b
           s == job[t].src
           fine == Extractable(s) /\ Found(s) /\ Accepts(Task[s].toml, job[t].limit)
       IN  \/ fine /\ Changes(b, [bundle[b] EXCEPT !.files = s]) /\ Go(t, "ready")
           \/ ~Extractable(s) /\ Reject(t)
           \/ (Extractable(s) \/ s = Torn) /\ ~fine /\ Ends(t) /\ UNCHANGED bundle
    /\ UNCHANGED outsideBundle

\* The request goes on to create_run, where quota_for loads the quota.
Submits(t, b) ==
    Becomes(t, [at |-> "insert", src |-> None, b |-> b, then |-> "end", fd |-> 0,
                limit |-> quota])

\* READY is committed, with the text; an import removes the staging file, whosever it
\* is by now.
MakeReady(t) ==
    /\ At(t, "ready")
    /\ LET b == job[t].b
       IN  Changes(b, [bundle[b] EXCEPT !.toml = job[t].src, !.state = "READY"])
    /\ staging' = IF job[t].fd = 0 THEN staging ELSE 0
    /\ IF job[t].then = "run" THEN Submits(t, job[t].b) ELSE Ends(t)
    /\ UNCHANGED <<run, file, quota, highest>>

-----------------------------------------------------------------------------
(* The clients. *)

Brings(t, s, then) == At(t, "idle") /\ Opens(t, s, 0, then) /\ UNCHANGED outsideBundle

\* runnerctl packs a folder with a task.toml in it, and pushes it or runs it.
Pack(s) == Task[s].rooted /\ ~Task[s].archive
Push(t, s) == Pack(s) /\ Brings(t, s, "end")
RunPath(t, s) == Pack(s) /\ Brings(t, s, "run")

\* Anything may be sent to /v1/tasks/upload.
Upload(t, s) == Brings(t, s, "end")

\* The gateway's run_staged: import, then, with a request of its own, run. An
\* archive is read where it is.
RunArchive(t, s) == Task[s].archive /\ Brings(t, s, "run")

\* import_staged_task packs a directory into one file per trainer. tarfile.open(tmp,
\* "w:gz") truncates it, or makes it. Nobody begins when MaxBundles is reached.
Writing(f) == \E t \in Requests : At(t, "packing") /\ job[t].fd = f
PackOpen(t, s) ==
    /\ At(t, "idle") /\ ~Task[s].archive
    /\ \E b \in Bundles : Absent(b)
    /\ LET f == IF staging = 0 THEN Len(file) + 1 ELSE staging
       IN  /\ Becomes(t, [at |-> "packing", src |-> s, b |-> 0, then |-> "run", fd |-> f,
                           limit |-> 0])
           /\ staging' = f
           /\ file' = IF staging = 0 THEN Append(file, None)
                      ELSE [file EXCEPT ![f] = IF Writing(f) THEN Torn ELSE None]
    /\ UNCHANGED <<bundle, run, quota, highest>>

\* It is closed with its last member; what somebody else wrote meanwhile is in it,
\* unless all of that has been overwritten.
PackClose(t) ==
    /\ At(t, "packing")
    /\ \E bytes \in {job[t].src, Torn} :
          /\ file[job[t].fd] = None => bytes = job[t].src
          /\ file' = [file EXCEPT ![job[t].fd] = bytes]
    /\ Becomes(t, [at |-> "packed", src |-> None, b |-> 0, then |-> "run", fd |-> 0,
                   limit |-> 0])
    /\ UNCHANGED <<bundle, run, staging, quota, highest>>

\* tmp.open("rb"), whatever file has the name by now; or it is gone.
PackRead(t) ==
    /\ At(t, "packed")
    /\ IF staging = 0 THEN Ends(t) /\ UNCHANGED bundle ELSE Opens(t, None, staging, "run")
    /\ UNCHANGED outsideBundle

-----------------------------------------------------------------------------
(* create_run and _create_run_record *)

Unused(r) == run[r].state = "ABSENT" /\ \A q \in Runs : q < r => run[q].state # "ABSENT"

\* runnerctl run --bundle: it must be READY, and MaxRuns not be reached.
RunBundle(t, b) ==
    /\ At(t, "idle")
    /\ bundle[b].state = "READY"
    /\ \E r \in Runs : Unused(r)
    /\ Submits(t, b)
    /\ UNCHANGED outsideBundle /\ UNCHANGED bundle

\* A file of the program's own format that leaves a number out passes the validator,
\* and the request fails on it.
Runnable(m, limit, mode) ==
    /\ Accepts(m, limit)
    /\ mode = "harbor" => Normalized(m).task_type = "swarmbench-harbor"
    /\ m.format = "aegisrun" => m.stated

\* The text is validated again, with the quota as it was loaded, or as it is when
\* ensuring the parent has committed meanwhile; or the request is refused.
InsertRun(t) ==
    /\ At(t, "insert")
    /\ LET toml == bundle[job[t].b].toml
       IN  \/ /\ \E limit \in {job[t].limit, quota}, mode \in {"harbor", "probe"} :
                     Runnable(Task[toml].toml, limit, mode)
              /\ \E r \in Runs :
                     /\ Unused(r)
                     /\ run' = [run EXCEPT ![r] =
                            [state |-> "QUEUED", bundle |-> job[t].b, toml |-> toml,
                             spec |-> Normalized(Task[toml].toml), staged |-> None]]
           \/ UNCHANGED run
    /\ Ends(t)
    /\ UNCHANGED <<bundle, staging, file, quota, highest>>

\* With a mistake: the row itself is queued again.
RetryInPlace(t, old) ==
    /\ At(t, "idle")
    /\ run[old].state = "OVER"
    /\ run' = [run EXCEPT ![old].state = "QUEUED"]
    /\ UNCHANGED <<bundle, job, staging, file, quota, highest>>

\* retry copies the columns of the old run; nothing is validated again.
Retry(t, old) ==
    /\ At(t, "idle")
    /\ run[old].state = "OVER"
    /\ \E r \in Runs :
          /\ Unused(r)
          /\ run' = [run EXCEPT ![r] = [run[old] EXCEPT !.state = "QUEUED", !.staged = None]]
    /\ UNCHANGED <<bundle, job, staging, file, quota, highest>>

-----------------------------------------------------------------------------
(* materialize_task_bundle, in the run's thread. *)

\* With a mistake: the file that came with the copy is left in place.
LeaveCopy(r) == bundle[run[r].bundle].files
WriteToml(r) == run[r].toml

\* The workspace copy is copied once more and task.toml is written over it; where
\* the copy is gone, or the run is cancelled or fails before, nothing is staged. What
\* follows is RunExecutor's.
Stage(r) ==
    /\ run[r].state = "QUEUED"
    /\ \/ run' = [run EXCEPT ![r].state = "OVER"]
       \/ /\ bundle[run[r].bundle].files # None
          /\ run' = [run EXCEPT ![r] = [run[r] EXCEPT !.state = "OVER", !.staged = WriteToml(r)]]
    /\ UNCHANGED <<bundle, job, staging, file, quota, highest>>

-----------------------------------------------------------------------------
(* What others do meanwhile. *)

\* Over SFTP the trainer puts other files, or none, in place of the copy.
Tamper(b) ==
    /\ bundle[b].files \in Sources
    /\ \E f \in {None, Torn} : Changes(b, [bundle[b] EXCEPT !.files = f])
    /\ UNCHANGED <<outsideBundle, job>>

UpdateQuota(value) ==
    /\ quota' = value
    /\ highest' = IF value > highest THEN value ELSE highest
    /\ UNCHANGED <<bundle, run, job, staging, file>>

\* The process dies with its requests; rows and files are left as they are.
Crash ==
    /\ job' = [t \in Requests |-> NoJob]
    /\ UNCHANGED <<bundle, run, staging, file, quota, highest>>

RequestStep(t) ==
    \/ \E s \in Sources :
          Push(t, s) \/ RunPath(t, s) \/ Upload(t, s) \/ RunArchive(t, s) \/ PackOpen(t, s)
    \/ \E b \in Bundles : RunBundle(t, b)
    \/ \E old \in Runs : Retry(t, old)
    \/ PackClose(t) \/ PackRead(t)
    \/ Receive(t) \/ Unpack(t) \/ MakeReady(t)
    \/ InsertRun(t)

Next ==
    \/ \E t \in Requests : RequestStep(t)
    \/ \E r \in Runs : Stage(r)
    \/ \E b \in Bundles : Tamper(b)
    \/ \E value \in MaxRuntimes : UpdateQuota(value)
    \/ Crash

Spec == Init /\ [][Next]_vars

-----------------------------------------------------------------------------

Specs ==
    [profile : Profiles \union {"other"}, cpu : Int, memory_gb : Int, disk_gb : Int,
     timeout : Int, task_type : {"none", "swarmbench-harbor"}]

Jobs ==
    [at : {"idle", "packing", "packed", "receive", "unpack", "ready", "insert"},
     src : Sources \union {None, Torn}, b : {0} \union Bundles, then : {"end", "run"},
     fd : 0..Len(file), limit : Nat]

BundleRows ==
    [state : {"ABSENT", "UPLOADING", "REJECTED", "READY"},
     files : Sources \union {None, Torn},
     toml : Sources \union {None}]

RunRows ==
    [state : {"ABSENT", "QUEUED", "OVER"}, bundle : {0} \union Bundles,
     toml : Sources \union {None}, spec : Specs, staged : Sources \union {None}]

\* Every variable has values of its kind; in particular the task.toml of a sandbox is
\* one that came with an upload, whatever was done to the workspace.
TypeOK ==
    /\ bundle \in [Bundles -> BundleRows]
    /\ run \in [Runs -> RunRows]
    /\ job \in [Requests -> Jobs]
    /\ file \in Seq(Sources \union {None, Torn})
    /\ staging \in 0..Len(file)
    /\ quota \in MaxRuntimes /\ highest \in MaxRuntimes /\ quota <= highest

\* A READY bundle is one task, whole: its text is that of something some client packed,
\* within the upload limit, free of links, with one task file, which the validator
\* accepted. Two imports that write the same staging file, a crash in between and a
\* file that disappears never make anything else READY.
Whole(s, limit) ==
    /\ s \in Sources
    /\ Task[s].size <= MaxUpload
    /\ ~Task[s].links
    /\ Found(s)
    /\ Accepts(Task[s].toml, limit)
ReadyIsWhole == \A b \in Bundles : bundle[b].state = "READY" => Whole(bundle[b].toml, highest)

Exists(r) == run[r].state # "ABSENT"

\* No run, first or retried, in either mode, from a task of either format, is granted
\* more than its profile has, or more time than some quota of the trainer allowed.
RunsFit ==
    \A r \in Runs : Exists(r) =>
        LET spec == run[r].spec
        IN  /\ spec.profile \in Profiles
            /\ Fits(spec.profile, spec.cpu, spec.memory_gb)
            /\ spec.disk_gb <= RESOURCE_LIMITS[spec.profile].disk_gb
            /\ spec.timeout <= highest

\* A run of a SwarmBench task has the memory and the disk its file asks for in MB, in
\* whole GB with less than one GB to spare, and no smaller profile would have done.
Covers(gb, mb) == mb <= gb * 1024 /\ gb * 1024 < mb + 1024
RunGetsWhatItAsked ==
    \A r \in Runs : Exists(r) =>
        LET asked == Task[run[r].toml].toml
            spec == run[r].spec
        IN  asked.format = "swarmbench" =>
                /\ spec.cpu = asked.cpu
                /\ Covers(spec.memory_gb, asked.memory)
                /\ Covers(spec.disk_gb, asked.disk)
                /\ \A p \in Profiles :
                       Fits(p, spec.cpu, spec.memory_gb)
                           => RESOURCE_LIMITS[spec.profile].cpu <= RESOURCE_LIMITS[p].cpu

\* The task.toml in a run's sandbox is that of the upload its bundle was made from,
\* and the resources of the run are those it asks for, though the trainer may have
\* changed the copy in the workspace since, and though the run may be a retry.
StagedAsValidated ==
    \A r \in Runs : run[r].staged # None =>
        /\ run[r].staged = bundle[run[r].bundle].toml
        /\ run[r].spec = Normalized(Task[run[r].staged].toml)

-----------------------------------------------------------------------------
(* What a trainer is promised. *)

StageOf(b) ==
    CASE bundle[b].state = "ABSENT" -> "none"
      [] bundle[b].state = "UPLOADING" -> "offered"
      [] bundle[b].state = "REJECTED" -> "refused"
      [] bundle[b].state = "READY" -> "published"

OrderOf(r) ==
    [stage |-> CASE run[r].state = "ABSENT" -> "none"
                 [] run[r].state = "QUEUED" -> "made"
                 [] run[r].state = "OVER" -> "over",
     bundle |-> run[r].bundle, text |-> run[r].toml, grant |-> run[r].spec,
     given |-> run[r].staged]

Contract == INSTANCE TaskContract WITH
                Limits <- MaxRuntimes,
                Passing <- [q \in MaxRuntimes |-> {s \in Sources : Whole(s, q)}],
                Grant <- [s \in Sources |-> Normalized(Task[s].toml)],
                NoText <- None, NoGrant <- NoSpec,
                stage <- [b \in Bundles |-> StageOf(b)],
                text <- [b \in Bundles |-> bundle[b].toml],
                order <- [r \in Runs |-> OrderOf(r)],
                most <- highest

\* Uploads, imports, submissions, retries and the preparation of sandboxes, with all
\* their interleavings and crashes, keep that promise: a bundle is made READY once, with
\* a text that passes, and is not touched afterwards; a run is made once and nothing of
\* it but its sandbox is filled in later; a retry is a new run, like the old one.
ImplementsTaskContract == Contract!Spec

=============================================================================
