----------------------------- MODULE BundleProofs -----------------------------
(***************************************************************************)
(* For every set of tasks and any number of requests, bundles and runs:    *)
(* what is READY was accepted whole, and every run is granted and given    *)
(* what its task asks for. The argument: a bundle has one request that     *)
(* writes it until it is READY, and nothing is written in it afterwards    *)
(* but the copy in the workspace.                                          *)
(***************************************************************************)
EXTENDS TaskBundles, TLAPS

-----------------------------------------------------------------------------
(* The validator. *)

\* What was accepted is accepted by every larger quota.
LEMMA AcceptsMore ==
    ASSUME NEW m \in Manifests, NEW small \in Int, NEW large \in Int, small <= large,
           Accepts(m, small)
    PROVE  Accepts(m, large)
<1>1. m.timeout \in Int
  BY DEF Manifests
<1>2. m.timeout <= small => m.timeout <= large
  BY <1>1
<1> QED
  BY <1>2 DEF Accepts, AcceptsSwarmbench, AcceptsAegisrun

\* _validate_swarmbench_toml rounds MB up to whole GB.
LEMMA RoundsUp ==
    ASSUME NEW mb \in Int, mb > 0
    PROVE  CeilGb(mb) \in Int /\ CeilGb(mb) >= 1 /\ Covers(CeilGb(mb), mb)
<1> DEFINE q == (mb + 1023) \div 1024
<1>1. q \in Int /\ q * 1024 <= mb + 1023 /\ mb + 1023 < q * 1024 + 1024
  BY SMT
<1>2. q >= 1
  BY <1>1
<1>3. CeilGb(mb) = q
  BY <1>1, <1>2 DEF CeilGb
<1> HIDE DEF q
<1> QED
  BY <1>1, <1>2, <1>3 DEF Covers

LEMMA CeilIsInt == ASSUME NEW mb \in Int PROVE CeilGb(mb) \in Int
BY SMT DEF CeilGb

LEMMA Limits ==
    /\ RESOURCE_LIMITS["small"] = [cpu |-> 2, memory_gb |-> 4, disk_gb |-> 20]
    /\ RESOURCE_LIMITS["medium"] = [cpu |-> 4, memory_gb |-> 8, disk_gb |-> 40]
    /\ RESOURCE_LIMITS["large"] = [cpu |-> 8, memory_gb |-> 16, disk_gb |-> 80]
    /\ RESOURCE_LIMITS["xlarge"] = [cpu |-> 16, memory_gb |-> 32, disk_gb |-> 160]
BY DEF RESOURCE_LIMITS, Profiles

\* For all integers cpu and gb, the profile _validate_swarmbench_toml finds has room for them, and
\* no profile that has is smaller; "other" where none has.
THEOREM SmallestFits ==
    ASSUME NEW cpu \in Int, NEW gb \in Int
    PROVE  LET p == Profile(cpu, gb)
           IN  /\ p \in Profiles \union {"other"}
               /\ p \in Profiles => Fits(p, cpu, gb)
               /\ \A q \in Profiles :
                      p \in Profiles /\ Fits(q, cpu, gb)
                          => RESOURCE_LIMITS[p].cpu <= RESOURCE_LIMITS[q].cpu
<1>1. Fits("small", cpu, gb) <=> cpu <= 2 /\ gb <= 4
  BY Limits DEF Fits
<1>2. Fits("medium", cpu, gb) <=> cpu <= 4 /\ gb <= 8
  BY Limits DEF Fits
<1>3. Fits("large", cpu, gb) <=> cpu <= 8 /\ gb <= 16
  BY Limits DEF Fits
<1>4. Fits("xlarge", cpu, gb) <=> cpu <= 16 /\ gb <= 32
  BY Limits DEF Fits
<1>5. /\ RESOURCE_LIMITS["small"].cpu = 2 /\ RESOURCE_LIMITS["medium"].cpu = 4
      /\ RESOURCE_LIMITS["large"].cpu = 8 /\ RESOURCE_LIMITS["xlarge"].cpu = 16
  BY Limits
<1>a. CASE Fits("small", cpu, gb)
  <2>1. Profile(cpu, gb) = "small"
    BY <1>a, <1>1, <1>2, <1>3, <1>4 DEF Profile
  <2> QED
    BY <2>1, <1>a, <1>5 DEF Profiles
<1>b. CASE ~Fits("small", cpu, gb) /\ Fits("medium", cpu, gb)
  <2>1. Profile(cpu, gb) = "medium"
    BY <1>b, <1>1, <1>2, <1>3, <1>4 DEF Profile
  <2> QED
    BY <2>1, <1>b, <1>5 DEF Profiles
<1>c. CASE ~Fits("medium", cpu, gb) /\ Fits("large", cpu, gb)
  <2>1. Profile(cpu, gb) = "large" /\ ~Fits("small", cpu, gb)
    BY <1>c, <1>1, <1>2, <1>3, <1>4 DEF Profile
  <2> QED
    BY <2>1, <1>c, <1>5 DEF Profiles
<1>d. CASE ~Fits("large", cpu, gb) /\ Fits("xlarge", cpu, gb)
  <2>1. /\ Profile(cpu, gb) = "xlarge"
        /\ ~Fits("small", cpu, gb) /\ ~Fits("medium", cpu, gb)
    BY <1>d, <1>1, <1>2, <1>3, <1>4 DEF Profile
  <2> QED
    BY <2>1, <1>d, <1>5 DEF Profiles
<1>e. CASE ~Fits("xlarge", cpu, gb)
  <2>1. Profile(cpu, gb) = "other"
    BY <1>e, <1>1, <1>2, <1>3, <1>4 DEF Profile
  <2> QED
    BY <2>1 DEF Profiles
<1> QED
  BY <1>1, <1>2, <1>3, <1>4, <1>a, <1>b, <1>c, <1>d, <1>e

\* What an accepted task is granted.
Granted(m, spec, quota_seconds) ==
    /\ spec.profile \in Profiles
    /\ Fits(spec.profile, spec.cpu, spec.memory_gb)
    /\ spec.disk_gb <= RESOURCE_LIMITS[spec.profile].disk_gb
    /\ spec.timeout <= quota_seconds

LEMMA AcceptedFits ==
    ASSUME NEW m \in Manifests, NEW most \in Int, Accepts(m, most)
    PROVE  Granted(m, Normalized(m), most)
<1>1. CASE AcceptsSwarmbench(m, most)
  <2>1. Normalized(m) = Resolved(m)
    BY <1>1 DEF Normalized, AcceptsSwarmbench
  <2>2. m.cpu \in Int /\ CeilGb(m.memory) \in Int
    BY CeilIsInt DEF Manifests
  <2>3. Fits(Resolved(m).profile, m.cpu, CeilGb(m.memory))
    BY <1>1, <2>2, SmallestFits DEF AcceptsSwarmbench, Resolved
  <2> QED
    BY <1>1, <2>1, <2>3 DEF Granted, AcceptsSwarmbench, Resolved
<1>2. CASE AcceptsAegisrun(m, most)
  <2>1. Normalized(m) = Own(m)
    BY <1>2 DEF Normalized, AcceptsAegisrun
  <2> QED
    BY <1>2, <2>1 DEF Granted, AcceptsAegisrun, Own
<1> QED
  BY <1>1, <1>2 DEF Accepts

\* What _validate_swarmbench_toml makes of any file it accepts has the cpu, the memory and
\* the disk the file asks for, in whole GB, with less than one GB to spare, in the smallest
\* profile that has them.
THEOREM AcceptedIsServed ==
    ASSUME NEW m \in Manifests, NEW most \in Int, Accepts(m, most), m.format = "swarmbench"
    PROVE  LET spec == Normalized(m)
           IN  /\ spec.cpu = m.cpu
               /\ Covers(spec.memory_gb, m.memory) /\ Covers(spec.disk_gb, m.disk)
               /\ \A p \in Profiles :
                      Fits(p, spec.cpu, spec.memory_gb)
                          => RESOURCE_LIMITS[spec.profile].cpu <= RESOURCE_LIMITS[p].cpu
<1>1. AcceptsSwarmbench(m, most)
  BY DEF Accepts, AcceptsAegisrun
<1>2. Normalized(m) = Resolved(m)
  BY DEF Normalized
<1>3. /\ m.cpu \in Int /\ m.memory \in Int /\ m.disk \in Int
      /\ CeilGb(m.memory) \in Int
  BY CeilIsInt DEF Manifests
<1>4. Covers(CeilGb(m.memory), m.memory) /\ Covers(CeilGb(m.disk), m.disk)
  BY <1>1, <1>3, RoundsUp DEF AcceptsSwarmbench
<1>5. Resolved(m).profile = Profile(m.cpu, CeilGb(m.memory)) /\ Resolved(m).profile \in Profiles
  BY <1>1 DEF Resolved, AcceptsSwarmbench
<1>6. \A p \in Profiles :
          Fits(p, m.cpu, CeilGb(m.memory))
              => RESOURCE_LIMITS[Resolved(m).profile].cpu <= RESOURCE_LIMITS[p].cpu
  BY <1>3, <1>5, SmallestFits
<1> QED
  BY <1>2, <1>4, <1>6 DEF Resolved

LEMMA NormalType == ASSUME NEW m \in Manifests PROVE Normalized(m) \in Specs
<1>1. /\ m.cpu \in Int /\ m.memory \in Int /\ m.disk \in Int /\ m.timeout \in Int
      /\ m.profile \in Profiles \union {"other"} /\ m.labelled \in BOOLEAN
  BY DEF Manifests
<1>2. CeilGb(m.memory) \in Int /\ CeilGb(m.disk) \in Int
  BY <1>1, CeilIsInt
<1>3. Profile(m.cpu, CeilGb(m.memory)) \in Profiles \union {"other"}
  BY <1>1, <1>2, SmallestFits
<1>4. Resolved(m) \in Specs
  BY <1>1, <1>2, <1>3 DEF Resolved, Specs
<1>5. Own(m) \in Specs
  BY <1>1 DEF Own, Specs
<1> QED
  BY <1>4, <1>5 DEF Normalized

-----------------------------------------------------------------------------
(* The inductive invariant. *)

\* What a request has in hand is as far checked as it has come.
Sound(j, rows, most) ==
    /\ j.at \in {"receive", "unpack", "ready", "insert"} => j.b \in Bundles
    /\ j.at \in {"receive", "unpack", "insert"} => j.limit <= most
    /\ j.at = "packing" => j.src \in Sources /\ j.fd > 0
    /\ j.at = "receive" => (j.fd = 0 => j.src \in Sources)
    /\ j.at = "unpack" =>
           /\ j.src \in Sources \union {Torn}
           /\ j.src # Torn => Task[j.src].size <= MaxUpload
    /\ j.at = "ready" => Whole(j.src, most)
    /\ j.at = "insert" => rows[j.b].state = "READY"

\* A request writes a bundle that is not READY, and no two write the same.
Writes(j) == j.at \in {"receive", "unpack", "ready"}
Uploading == \A t \in Requests : Writes(job[t]) => bundle[job[t].b].state = "UPLOADING"
Apart ==
    \A t, u \in Requests : Writes(job[t]) /\ Writes(job[u]) /\ job[t].b = job[u].b => t = u

\* A run is made of a READY bundle, of its text.
MadeOf(r) ==
    /\ run[r].bundle \in Bundles
    /\ bundle[run[r].bundle].state = "READY"
    /\ run[r].toml \in Sources
    /\ run[r].toml = bundle[run[r].bundle].toml
    /\ Accepts(Task[run[r].toml].toml, highest)
    /\ run[r].spec = Normalized(Task[run[r].toml].toml)
    /\ run[r].staged \in {None, run[r].toml}
Made == \A r \in Runs : IF Exists(r) THEN MadeOf(r) ELSE run[r].staged = None

AllSound == \A t \in Requests : Sound(job[t], bundle, highest)

IInv == TypeOK /\ ReadyIsWhole /\ AllSound /\ Uploading /\ Apart /\ Made

\* No step takes back what is READY, nor the highest quota.
Keeps ==
    /\ highest <= highest'
    /\ \A b \in Bundles : bundle[b].state = "READY" =>
           bundle'[b].state = "READY" /\ bundle'[b].toml = bundle[b].toml

-----------------------------------------------------------------------------
(* Types. *)

LEMMA ConstantTypes ==
    /\ MaxBundles \in Nat /\ MaxRuns \in Nat /\ MaxUpload \in Nat /\ MaxRuntimes \subseteq Nat
    /\ Task \in [Sources -> Contents] /\ None \notin Sources /\ Torn \notin Sources
    /\ None # Torn
BY TaskType, LimitsType DEF None, Torn

LEMMA TaskParts ==
    ASSUME NEW s \in Sources
    PROVE  Task[s].toml \in Manifests /\ Task[s].size \in Nat
BY ConstantTypes DEF Contents

LEMMA TypeParts ==
    ASSUME TypeOK
    PROVE  /\ bundle \in [Bundles -> BundleRows] /\ run \in [Runs -> RunRows]
           /\ job \in [Requests -> Jobs]
           /\ file \in Seq(Sources \union {None, Torn}) /\ Len(file) \in Nat
           /\ staging \in 0..Len(file)
           /\ quota \in Nat /\ highest \in Nat /\ quota <= highest
BY ConstantTypes DEF TypeOK

LEMMA NoJobType == NoJob \in Jobs
BY DEF NoJob, Jobs

LEMMA JobParts ==
    ASSUME TypeOK, NEW t \in Requests
    PROVE  /\ job[t] \in Jobs
           /\ job[t].b \in {0} \union Bundles /\ job[t].limit \in Nat
           /\ job[t].src \in Sources \union {None, Torn}
           /\ job[t].fd \in 0..Len(file) /\ job[t].then \in {"end", "run"}
BY DEF TypeOK, Jobs

LEMMA RowParts ==
    ASSUME TypeOK, NEW b \in Bundles
    PROVE  /\ bundle[b] \in BundleRows
           /\ bundle[b].state \in {"ABSENT", "UPLOADING", "REJECTED", "READY"}
           /\ bundle[b].files \in Sources \union {None, Torn}
           /\ bundle[b].toml \in Sources \union {None}
BY DEF TypeOK, BundleRows

LEMMA RunParts ==
    ASSUME TypeOK, NEW r \in Runs
    PROVE  /\ run[r] \in RunRows
           /\ run[r].bundle \in {0} \union Bundles /\ run[r].toml \in Sources \union {None}
           /\ run[r].spec \in Specs /\ run[r].staged \in Sources \union {None}
BY DEF TypeOK, RunRows

-----------------------------------------------------------------------------
(* What the steps have in common. *)

LEMMA WholeKept ==
    ASSUME TypeOK, TypeOK', highest <= highest', NEW s, Whole(s, highest)
    PROVE  Whole(s, highest')
<1>1. highest \in Int /\ highest' \in Int
  BY ConstantTypes DEF TypeOK
<1>2. Accepts(Task[s].toml, highest')
  BY <1>1, TaskParts, AcceptsMore DEF Whole
<1> QED
  BY <1>2 DEF Whole

LEMMA SoundKept ==
    ASSUME TypeOK, TypeOK', Keeps, NEW j \in Jobs, Sound(j, bundle, highest)
    PROVE  Sound(j, bundle', highest')
<1>1. highest \in Int /\ highest' \in Int /\ j.limit \in Int
  BY ConstantTypes DEF TypeOK, Jobs
<1>2. j.limit <= highest => j.limit <= highest'
  BY <1>1 DEF Keeps
<1>3. j.at = "ready" => Whole(j.src, highest')
  BY WholeKept DEF Sound, Keeps
<1> QED
  BY <1>2, <1>3 DEF Sound, Keeps

LEMMA NothingInHand ==
    /\ Sound(NoJob, bundle', highest') /\ ~Writes(NoJob)
BY DEF Sound, Writes, NoJob

\* A step of one request that writes its own bundle, or opens one.
LEMMA RequestKeeps ==
    ASSUME IInv, TypeOK', Keeps, NEW t \in Requests, NEW j, Becomes(t, j),
           Sound(j, bundle', highest'),
           \A b \in Bundles :
               \/ bundle'[b] = bundle[b]
               \/ bundle[b].state = "ABSENT"
               \/ Writes(job[t]) /\ b = job[t].b,
           Writes(j) =>
               /\ j.b \in Bundles
               /\ bundle'[j.b].state = "UPLOADING"
               /\ (Writes(job[t]) /\ j.b = job[t].b) \/ bundle[j.b].state = "ABSENT"
    PROVE  AllSound' /\ Uploading' /\ Apart'
<1>1. job'[t] = j /\ \A u \in Requests : u # t => job'[u] = job[u] /\ job[u] \in Jobs
  BY DEF Becomes, IInv, TypeOK
<1>2. AllSound'
  BY <1>1, SoundKept DEF AllSound, IInv
<1>3. \A u \in Requests : Writes(job[u]) =>
          job[u].b \in Bundles /\ bundle[job[u].b].state = "UPLOADING"
  BY DEF IInv, AllSound, Sound, Writes, Uploading
<1>4. \A u \in Requests : u # t /\ Writes(job[u]) => bundle'[job[u].b] = bundle[job[u].b]
  BY <1>3 DEF IInv, Apart
<1>5. Uploading'
  BY <1>1, <1>3, <1>4 DEF Uploading, Writes
<1>6. \A u \in Requests : u # t /\ Writes(job[u]) /\ Writes(j) => job[u].b # j.b
  BY <1>3 DEF IInv, Apart
<1>7. Apart'
  BY <1>1, <1>6 DEF IInv, Apart, Writes
<1> QED
  BY <1>2, <1>5, <1>7

LEMMA ReadyKept ==
    ASSUME IInv, TypeOK', Keeps,
           \A b \in Bundles : bundle'[b].state = "READY" =>
               bundle[b].state = "READY" \/ Whole(bundle'[b].toml, highest')
    PROVE  ReadyIsWhole'
<1> SUFFICES ASSUME NEW b \in Bundles, bundle'[b].state = "READY"
             PROVE  Whole(bundle'[b].toml, highest')
  BY DEF ReadyIsWhole
<1>1. CASE bundle[b].state = "READY"
  <2>1. Whole(bundle[b].toml, highest) /\ bundle'[b].toml = bundle[b].toml
    BY <1>1 DEF IInv, ReadyIsWhole, Keeps
  <2> QED
    BY <2>1, WholeKept DEF IInv, Keeps
<1> QED
  BY <1>1

LEMMA MadeOfKept ==
    ASSUME IInv, TypeOK', Keeps, NEW r \in Runs, MadeOf(r), NEW q \in Runs,
           run'[q].bundle = run[r].bundle, run'[q].toml = run[r].toml,
           run'[q].spec = run[r].spec, run'[q].staged \in {None, run[r].toml}
    PROVE  MadeOf(q)'
<1>1. highest \in Int /\ highest' \in Int
  <2>1. highest \in MaxRuntimes /\ highest' \in MaxRuntimes
    BY DEF IInv, TypeOK
  <2> QED
    BY <2>1, ConstantTypes
<1>2. Accepts(Task[run[r].toml].toml, highest')
  BY <1>1, TaskParts, AcceptsMore DEF MadeOf, Keeps
<1> QED
  BY <1>2 DEF MadeOf, Keeps

LEMMA MadeKept ==
    ASSUME IInv, TypeOK', Keeps, run' = run
    PROVE  Made'
<1>1. \A r \in Runs : MadeOf(r) => MadeOf(r)'
  BY MadeOfKept DEF MadeOf
<1> QED
  BY <1>1 DEF IInv, Made, Exists

-----------------------------------------------------------------------------
(* One lemma per action. *)

LEMMA OpensKeeps ==
    ASSUME IInv, NEW t \in Requests, NEW s \in Sources \union {None}, NEW f \in 0..Len(file),
           NEW then \in {"end", "run"}, f = 0 => s \in Sources,
           Opens(t, s, f, then), UNCHANGED outsideBundle
    PROVE  IInv'
<1> DEFINE J(b) == [at |-> "receive", src |-> s, b |-> b, then |-> then, fd |-> f,
                    limit |-> quota]
<1>1. PICK b \in Bundles : /\ Absent(b)
                           /\ Changes(b, [NoBundle EXCEPT !.state = "UPLOADING"])
                           /\ Becomes(t, J(b))
  BY DEF Opens
<1>2. TypeOK
  BY DEF IInv
<1>3. UNCHANGED <<run, staging, file, quota, highest>>
  BY DEF outsideBundle
<1>4. [NoBundle EXCEPT !.state = "UPLOADING"] = [state |-> "UPLOADING", files |-> None, toml |-> None]
  BY DEF NoBundle
<1>5. bundle' \in [Bundles -> BundleRows]
  BY <1>1, <1>2, <1>4 DEF Changes, TypeOK, BundleRows
<1>6. J(b) \in Jobs
  BY <1>2, TypeParts DEF Jobs
<1>7. TypeOK'
  BY <1>1, <1>2, <1>3, <1>5, <1>6 DEF TypeOK, Becomes, Jobs
<1>8. bundle[b].state = "ABSENT" /\ bundle'[b].state = "UPLOADING"
      /\ \A c \in Bundles : c # b => bundle'[c] = bundle[c]
  BY <1>1, <1>2, <1>4 DEF Changes, Absent, TypeOK
<1>9. Keeps
  BY <1>2, <1>3, <1>8, TypeParts DEF Keeps
<1>10. Sound(J(b), bundle', highest')
  <2>1. quota <= highest'
    BY <1>2, <1>3, TypeParts
  <2> QED
    BY <2>1 DEF Sound
<1>11. AllSound' /\ Uploading' /\ Apart'
  <2> HIDE DEF J
  <2>1. J(b).b = b
    BY DEF J
  <2> QED
    BY <1>1, <1>7, <1>8, <1>9, <1>10, <2>1, RequestKeeps
<1>12. ReadyIsWhole'
  BY <1>7, <1>8, <1>9, ReadyKept
<1>13. Made'
  BY <1>3, <1>7, <1>9, MadeKept
<1> QED
  BY <1>7, <1>11, <1>12, <1>13 DEF IInv

\* A step of a request that changes no bundle, no run and no quota.
LEMMA LocalKeeps ==
    ASSUME IInv, NEW t \in Requests, NEW j, Becomes(t, j), UNCHANGED <<bundle, run, quota, highest>>,
           TypeOK', Sound(j, bundle', highest'), Writes(j) => Writes(job[t]) /\ j.b = job[t].b
    PROVE  IInv'
<1>1. TypeOK
  BY DEF IInv
<1>2. Keeps
  BY <1>1, TypeParts DEF Keeps
<1>3. Writes(j) => j.b \in Bundles /\ bundle'[j.b].state = "UPLOADING"
  BY DEF IInv, AllSound, Sound, Uploading, Writes
<1>4. AllSound' /\ Uploading' /\ Apart'
  BY <1>2, <1>3, RequestKeeps
<1>5. ReadyIsWhole'
  BY <1>2, ReadyKept
<1>6. Made'
  BY <1>2, MadeKept
<1> QED
  BY <1>4, <1>5, <1>6 DEF IInv

LEMMA EndsKeeps ==
    ASSUME IInv, NEW t \in Requests, Ends(t), UNCHANGED <<bundle, run, staging, file, quota, highest>>
    PROVE  IInv'
<1>1. TypeOK'
  BY NoJobType DEF IInv, TypeOK, Ends, Becomes, Jobs
<1> QED
  BY <1>1, LocalKeeps, NothingInHand DEF Ends

\* Reject, of the request's own bundle.
LEMMA RejectKeeps ==
    ASSUME IInv, NEW t \in Requests, Writes(job[t]), Reject(t), UNCHANGED outsideBundle
    PROVE  IInv'
<1> DEFINE b == job[t].b
<1>1. TypeOK /\ UNCHANGED <<run, staging, file, quota, highest>>
  BY DEF IInv, outsideBundle
<1>2. b \in Bundles /\ bundle[b].state = "UPLOADING"
  BY DEF IInv, AllSound, Sound, Uploading, Writes
<1>3. bundle' \in [Bundles -> BundleRows]
  BY <1>1, <1>2, RowParts DEF Reject, Changes, TypeOK, BundleRows
<1>4. TypeOK'
  BY <1>1, <1>3, NoJobType DEF TypeOK, Reject, Ends, Becomes, Jobs
<1>5. bundle'[b].state = "REJECTED" /\ \A c \in Bundles : c # b => bundle'[c] = bundle[c]
  BY <1>1, <1>2, RowParts DEF Reject, Changes, TypeOK, BundleRows
<1>6. Keeps
  BY <1>1, <1>2, <1>5, TypeParts DEF Keeps
<1>7. AllSound' /\ Uploading' /\ Apart'
  BY <1>4, <1>5, <1>6, NothingInHand, RequestKeeps DEF Reject, Ends
<1>8. ReadyIsWhole'
  BY <1>4, <1>5, <1>6, ReadyKept
<1>9. Made'
  BY <1>1, <1>4, <1>6, MadeKept
<1> QED
  BY <1>4, <1>7, <1>8, <1>9 DEF IInv

LEMMA ReceiveKeeps ==
    ASSUME IInv, NEW t \in Requests, Receive(t)
    PROVE  IInv'
<1>1. TypeOK /\ Writes(job[t]) /\ UNCHANGED <<run, staging, file, quota, highest>>
  BY DEF IInv, outsideBundle, Receive, Writes, At
<1>2. Sound(job[t], bundle, highest) /\ job[t].at = "receive"
  BY DEF IInv, AllSound, Receive, At
<1>3. Incoming(t) \in Sources \union {Torn}
  <2>1. CASE job[t].fd = 0
    BY <2>1, <1>2 DEF Incoming, Sound
  <2>2. CASE job[t].fd # 0 /\ file[job[t].fd] = None
    BY <2>2 DEF Incoming
  <2>3. CASE job[t].fd # 0 /\ file[job[t].fd] # None
    <3>1. job[t].fd \in 1..Len(file)
      BY <2>3, <1>1, JobParts, TypeParts
    <3>2. file[job[t].fd] \in Sources \union {None, Torn}
      BY <3>1, <1>1, TypeParts
    <3> QED
      BY <2>3, <3>2 DEF Incoming
  <2> QED
    BY <2>1, <2>2, <2>3
<1>4. CASE Reject(t)
  BY <1>1, <1>4, RejectKeeps DEF Receive
<1>5. CASE /\ Incoming(t) # Torn => Task[Incoming(t)].size <= MaxUpload
           /\ Becomes(t, [job[t] EXCEPT !.at = "unpack", !.src = Incoming(t)])
           /\ UNCHANGED bundle
  <2> DEFINE j == [job[t] EXCEPT !.at = "unpack", !.src = Incoming(t)]
  <2>1. j \in Jobs /\ j.at = "unpack" /\ j.src = Incoming(t) /\ j.b = job[t].b /\ j.limit = job[t].limit
    BY <1>1, <1>3, JobParts DEF Jobs
  <2> HIDE DEF j
  <2>2. Becomes(t, j)
    BY <1>5 DEF j
  <2>3. TypeOK'
    BY <1>1, <1>5, <2>1, <2>2 DEF TypeOK, Becomes, Jobs
  <2>4. Sound(j, bundle', highest')
    BY <1>1, <1>2, <1>3, <1>5, <2>1 DEF Sound
  <2> QED
    BY <1>1, <1>5, <2>1, <2>2, <2>3, <2>4, LocalKeeps
<1> QED
  BY <1>4, <1>5 DEF Receive

LEMMA UnpackKeeps ==
    ASSUME IInv, NEW t \in Requests, Unpack(t)
    PROVE  IInv'
<1> DEFINE b == job[t].b
           s == job[t].src
           j == [job[t] EXCEPT !.at = "ready"]
<1>1. TypeOK /\ Writes(job[t]) /\ UNCHANGED <<run, staging, file, quota, highest>>
  BY DEF IInv, outsideBundle, Unpack, Writes, At
<1>2. Sound(job[t], bundle, highest) /\ job[t].at = "unpack"
  BY DEF IInv, AllSound, Unpack, At
<1>3. CASE Reject(t)
  BY <1>1, <1>3, RejectKeeps DEF Unpack
<1>4. CASE Ends(t) /\ UNCHANGED bundle
  BY <1>1, <1>4, EndsKeeps
<1>5. CASE /\ Extractable(s) /\ Found(s) /\ Accepts(Task[s].toml, job[t].limit)
           /\ Changes(b, [bundle[b] EXCEPT !.files = s]) /\ Go(t, "ready")
  <2>1. s \in Sources /\ Task[s].size <= MaxUpload /\ b \in Bundles
    BY <1>2, <1>5 DEF Sound, Extractable
  <2>2. j \in Jobs /\ j.at = "ready" /\ j.src = s /\ j.b = b /\ Becomes(t, j)
    BY <1>1, <1>5, JobParts DEF Jobs, Go
  <2>3. /\ bundle' \in [Bundles -> BundleRows]
        /\ bundle'[b].state = bundle[b].state /\ bundle'[b].toml = bundle[b].toml
        /\ \A c \in Bundles : c # b => bundle'[c] = bundle[c]
    BY <1>1, <1>5, <2>1, RowParts DEF Changes, TypeOK, BundleRows
  <2>4. TypeOK'
    <3> HIDE DEF j
    <3> QED
      BY <1>1, <2>2, <2>3 DEF TypeOK, Becomes, Jobs
  <2>5. Keeps
    BY <1>1, <2>3, TypeParts DEF Keeps
  <2>6. Whole(s, highest)
    <3>1. job[t].limit \in Int /\ highest \in Int /\ job[t].limit <= highest
      BY <1>1, <1>2, JobParts, TypeParts DEF Sound
    <3>2. Accepts(Task[s].toml, highest)
      BY <1>5, <2>1, <3>1, TaskParts, AcceptsMore
    <3> QED
      BY <1>5, <2>1, <3>2 DEF Whole, Extractable
  <2>7. Sound(j, bundle', highest')
    <3>1. Whole(s, highest')
      BY <1>1, <2>5, <2>4, <2>6, WholeKept DEF Keeps
    <3> HIDE DEF j
    <3> QED
      BY <2>1, <2>2, <3>1 DEF Sound
  <2>8. bundle[b].state = "UPLOADING"
    BY <1>1 DEF IInv, Uploading
  <2>9. AllSound' /\ Uploading' /\ Apart'
    <3> HIDE DEF j
    <3> QED
      BY <1>1, <2>1, <2>2, <2>3, <2>4, <2>5, <2>7, <2>8, RequestKeeps
  <2>10. ReadyIsWhole'
    BY <2>3, <2>4, <2>5, ReadyKept
  <2>11. Made'
    BY <1>1, <2>4, <2>5, MadeKept
  <2> QED
    BY <2>4, <2>9, <2>10, <2>11 DEF IInv
<1> QED
  BY <1>3, <1>4, <1>5 DEF Unpack

\* Going on to create_run, with a bundle that is READY.
Submitted(b) ==
    [at |-> "insert", src |-> None, b |-> b, then |-> "end", fd |-> 0, limit |-> quota]

LEMMA SubmitsSound ==
    ASSUME TypeOK, NEW b \in Bundles
    PROVE  /\ Submitted(b) \in Jobs /\ ~Writes(Submitted(b))
           /\ \A rows, most : rows[b].state = "READY" /\ quota <= most
                  => Sound(Submitted(b), rows, most)
<1>2. quota \in Nat /\ Len(file) \in Nat
  BY TypeParts
<1>3. Submitted(b) \in Jobs
  BY <1>2 DEF Submitted, Jobs
<1>4. ~Writes(Submitted(b))
  BY DEF Submitted, Writes
<1>5. \A rows, most : rows[b].state = "READY" /\ quota <= most
          => Sound(Submitted(b), rows, most)
  BY DEF Submitted, Sound
<1> QED
  BY <1>3, <1>4, <1>5

LEMMA MakeReadyKeeps ==
    ASSUME IInv, NEW t \in Requests, MakeReady(t)
    PROVE  IInv'
<1> DEFINE b == job[t].b
           s == job[t].src
<1>1. TypeOK /\ Writes(job[t]) /\ UNCHANGED <<run, file, quota, highest>>
  BY DEF IInv, MakeReady, Writes, At
<1>2. b \in Bundles /\ bundle[b].state = "UPLOADING" /\ Whole(s, highest)
  BY <1>1 DEF IInv, AllSound, Sound, Uploading, Writes, MakeReady, At
<1>3. s \in Sources
  BY <1>2 DEF Whole
<1>4. /\ bundle' \in [Bundles -> BundleRows]
      /\ bundle'[b].state = "READY" /\ bundle'[b].toml = s
      /\ \A c \in Bundles : c # b => bundle'[c] = bundle[c]
  BY <1>1, <1>2, <1>3, RowParts DEF MakeReady, Changes, TypeOK, BundleRows
<1>5. PICK j \in {NoJob, Submitted(b)} : Becomes(t, j)
  BY DEF MakeReady, Submits, Submitted, Ends
<1>6. j \in Jobs /\ ~Writes(j) /\ Sound(j, bundle', highest')
  <2>1. CASE j = NoJob
    BY <2>1, NoJobType, NothingInHand
  <2>2. CASE j = Submitted(b)
    <3>1. quota <= highest'
      BY <1>1, TypeParts
    <3> QED
      BY <2>2, <1>1, <1>2, <1>4, <3>1, SubmitsSound
  <2> QED
    BY <1>5, <2>1, <2>2
<1>7. TypeOK'
  <2>1. staging' \in 0..Len(file)
    BY <1>1, TypeParts DEF MakeReady
  <2> QED
    BY <1>1, <1>4, <1>5, <1>6, <2>1 DEF TypeOK, Becomes, Jobs
<1>8. Keeps
  BY <1>1, <1>2, <1>4, TypeParts DEF Keeps
<1>9. AllSound' /\ Uploading' /\ Apart'
  BY <1>1, <1>4, <1>5, <1>6, <1>7, <1>8, RequestKeeps
<1>10. ReadyIsWhole'
  <2>1. Whole(bundle'[b].toml, highest')
    BY <1>1, <1>2, <1>4
  <2> QED
    BY <1>4, <1>7, <1>8, <2>1, ReadyKept
<1>11. Made'
  BY <1>1, <1>7, <1>8, MadeKept
<1> QED
  BY <1>7, <1>9, <1>10, <1>11 DEF IInv

LEMMA BringsKeeps ==
    ASSUME IInv, NEW t \in Requests, NEW s \in Sources, NEW then \in {"end", "run"},
           Brings(t, s, then)
    PROVE  IInv'
<1>1. 0 \in 0..Len(file)
  BY TypeParts DEF IInv
<1> QED
  BY <1>1, OpensKeeps DEF Brings

LEMMA PackOpenKeeps ==
    ASSUME IInv, NEW t \in Requests, NEW s \in Sources, PackOpen(t, s)
    PROVE  IInv'
<1> DEFINE f == IF staging = 0 THEN Len(file) + 1 ELSE staging
           j == [at |-> "packing", src |-> s, b |-> 0, then |-> "run", fd |-> f, limit |-> 0]
<1>1. TypeOK /\ Becomes(t, j) /\ staging' = f /\ UNCHANGED <<bundle, run, quota, highest>>
  BY DEF IInv, PackOpen
<1>2. Len(file) \in Nat /\ staging \in 0..Len(file) /\ file \in Seq(Sources \union {None, Torn})
  BY <1>1, TypeParts
<1>3. /\ file' \in Seq(Sources \union {None, Torn})
      /\ Len(file') >= Len(file) /\ Len(file') \in Nat /\ f \in 1..Len(file')
  <2>1. CASE staging = 0
    BY <1>2, <2>1 DEF PackOpen
  <2>2. CASE staging # 0
    <3>1. staging \in 1..Len(file) /\ f = staging
      BY <1>2, <2>2
    <3>2. file' = [file EXCEPT ![staging] = IF Writing(staging) THEN Torn ELSE None]
      BY <2>2 DEF PackOpen
    <3>3. PICK bytes \in {None, Torn} : file' = [file EXCEPT ![staging] = bytes]
      <4>1. CASE Writing(staging)
        BY <4>1, <3>2
      <4>2. CASE ~Writing(staging)
        BY <4>2, <3>2
      <4> QED
        BY <4>1, <4>2
    <3> QED
      BY <1>2, <3>1, <3>3
  <2> QED
    BY <2>1, <2>2
<1>4. j = [at |-> "packing", src |-> s, b |-> 0, then |-> "run", fd |-> f, limit |-> 0]
  OBVIOUS
<1> HIDE DEF j, f
<1>5. /\ f \in 0..Len(file') /\ f > 0
      /\ \A n : n \in 0..Len(file) => n \in 0..Len(file')
  BY <1>2, <1>3
<1>6. TypeOK'
  <2>1. \A u \in Requests : job[u] \in [at : {"idle", "packing", "packed", "receive", "unpack", "ready", "insert"},
          src : Sources \union {None, Torn}, b : {0} \union Bundles, then : {"end", "run"},
          fd : 0..Len(file'), limit : Nat]
    BY <1>1, <1>5 DEF TypeOK, Jobs
  <2>2. j \in [at : {"idle", "packing", "packed", "receive", "unpack", "ready", "insert"},
          src : Sources \union {None, Torn}, b : {0} \union Bundles, then : {"end", "run"},
          fd : 0..Len(file'), limit : Nat]
    BY <1>4, <1>5
  <2>3. job' \in [Requests -> Jobs']
    BY <1>1, <2>1, <2>2 DEF TypeOK, Becomes, Jobs
  <2>4. staging' \in 0..Len(file')
    BY <1>1, <1>5
  <2> QED
    BY <1>1, <1>3, <2>3, <2>4 DEF TypeOK
<1>7. Sound(j, bundle', highest') /\ ~Writes(j)
  BY <1>4, <1>5 DEF Sound, Writes
<1> QED
  BY <1>1, <1>6, <1>7, LocalKeeps

LEMMA PackCloseKeeps ==
    ASSUME IInv, NEW t \in Requests, PackClose(t)
    PROVE  IInv'
<1> DEFINE j == [at |-> "packed", src |-> None, b |-> 0, then |-> "run", fd |-> 0, limit |-> 0]
<1>1. TypeOK /\ Becomes(t, j) /\ UNCHANGED <<bundle, run, staging, quota, highest>>
  BY DEF IInv, PackClose
<1>2. job[t].src \in Sources /\ job[t].fd \in 1..Len(file)
  BY <1>1, JobParts, TypeParts DEF IInv, AllSound, Sound, PackClose, At
<1>3. PICK bytes \in {job[t].src, Torn} : file' = [file EXCEPT ![job[t].fd] = bytes]
  BY DEF PackClose
<1>4. file' \in Seq(Sources \union {None, Torn}) /\ Len(file') = Len(file)
  BY <1>1, <1>2, <1>3, TypeParts
<1>5. j = [at |-> "packed", src |-> None, b |-> 0, then |-> "run", fd |-> 0, limit |-> 0]
  OBVIOUS
<1> HIDE DEF j
<1>6. j \in Jobs
  BY <1>1, <1>5, TypeParts DEF Jobs
<1>7. TypeOK'
  BY <1>1, <1>4, <1>6 DEF TypeOK, Becomes, Jobs
<1>8. Sound(j, bundle', highest') /\ ~Writes(j)
  BY <1>5 DEF Sound, Writes
<1> QED
  BY <1>1, <1>7, <1>8, LocalKeeps

LEMMA PackReadKeeps ==
    ASSUME IInv, NEW t \in Requests, PackRead(t)
    PROVE  IInv'
<1>1. CASE staging = 0
  BY <1>1, EndsKeeps DEF PackRead, outsideBundle
<1>2. CASE staging # 0
  <2>1. staging \in 0..Len(file) /\ Opens(t, None, staging, "run") /\ UNCHANGED outsideBundle
    BY <1>2, TypeParts DEF PackRead, IInv
  <2> QED
    BY <1>2, <2>1, OpensKeeps
<1> QED
  BY <1>1, <1>2

LEMMA RunBundleKeeps ==
    ASSUME IInv, NEW t \in Requests, NEW b \in Bundles, RunBundle(t, b)
    PROVE  IInv'
<1>1. /\ TypeOK /\ Becomes(t, Submitted(b)) /\ bundle[b].state = "READY"
      /\ UNCHANGED <<bundle, run, staging, file, quota, highest>>
  BY DEF IInv, RunBundle, Submits, Submitted, outsideBundle
<1>2. quota <= highest'
  BY <1>1, TypeParts
<1>3. /\ Submitted(b) \in Jobs /\ ~Writes(Submitted(b))
      /\ Sound(Submitted(b), bundle', highest')
  BY <1>1, <1>2, SubmitsSound
<1>4. TypeOK'
  BY <1>1, <1>3 DEF TypeOK, Becomes, Jobs
<1> QED
  BY <1>1, <1>3, <1>4, LocalKeeps

\* A step that writes the row of one run.
LEMMA MadeIf ==
    ASSUME IInv, TypeOK', Keeps, NEW r \in Runs, MadeOf(r)', Exists(r)',
           \A q \in Runs : q # r => run'[q] = run[q]
    PROVE  Made'
<1>1. \A q \in Runs : q # r /\ MadeOf(q) => MadeOf(q)'
  BY MadeOfKept DEF MadeOf
<1> QED
  BY <1>1 DEF IInv, Made, Exists

\* A step that changes neither bundles nor requests.
LEMMA RunStepKeeps ==
    ASSUME IInv, TypeOK', Made', UNCHANGED <<bundle, job, highest>>
    PROVE  IInv'
<1>1. AllSound' /\ Uploading' /\ Apart' /\ ReadyIsWhole'
  BY DEF IInv, AllSound, Sound, Uploading, Writes, Apart, ReadyIsWhole
<1> QED
  BY <1>1 DEF IInv

LEMMA InsertRunKeeps ==
    ASSUME IInv, NEW t \in Requests, InsertRun(t)
    PROVE  IInv'
<1> DEFINE b == job[t].b
           toml == bundle[b].toml
           m == Task[toml].toml
           New == [state |-> "QUEUED", bundle |-> b, toml |-> toml, spec |-> Normalized(m),
                   staged |-> None]
<1>1. TypeOK /\ Ends(t) /\ UNCHANGED <<bundle, staging, file, quota, highest>>
  BY DEF IInv, InsertRun
<1>2. b \in Bundles /\ bundle[b].state = "READY" /\ job[t].limit <= highest
  BY DEF IInv, AllSound, Sound, InsertRun, At
<1>3. toml \in Sources /\ m \in Manifests
  BY <1>2, TaskParts DEF IInv, ReadyIsWhole, Whole
<1>4. CASE UNCHANGED run
  BY <1>1, <1>4, EndsKeeps
<1>5. CASE /\ \E limit \in {job[t].limit, quota}, mode \in {"harbor", "probe"} :
                  Runnable(m, limit, mode)
           /\ \E r \in Runs : Unused(r) /\ run' = [run EXCEPT ![r] = New]
  <2>1. PICK r \in Runs : Unused(r) /\ run' = [run EXCEPT ![r] = New]
    BY <1>5
  <2>2. PICK limit \in {job[t].limit, quota} : Accepts(m, limit)
    BY <1>5 DEF Runnable
  <2>3. Accepts(m, highest)
    <3>1. limit \in Int /\ highest \in Int /\ limit <= highest
      BY <1>1, <1>2, <2>2, JobParts, TypeParts
    <3> QED
      BY <1>3, <2>2, <3>1, AcceptsMore
  <2>4. New \in RunRows
    BY <1>2, <1>3, NormalType DEF RunRows
  <2>5. /\ run' \in [Runs -> RunRows] /\ run'[r] = New
        /\ \A q \in Runs : q # r => run'[q] = run[q]
    <3> HIDE DEF New
    <3> QED
      BY <1>1, <2>1, <2>4 DEF TypeOK
  <2>6. TypeOK'
    BY <1>1, <2>5, NoJobType DEF TypeOK, Ends, Becomes, Jobs
  <2>7. Keeps
    BY <1>1, TypeParts DEF Keeps
  <2>8. MadeOf(r)'
    BY <1>1, <1>2, <1>3, <2>3, <2>5 DEF MadeOf
  <2>9. Made'
    BY <2>5, <2>6, <2>7, <2>8, MadeIf DEF Exists
  <2>10. AllSound' /\ Uploading' /\ Apart'
    BY <1>1, <2>6, <2>7, NothingInHand, RequestKeeps DEF Ends
  <2>11. ReadyIsWhole'
    BY <1>1, <2>6, <2>7, ReadyKept
  <2> QED
    BY <2>6, <2>9, <2>10, <2>11 DEF IInv
<1> QED
  BY <1>4, <1>5 DEF InsertRun

LEMMA RetryKeeps ==
    ASSUME IInv, NEW t \in Requests, NEW old \in Runs, Retry(t, old)
    PROVE  IInv'
<1> DEFINE New == [run[old] EXCEPT !.state = "QUEUED", !.staged = None]
<1>1. /\ TypeOK /\ UNCHANGED <<bundle, job, staging, file, quota, highest>>
      /\ run[old].state = "OVER"
  BY DEF IInv, Retry
<1>2. PICK r \in Runs : Unused(r) /\ run' = [run EXCEPT ![r] = New]
  BY DEF Retry
<1>3. /\ New \in RunRows /\ New.bundle = run[old].bundle /\ New.toml = run[old].toml
      /\ New.spec = run[old].spec /\ New.staged = None
  BY <1>1, RunParts DEF RunRows
<1>4. /\ run' \in [Runs -> RunRows] /\ run'[r] = New
      /\ \A q \in Runs : q # r => run'[q] = run[q]
  <2> HIDE DEF New
  <2> QED
    BY <1>1, <1>2, <1>3 DEF TypeOK
<1>5. TypeOK'
  BY <1>1, <1>4 DEF TypeOK, Jobs
<1>6. Keeps
  BY <1>1, TypeParts DEF Keeps
<1>7. MadeOf(old)
  BY <1>1 DEF IInv, Made, Exists
<1>8. MadeOf(r)'
  <2> HIDE DEF New
  <2> QED
    BY <1>3, <1>4, <1>5, <1>6, <1>7, MadeOfKept
<1>9. Exists(r)'
  BY <1>1, <1>4, RunParts DEF Exists, RunRows
<1>10. Made'
  BY <1>4, <1>5, <1>6, <1>8, <1>9, MadeIf
<1> QED
  BY <1>1, <1>5, <1>10, RunStepKeeps

LEMMA StageKeeps ==
    ASSUME IInv, NEW r \in Runs, Stage(r)
    PROVE  IInv'
<1>1. /\ TypeOK /\ UNCHANGED <<bundle, job, staging, file, quota, highest>>
      /\ run[r].state = "QUEUED"
  BY DEF IInv, Stage
<1>2. MadeOf(r) /\ run[r].staged \in {None, run[r].toml} /\ run[r].toml \in Sources
  BY <1>1 DEF IInv, Made, Exists, MadeOf
<1>3. PICK staged \in {run[r].staged, run[r].toml} :
          run' = [run EXCEPT ![r] = [run[r] EXCEPT !.state = "OVER", !.staged = staged]]
  <2>1. CASE run' = [run EXCEPT ![r].state = "OVER"]
    <3>1. [run[r] EXCEPT !.state = "OVER", !.staged = run[r].staged]
              = [run[r] EXCEPT !.state = "OVER"]
      BY <1>1, RunParts DEF RunRows
    <3> QED
      BY <1>1, <2>1, <3>1 DEF TypeOK
  <2>2. CASE run' = [run EXCEPT ![r] =
                         [run[r] EXCEPT !.state = "OVER", !.staged = WriteToml(r)]]
    BY <2>2 DEF WriteToml
  <2> QED
    BY <2>1, <2>2 DEF Stage
<1> DEFINE New == [run[r] EXCEPT !.state = "OVER", !.staged = staged]
<1>4. /\ New \in RunRows /\ New.bundle = run[r].bundle /\ New.toml = run[r].toml
      /\ New.spec = run[r].spec /\ New.staged \in {None, run[r].toml}
  BY <1>1, <1>2, <1>3, RunParts DEF RunRows
<1>5. /\ run' \in [Runs -> RunRows] /\ run'[r] = New
      /\ \A q \in Runs : q # r => run'[q] = run[q]
  <2>1. run' = [run EXCEPT ![r] = New]
    BY <1>3
  <2> HIDE DEF New
  <2> QED
    BY <1>1, <1>4, <2>1 DEF TypeOK
<1>6. TypeOK'
  BY <1>1, <1>5 DEF TypeOK, Jobs
<1>7. Keeps
  BY <1>1, TypeParts DEF Keeps
<1>8. MadeOf(r)'
  <2> HIDE DEF New
  <2> QED
    BY <1>2, <1>4, <1>5, <1>6, <1>7, MadeOfKept
<1>9. Exists(r)'
  BY <1>1, <1>5, RunParts DEF Exists, RunRows
<1>10. Made'
  BY <1>5, <1>6, <1>7, <1>8, <1>9, MadeIf
<1> QED
  BY <1>1, <1>6, <1>10, RunStepKeeps

LEMMA TamperKeeps ==
    ASSUME IInv, NEW b \in Bundles, Tamper(b)
    PROVE  IInv'
<1>1. TypeOK /\ UNCHANGED <<job, run, staging, file, quota, highest>>
  BY DEF IInv, Tamper, outsideBundle
<1>2. PICK f \in {None, Torn} : bundle' = [bundle EXCEPT ![b] = [bundle[b] EXCEPT !.files = f]]
  BY DEF Tamper, Changes
<1>3. /\ bundle' \in [Bundles -> BundleRows]
      /\ \A c \in Bundles : bundle'[c].state = bundle[c].state /\ bundle'[c].toml = bundle[c].toml
  BY <1>1, <1>2, RowParts DEF TypeOK, BundleRows
<1>4. TypeOK'
  BY <1>1, <1>3 DEF TypeOK, Jobs
<1>5. Keeps
  BY <1>1, <1>3, TypeParts DEF Keeps
<1>6. AllSound'
  <2> SUFFICES ASSUME NEW t \in Requests PROVE Sound(job[t], bundle', highest')
    BY <1>1 DEF AllSound
  <2> QED
    BY <1>4, <1>5, <1>1, JobParts, SoundKept DEF IInv, AllSound
<1>7. Uploading' /\ Apart'
  BY <1>1, <1>3 DEF IInv, Uploading, Apart, Writes, AllSound, Sound
<1>8. ReadyIsWhole'
  BY <1>3, <1>4, <1>5, ReadyKept
<1>9. Made'
  BY <1>1, <1>4, <1>5, MadeKept
<1> QED
  BY <1>4, <1>6, <1>7, <1>8, <1>9 DEF IInv

LEMMA UpdateQuotaKeeps ==
    ASSUME IInv, NEW value \in MaxRuntimes, UpdateQuota(value)
    PROVE  IInv'
<1>1. TypeOK /\ quota' = value /\ UNCHANGED <<bundle, run, job, staging, file>>
  BY DEF IInv, UpdateQuota
<1>2. highest' \in MaxRuntimes /\ value <= highest' /\ highest <= highest'
  <2>1. value \in Nat /\ highest \in Nat /\ highest \in MaxRuntimes
    BY <1>1, ConstantTypes DEF TypeOK
  <2> QED
    BY <2>1 DEF UpdateQuota
<1>3. TypeOK'
  BY <1>1, <1>2 DEF TypeOK, Jobs
<1>4. Keeps
  BY <1>1, <1>2 DEF Keeps
<1>5. AllSound'
  <2> SUFFICES ASSUME NEW t \in Requests PROVE Sound(job[t], bundle', highest')
    BY <1>1 DEF AllSound
  <2> QED
    BY <1>3, <1>4, <1>1, JobParts, SoundKept DEF IInv, AllSound
<1>6. Uploading' /\ Apart'
  BY <1>1 DEF IInv, Uploading, Apart, Writes
<1>7. ReadyIsWhole'
  BY <1>1, <1>3, <1>4, ReadyKept
<1>8. Made'
  BY <1>1, <1>3, <1>4, MadeKept
<1> QED
  BY <1>3, <1>5, <1>6, <1>7, <1>8 DEF IInv

LEMMA CrashKeeps ==
    ASSUME IInv, Crash
    PROVE  IInv'
<1>1. TypeOK /\ UNCHANGED <<bundle, run, staging, file, quota, highest>>
  BY DEF IInv, Crash
<1>2. job' = [t \in Requests |-> NoJob]
  BY DEF Crash
<1>3. TypeOK'
  BY <1>1, <1>2, NoJobType DEF TypeOK, Jobs
<1>4. AllSound' /\ Uploading' /\ Apart'
  BY <1>2, NothingInHand DEF AllSound, Uploading, Apart, Writes
<1>5. ReadyIsWhole' /\ Made'
  BY <1>1 DEF IInv, ReadyIsWhole, Made, MadeOf, Exists
<1> QED
  BY <1>3, <1>4, <1>5 DEF IInv

LEMMA StutterKeeps == IInv /\ UNCHANGED vars => IInv'
BY DEF vars, IInv, TypeOK, Jobs, ReadyIsWhole, AllSound, Sound, Uploading, Apart, Writes,
       Made, MadeOf, Exists

-----------------------------------------------------------------------------
(* The theorems. *)

LEMMA Starts == Init => IInv
<1> SUFFICES ASSUME Init PROVE IInv
  OBVIOUS
<1>1. NoBundle \in BundleRows /\ NoRun \in RunRows
  <2>1. NoSpec \in Specs
    BY DEF NoSpec, Specs
  <2> QED
    BY <2>1 DEF NoBundle, BundleRows, NoRun, RunRows
<1>2. TypeOK
  <2>1. file = <<>> /\ file \in Seq(Sources \union {None, Torn}) /\ Len(file) = 0
    BY DEF Init
  <2>2. highest = quota /\ quota \in MaxRuntimes /\ quota <= highest
    BY ConstantTypes DEF Init
  <2> QED
    BY <1>1, <2>1, <2>2, NoJobType DEF Init, TypeOK
<1>3. \A t \in Requests : ~Writes(job[t]) /\ Sound(job[t], bundle, highest)
  BY DEF Init, NoJob, Writes, Sound
<1>4. ReadyIsWhole /\ Made
  BY DEF Init, NoBundle, NoRun, ReadyIsWhole, Made, Exists
<1> QED
  BY <1>2, <1>3, <1>4 DEF IInv, AllSound, Uploading, Apart

LEMMA Kept == IInv /\ [Next]_vars => IInv'
<1> SUFFICES ASSUME IInv, [Next]_vars PROVE IInv'
  OBVIOUS
<1>1. ASSUME NEW t \in Requests, RequestStep(t) PROVE IInv'
  <2>1. ASSUME NEW s \in Sources, Push(t, s) \/ RunPath(t, s) \/ Upload(t, s) \/ RunArchive(t, s)
        PROVE  IInv'
    BY <2>1, BringsKeeps DEF Push, RunPath, Upload, RunArchive
  <2>2. ASSUME NEW s \in Sources, PackOpen(t, s) PROVE IInv'
    BY <2>2, PackOpenKeeps
  <2>3. ASSUME NEW b \in Bundles, RunBundle(t, b) PROVE IInv'
    BY <2>3, RunBundleKeeps
  <2>4. ASSUME NEW old \in Runs, Retry(t, old) PROVE IInv'
    BY <2>4, RetryKeeps
  <2>5. CASE PackClose(t) \/ PackRead(t)
    BY <2>5, PackCloseKeeps, PackReadKeeps
  <2>6. CASE Receive(t) \/ Unpack(t) \/ MakeReady(t)
    BY <2>6, ReceiveKeeps, UnpackKeeps, MakeReadyKeeps
  <2>7. CASE InsertRun(t)
    BY <2>7, InsertRunKeeps
  <2> QED
    BY <1>1, <2>1, <2>2, <2>3, <2>4, <2>5, <2>6, <2>7 DEF RequestStep
<1>2. ASSUME NEW r \in Runs, Stage(r) PROVE IInv'
  BY <1>2, StageKeeps
<1>3. ASSUME NEW b \in Bundles, Tamper(b) PROVE IInv'
  BY <1>3, TamperKeeps
<1>4. ASSUME NEW value \in MaxRuntimes, UpdateQuota(value) PROVE IInv'
  BY <1>4, UpdateQuotaKeeps
<1>5. CASE Crash
  BY <1>5, CrashKeeps
<1>6. CASE UNCHANGED vars
  BY <1>6, StutterKeeps
<1> QED
  BY <1>1, <1>2, <1>3, <1>4, <1>5, <1>6 DEF Next

LEMMA Always == Spec => []IInv
BY Starts, Kept, PTL DEF Spec

\* The rows, the requests and the staging files keep their types; what is staged in a
\* sandbox is always the text of an upload.
THEOREM BundleTypes == Spec => []TypeOK
BY Always, PTL DEF IInv

\* Whatever clients, crashes and imports of one trainer do at the same time, a READY
\* bundle is one task that was accepted whole.
THEOREM ReadyMeansWhole == Spec => []ReadyIsWhole
<1>1. IInv => ReadyIsWhole
  BY DEF IInv
<1> QED
  BY Always, <1>1, PTL

\* No run is granted more than its profile, for any resources a task may ask for.
THEOREM RunsNeverExceed == Spec => []RunsFit
<1>1. IInv => RunsFit
  <2> SUFFICES ASSUME IInv, NEW r \in Runs, Exists(r)
               PROVE  Granted(Task[run[r].toml].toml, run[r].spec, highest)
    BY DEF RunsFit, Granted
  <2>1. MadeOf(r)
    BY DEF IInv, Made
  <2>2. highest \in Int /\ Task[run[r].toml].toml \in Manifests
    BY <2>1, TypeParts, TaskParts DEF IInv, MadeOf
  <2> QED
    BY <2>1, <2>2, AcceptedFits DEF MadeOf
<1> QED
  BY Always, <1>1, PTL

\* A run of a SwarmBench task has what its file asks for, in the smallest profile.
THEOREM RunsAreServed == Spec => []RunGetsWhatItAsked
<1>1. IInv => RunGetsWhatItAsked
  <2> SUFFICES ASSUME IInv, NEW r \in Runs, Exists(r),
                      Task[run[r].toml].toml.format = "swarmbench"
               PROVE  LET asked == Task[run[r].toml].toml
                          spec == run[r].spec
                      IN  /\ spec.cpu = asked.cpu
                          /\ Covers(spec.memory_gb, asked.memory)
                          /\ Covers(spec.disk_gb, asked.disk)
                          /\ \A p \in Profiles :
                                 Fits(p, spec.cpu, spec.memory_gb)
                                     => RESOURCE_LIMITS[spec.profile].cpu <= RESOURCE_LIMITS[p].cpu
    BY DEF RunGetsWhatItAsked
  <2>1. MadeOf(r)
    BY DEF IInv, Made
  <2>2. highest \in Int /\ Task[run[r].toml].toml \in Manifests
    BY <2>1, TypeParts, TaskParts DEF IInv, MadeOf
  <2> QED
    BY <2>1, <2>2, AcceptedIsServed DEF MadeOf
<1> QED
  BY Always, <1>1, PTL

\* The task.toml in a sandbox is the one that was validated, whatever became of the
\* copy in the workspace.
THEOREM SandboxHasTheTask == Spec => []StagedAsValidated
<1>1. IInv => StagedAsValidated
  BY DEF IInv, Made, MadeOf, StagedAsValidated
<1> QED
  BY Always, <1>1, PTL

=============================================================================
