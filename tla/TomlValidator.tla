---------------------------- MODULE TomlValidator ----------------------------
(***************************************************************************)
(* api/app/toml_validator.py: which task files are accepted, and what a    *)
(* run of an accepted one is granted.                                      *)
(*                                                                         *)
(* A manifest is what tomllib makes of a task.toml. Texts are reduced to   *)
(* whether they pass; a missing number is the default the code gives it.   *)
(***************************************************************************)
EXTENDS Integers

Profiles == {"small", "medium", "large", "xlarge"}

RESOURCE_LIMITS ==
    [p \in Profiles |->
        CASE p = "small" -> [cpu |-> 2, memory_gb |-> 4, disk_gb |-> 20]
          [] p = "medium" -> [cpu |-> 4, memory_gb |-> 8, disk_gb |-> 40]
          [] p = "large" -> [cpu |-> 8, memory_gb |-> 16, disk_gb |-> 80]
          [] p = "xlarge" -> [cpu |-> 16, memory_gb |-> 32, disk_gb |-> 160]]

\* format: no TOML at all, a [task] with [metadata] and [environment], or the
\* program's own; complete: the sections and fields it must have are there; named:
\* the task's name, or the working directory, begins as it must; safe: the image is
\* pinned, secrets are references and something is kept; stated: cpu, memory and
\* disk are given; labelled: it says itself that it is a task for Harbor.
Manifests ==
    [format : {"invalid", "swarmbench", "aegisrun"}, complete : BOOLEAN, named : BOOLEAN,
     safe : BOOLEAN, stated : BOOLEAN, labelled : BOOLEAN, profile : Profiles \union {"other"},
     cpu : Int, memory : Int, disk : Int, timeout : Int]

Fits(p, cpu, memory_gb) ==
    cpu <= RESOURCE_LIMITS[p].cpu /\ memory_gb <= RESOURCE_LIMITS[p].memory_gb

-----------------------------------------------------------------------------
(* The program's own format asks in GB and names its profile. *)

\* With a mistake: the quota is not looked at.
AcceptsAnyTimeout(m, max_runtime_seconds) ==
    /\ m.format = "aegisrun" /\ m.complete /\ m.named /\ m.safe
    /\ m.profile \in Profiles
    /\ Fits(m.profile, m.cpu, m.memory)
    /\ m.disk <= RESOURCE_LIMITS[m.profile].disk_gb

AcceptsAegisrun(m, max_runtime_seconds) ==
    /\ m.format = "aegisrun" /\ m.complete /\ m.named /\ m.safe
    /\ m.timeout <= max_runtime_seconds
    /\ m.profile \in Profiles
    /\ Fits(m.profile, m.cpu, m.memory)
    /\ m.disk <= RESOURCE_LIMITS[m.profile].disk_gb

Own(m) ==
    [profile |-> m.profile, cpu |-> m.cpu, memory_gb |-> m.memory, disk_gb |-> m.disk,
     timeout |-> m.timeout,
     task_type |-> IF m.labelled THEN "swarmbench-harbor" ELSE "none"]

-----------------------------------------------------------------------------
(* A SwarmBench file asks in MB, and the smallest profile is found for it. *)

\* With a mistake: the part of a GB is lost.
Floor(mb) == IF mb \div 1024 > 1 THEN mb \div 1024 ELSE 1

CeilGb(mb) == IF (mb + 1023) \div 1024 > 1 THEN (mb + 1023) \div 1024 ELSE 1

Profile(cpu, memory_gb) ==
    CASE Fits("small", cpu, memory_gb) -> "small"
      [] ~Fits("small", cpu, memory_gb) /\ Fits("medium", cpu, memory_gb) -> "medium"
      [] ~Fits("medium", cpu, memory_gb) /\ Fits("large", cpu, memory_gb) -> "large"
      [] ~Fits("large", cpu, memory_gb) /\ Fits("xlarge", cpu, memory_gb) -> "xlarge"
      [] OTHER -> "other"

\* min(timeout, max_runtime_seconds) is the timeout, for it was accepted.
Resolved(m) ==
    [profile |-> Profile(m.cpu, CeilGb(m.memory)), cpu |-> m.cpu,
     memory_gb |-> CeilGb(m.memory), disk_gb |-> CeilGb(m.disk),
     timeout |-> m.timeout, task_type |-> "swarmbench-harbor"]

AcceptsSwarmbench(m, max_runtime_seconds) ==
    /\ m.format = "swarmbench" /\ m.named /\ m.complete
    /\ m.cpu > 0 /\ m.memory > 0 /\ m.disk > 0
    /\ m.timeout <= max_runtime_seconds
    /\ LET p == Resolved(m).profile
       IN  p \in Profiles /\ CeilGb(m.disk) <= RESOURCE_LIMITS[p].disk_gb

-----------------------------------------------------------------------------

\* validate_task_toml: nothing is raised.
Accepts(m, max_runtime_seconds) ==
    AcceptsSwarmbench(m, max_runtime_seconds) \/ AcceptsAegisrun(m, max_runtime_seconds)

\* The NormalizedTask it returns then.
Normalized(m) == IF m.format = "swarmbench" THEN Resolved(m) ELSE Own(m)

=============================================================================
