------------------------------ MODULE MCBundles ------------------------------
(***************************************************************************)
(* Tasks for TLC: a folder whose memory and disk are just over a whole GB, *)
(* an archive of the program's own format with task.toml further down, at  *)
(* its profile's and the highest quota's limits, and a folder with a link. *)
(***************************************************************************)
EXTENDS TaskBundles, FiniteSets, TLC

CONSTANTS q1, q2
Alike == Permutations({q1, q2})

Fine ==
    [format |-> "swarmbench", complete |-> TRUE, named |-> TRUE, safe |-> TRUE,
     stated |-> TRUE, labelled |-> FALSE, profile |-> "small", cpu |-> 2, memory |-> 4097,
     disk |-> 19457, timeout |-> 60]

Folder ==
    [size |-> 1, archive |-> FALSE, rooted |-> TRUE, tomls |-> 1, links |-> FALSE,
     toml |-> Fine]

OwnFormat ==
    [Fine EXCEPT !.format = "aegisrun", !.memory = 4, !.disk = 20, !.timeout = 120]

MCTask ==
    [s \in Sources |->
        CASE s = "folder" -> Folder
          [] s = "nested" -> [Folder EXCEPT !.archive = TRUE, !.rooted = FALSE,
                                            !.toml = OwnFormat]
          [] s = "linked" -> [Folder EXCEPT !.links = TRUE]]

\* Forgotten are the row of a bundle that is not READY and that no request has in hand,
\* the quota a request goes by once it has validated the task, which file it has read,
\* and the staging files that have neither a name nor a reader or writer. The others
\* are counted from the oldest.
Abandoned(b) ==
    bundle[b].state \in {"UPLOADING", "REJECTED"} /\ \A t \in Requests : job[t].b # b
Live ==
    {f \in DOMAIN file :
        f = staging \/ \E t \in Requests : job[t].at \in {"packing", "receive"} /\ job[t].fd = f}
Nth(f) == Cardinality({g \in Live : g <= f})
JobAsFarAsItMatters(j) ==
    [j EXCEPT !.fd = CASE @ = 0 -> 0
                       [] @ # 0 /\ j.at \in {"unpack", "ready"} -> 1
                       [] OTHER -> Nth(@),
              !.limit = IF j.at = "ready" THEN 0 ELSE @]
Forgetful ==
    <<[b \in Bundles |-> IF Abandoned(b) THEN "abandoned" ELSE bundle[b]],
      run, [t \in Requests |-> JobAsFarAsItMatters(job[t])],
      IF staging = 0 THEN 0 ELSE Nth(staging), quota, highest,
      {<<Nth(f), file[f]>> : f \in Live}>>

=============================================================================
