------------------------------ MODULE MCParents ------------------------------
(* Small instances of ParentWorkspaces for TLC. *)
EXTENDS ParentWorkspaces, TLC

CONSTANTS t1, t2, r1, r2

Alike == Permutations({t1, t2}) \union Permutations({r1, r2})

\* Of the history, what an actor that is careful has still to answer for.
Answerable(x) ==
    \/ job[x].at \in {"find", "mark", "act"} /\ Careful(x)
    \/ job[x].at = "count" /\ x = Reconciler
Relevant ==
    <<row, box, run, job, lock, left, asks, mishaps, crashed,
      [x \in Actors |-> IF Answerable(x) THEN since[x] ELSE {}]>>

=============================================================================
