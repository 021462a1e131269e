--------------------------- MODULE MCDockerRunner ---------------------------
(***************************************************************************)
(* Small instances of DockerRunner for TLC. Runs are split into those that *)
(* are submitted and the one that only exists as a retry, and symmetry     *)
(* permutes only runs that every constant treats alike.                    *)
(***************************************************************************)
EXTENDS DockerRunner, TLC

CONSTANTS r1, r2, r3, u1, u2, d1, d2

OneOwner == [r \in Runs |-> u1]
TwoOwners == [r \in Runs |-> IF r = r3 THEN u2 ELSE u1]

One == [u \in Users |-> 1]
Two == [u \in Users |-> 2]

TwoDrainers == Permutations({d1, d2})
FirstTwoAlike == Permutations({r1, r2}) \union Permutations(Drainers)

\* Views leave out only what neither a guard of the instance nor a property of the run
\* reads, so states they identify behave alike: the history of the requests under way;
\* or, where nothing fails and nothing is retried, whether a run succeeded.
Moving == <<queuedAt, clock, revived, pc, held, overdue, container, drainVars, pending,
            cancel, admitted, quotaVars, sweepVars, crashes>>
WithoutCrowd == <<Moving, state, hasId, passed, packaged, cleanup, exitZero>>
Ending(s) == IF s \in {"SUCCEEDED", "FAILED"} THEN "either" ELSE s
WithoutEndings == <<Moving, [r \in Runs |-> Ending(state[r])], hasId, crowd>>

=============================================================================
