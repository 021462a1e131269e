-------------------------- MODULE ExecutionContract --------------------------
(***************************************************************************)
(* What the control plane promises of the runs it accepts, with no thread, *)
(* lock, row state or drain in sight: a run is listed once and executed at *)
(* most once; the runs of a trainer start in the order they were listed,   *)
(* except those withdrawn before they started; a run has at most one       *)
(* sandbox, opened only while the run executes, and a sandbox once         *)
(* destroyed never comes back.                                             *)
(***************************************************************************)
EXTENDS Integers

CONSTANTS Runs, Owner

VARIABLES phase,   \* what has become of each run
          at,      \* when it was listed, 0 before
          now,     \* the last time handed out
          box      \* its sandbox

contractVars == <<phase, at, now, box>>

Phases == {"absent", "waiting", "withdrawn", "executing", "over"}
Boxes == {"none", "open", "destroyed"}

Init ==
    /\ phase = [r \in Runs |-> "absent"]
    /\ at = [r \in Runs |-> 0]
    /\ now = 0
    /\ box = [r \in Runs |-> "none"]

\* A run is listed behind all others.
List(r) ==
    /\ phase[r] = "absent"
    /\ phase' = [phase EXCEPT ![r] = "waiting"]
    /\ now' = now + 1
    /\ at' = [at EXCEPT ![r] = now + 1]
    /\ UNCHANGED box

\* Somebody gives up on a run before it starts.
Withdraw(r) ==
    /\ phase[r] = "waiting"
    /\ phase' = [phase EXCEPT ![r] = "withdrawn"]
    /\ UNCHANGED <<at, now, box>>

\* A run starts when no run of its trainer that still waits is older. A run
\* withdrawn at the last moment may start all the same.
Start(r) ==
    /\ phase[r] \in {"waiting", "withdrawn"}
    /\ \A s \in Runs : phase[s] = "waiting" /\ Owner[s] = Owner[r] => at[r] <= at[s]
    /\ phase' = [phase EXCEPT ![r] = "executing"]
    /\ UNCHANGED <<at, now, box>>

\* Executions end one by one, or many at once when the process dies.
End ==
    /\ \E S \in (SUBSET {r \in Runs : phase[r] = "executing"}) \ {{}} :
          phase' = [r \in Runs |-> IF r \in S THEN "over" ELSE phase[r]]
    /\ UNCHANGED <<at, now, box>>

OpenBox(r) ==
    /\ phase[r] = "executing"
    /\ box[r] = "none"
    /\ box' = [box EXCEPT ![r] = "open"]
    /\ UNCHANGED <<phase, at, now>>

DestroyBox(r) ==
    /\ box[r] = "open"
    /\ box' = [box EXCEPT ![r] = "destroyed"]
    /\ UNCHANGED <<phase, at, now>>

Next ==
    \/ \E r \in Runs : List(r) \/ Withdraw(r) \/ Start(r) \/ OpenBox(r) \/ DestroyBox(r)
    \/ End

Spec == Init /\ [][Next]_contractVars

=============================================================================
