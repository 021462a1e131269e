------------------------------ MODULE EventFeed ------------------------------
(***************************************************************************)
(* What whoever follows a run is promised, with no writer, query or page   *)
(* in sight: the numbers of the events grow one by one; a follower that    *)
(* reads has printed every number issued by then, and none twice over; and *)
(* it takes its leave once, when it finds the run over.                    *)
(***************************************************************************)
EXTENDS Integers

CONSTANT Followers

VARIABLES issued,  \* the numbers events have been given
          shown,   \* the numbers each follower has printed
          gone,    \* followers that have taken their leave
          over     \* whether the run is in a terminal state

feedVars == <<issued, shown, gone, over>>

Init ==
    /\ issued = {}
    /\ shown = [f \in Followers |-> {}]
    /\ gone = {}
    /\ over = FALSE

\* An event has the number after one that has been issued, or the first: two events
\* written at once may share theirs. The state of the run may change along with it.
Write ==
    /\ \E n \in {m + 1 : m \in issued \union {0}} : issued' = issued \union {n}
    /\ over' \in BOOLEAN
    /\ UNCHANGED <<shown, gone>>

\* The run ends, or is taken up again by a thread that does not know.
Turn ==
    /\ over' = ~over
    /\ UNCHANGED <<issued, shown, gone>>

Read(f) ==
    /\ f \notin gone
    /\ shown' = [shown EXCEPT ![f] = issued]
    /\ UNCHANGED <<issued, gone, over>>

Leave(f) ==
    /\ f \notin gone
    /\ over
    /\ gone' = gone \union {f}
    /\ UNCHANGED <<issued, shown, over>>

Next ==
    \/ Write \/ Turn
    \/ \E f \in Followers : Read(f) \/ Leave(f)

Spec == Init /\ [][Next]_feedVars

=============================================================================
