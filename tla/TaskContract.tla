---------------------------- MODULE TaskContract ----------------------------
(***************************************************************************)
(* What a trainer is promised of tasks and runs, with no archive, request, *)
(* staging file or workspace in sight: a bundle is published once, with a  *)
(* text that passes, and stays as it is; a run is made once, of a          *)
(* published bundle or of a run that is over, is granted what the text     *)
(* says, and is given that text or nothing.                                *)
(***************************************************************************)
EXTENDS Integers

CONSTANTS
    Bundles, Runs,
    Limits,   \* quotas a trainer may have had
    Passing,  \* Passing[q]: the texts that pass under a quota of q
    Grant,    \* Grant[t]: what a run of text t is granted
    NoText, NoGrant

VARIABLES
    stage,    \* of each bundle
    text,     \* of each bundle
    order,    \* the runs: stage, bundle, text, grant, given
    most      \* the highest quota there was

contractVars == <<stage, text, order, most>>

Unmade == [stage |-> "none", bundle |-> 0, text |-> NoText, grant |-> NoGrant, given |-> NoText]

Init ==
    /\ stage = [b \in Bundles |-> "none"]
    /\ text = [b \in Bundles |-> NoText]
    /\ order = [r \in Runs |-> Unmade]
    /\ most \in Limits

Moves(b, from, to) == stage[b] = from /\ stage' = [stage EXCEPT ![b] = to]

\* A task is offered, and turned down or published.
Offer(b) == Moves(b, "none", "offered") /\ UNCHANGED <<text, order, most>>
TurnDown(b) == Moves(b, "offered", "refused") /\ UNCHANGED <<text, order, most>>
Publish(b) ==
    /\ Moves(b, "offered", "published")
    /\ \E t \in Passing[most] : text' = [text EXCEPT ![b] = t]
    /\ UNCHANGED <<order, most>>

Advances(r, from, to, new) ==
    /\ order[r].stage = from /\ order'[r].stage = to
    /\ order' = [order EXCEPT ![r] = new]
    /\ UNCHANGED <<stage, text, most>>

\* A run is made, and the text must still pass.
Order(r, b) ==
    /\ stage[b] = "published"
    /\ Advances(r, "none", "made",
                [stage |-> "made", bundle |-> b, text |-> text[b], grant |-> Grant[text[b]],
                 given |-> NoText])
    /\ text[b] \in Passing[most]

\* A retry is a run of its own, like the old one.
Repeat(r, old) ==
    /\ order[old].stage = "over"
    /\ Advances(r, "none", "made", [order[old] EXCEPT !.stage = "made", !.given = NoText])

\* The run is given its text, or ends before.
Serve(r) ==
    \E t \in {NoText, order[r].text} :
        Advances(r, "made", "over", [order[r] EXCEPT !.stage = "over", !.given = t])

Raise ==
    /\ most' \in {q \in Limits : q > most}
    /\ UNCHANGED <<stage, text, order>>

Next ==
    \/ \E b \in Bundles : Offer(b) \/ TurnDown(b) \/ Publish(b)
    \/ \E r \in Runs, b \in Bundles : Order(r, b)
    \/ \E r \in Runs, old \in Runs : Repeat(r, old)
    \/ \E r \in Runs : Serve(r)
    \/ Raise

Spec == Init /\ [][Next]_contractVars

=============================================================================
