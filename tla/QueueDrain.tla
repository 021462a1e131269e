----------------------------- MODULE QueueDrain -----------------------------
(***************************************************************************)
(* start_queue_drain and _drain_user_queue: under _runner_lock, look at    *)
(* every user with a queued run, count the user's active rows, select the  *)
(* oldest queued rows that still fit, and start a thread for each.         *)
(***************************************************************************)
EXTENDS RunTable

outsideDrain == <<held, exitZero, overdue, container, requestVars, quotaVars,
                  sweepVars, crashes>>

\* With a mistake: no ORDER BY, no LIMIT.
AnyThatFit(B, Q, n) == B \subseteq Q /\ Cardinality(B) <= n
AllOfThem(B, Q, n) == B = Q

\* B is what ORDER BY queued_at LIMIT n returns from the rows Q: as many as fit,
\* and none that is younger than one left out.
IsOldest(B, Q, n) ==
    /\ B \subseteq Q
    /\ Cardinality(B) <= n
    /\ Cardinality(B) = n \/ B = Q
    /\ \A b \in B, q \in Q \ B : queuedAt[b] <= queuedAt[q]

DrainInit ==
    /\ lock = NoDrainer
    /\ dpc = [d \in Drainers |-> "out"]
    /\ todo = [d \in Drainers |-> {}]
    /\ duser = [d \in Drainers |-> NoUser]
    /\ room = [d \in Drainers |-> 0]
    /\ batch = [d \in Drainers |-> {}]
    /\ pending = 1      \* startup() calls start_queue_drain

-----------------------------------------------------------------------------

\* With a mistake: nobody called, or the lock is not waited for.
Uncalled == TRUE
Unlocked == TRUE

Called == pending > 0
Unheld == lock = NoDrainer

\* with _runner_lock: ...; users = {row.user_id for row in QUEUED rows}.
DrainStart(d) ==
    /\ Called
    /\ dpc[d] = "out"
    /\ Unheld
    /\ lock' = d
    /\ pending' = pending - 1
    /\ todo' = [todo EXCEPT ![d] = {u \in Users : Queued(u) # {}}]
    /\ dpc' = [dpc EXCEPT ![d] = "next"]
    /\ UNCHANGED <<outsideDrain, rowVars, pc, duser, room, batch>>

\* Count the active rows of the next user; a user without room is passed over.
DrainCount(d, u) ==
    /\ dpc[d] = "next"
    /\ u \in todo[d]
    /\ LET available == quota[u] - Cardinality(Active(u))
       IN  \/ /\ available <= 0
              /\ UNCHANGED <<dpc, duser, room>>
           \/ /\ available > 0
              /\ room' = [room EXCEPT ![d] = available]
              /\ duser' = [duser EXCEPT ![d] = u]
              /\ dpc' = [dpc EXCEPT ![d] = "select"]
    /\ todo' = [todo EXCEPT ![d] = @ \ {u}]
    /\ UNCHANGED <<outsideDrain, rowVars, pc, lock, batch, pending>>

\* Select the oldest queued rows of the user, at most available of them.
DrainSelect(d) ==
    /\ dpc[d] = "select"
    /\ \E B \in SUBSET Queued(duser[d]) :
          /\ IsOldest(B, Queued(duser[d]), room[d])
          /\ batch' = [batch EXCEPT ![d] = B]
    /\ dpc' = [dpc EXCEPT ![d] = "dispatch"]
    /\ UNCHANGED <<outsideDrain, rowVars, pc, lock, todo, duser, room, pending>>

\* With a mistake: the thread is started and the row is left QUEUED until it runs.
LeaveQueued(r) == UNCHANGED <<state, revived>>

MarkDispatched(r) == Write(r, "PROVISIONING")

\* run.state = PROVISIONING; commit; start the thread. The selected rows are
\* not read again: the write lands on whatever the row says by now.
DrainDispatch(d) ==
    /\ dpc[d] = "dispatch"
    /\ \E r \in batch[d] :
          /\ \A s \in batch[d] : queuedAt[r] <= queuedAt[s]
          /\ batch' = [batch EXCEPT ![d] = @ \ {r}]
          /\ MarkDispatched(r)
          /\ pc' = [pc EXCEPT ![r] = "load"]
    /\ UNCHANGED <<outsideDrain, queuedAt, clock, hasId, passed, packaged, cleanup,
                   lock, dpc, todo, duser, room, pending>>

\* The batch is dispatched: back to the loop over the users.
DrainNext(d) ==
    /\ dpc[d] = "dispatch"
    /\ batch[d] = {}
    /\ dpc' = [dpc EXCEPT ![d] = "next"]
    /\ UNCHANGED <<outsideDrain, rowVars, pc, lock, todo, duser, room, batch, pending>>

\* No user is left: the locals go, the session closes, the lock is released.
DrainEnd(d) ==
    /\ dpc[d] = "next"
    /\ todo[d] = {}
    /\ dpc' = [dpc EXCEPT ![d] = "out"]
    /\ lock' = NoDrainer
    /\ duser' = [duser EXCEPT ![d] = NoUser]
    /\ room' = [room EXCEPT ![d] = 0]
    /\ UNCHANGED <<outsideDrain, rowVars, pc, todo, batch, pending>>

DrainStep(d) ==
    \/ DrainStart(d)
    \/ \E u \in Users : DrainCount(d, u)
    \/ DrainSelect(d)
    \/ DrainDispatch(d)
    \/ DrainNext(d)
    \/ DrainEnd(d)

=============================================================================
