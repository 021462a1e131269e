------------------------------ MODULE EventLog ------------------------------
(***************************************************************************)
(* api/app/events.py: the events of one run, numbered by whoever writes    *)
(* them: the run's thread, and the requests that cancel the run; and those *)
(* who follow the run: runnerctl and the gateway, which poll, and the      *)
(* readers of /v1/runs/{id}/stream.                                        *)
(*                                                                         *)
(* A step is one transaction or one query: the next number is read by one  *)
(* statement, the event is inserted and committed by another.              *)
(***************************************************************************)
EXTENDS Integers, Sequences

CONSTANTS
    Thread,     \* the thread of _execute_run_thread
    Cancels,    \* requests to cancel the run
    Followers,  \* whoever follows the run
    MaxLines    \* lines the sandbox prints at most

Writers == {Thread} \union Cancels

\* runnerctl's and the gateway's follow_run poll; a stream is read as it comes.
Kinds == {"poll", "stream"}

ASSUME LinesType == MaxLines \in Nat
ASSUME ThreadName == Thread \notin Cancels

VARIABLES
    state,     \* runs.state
    packaged,  \* the artifacts row of the run has been committed
    log,       \* run_events in the order of insertion: n (sequence_number), what, by
    job,       \* what each writer does next: does, what, num (the number it took)
    follower   \* kind, at, seen (last number printed), shown (numbers printed), fresh

vars == <<state, packaged, log, job, follower>>

TERMINAL_RUN_STATES == {"SUCCEEDED", "FAILED", "TIMED_OUT", "CANCELLED", "INFRA_FAILED"}

-----------------------------------------------------------------------------

Do(does, what) == [does |-> does, what |-> what, num |-> 0]
Event(what) == Do("number", what)   \* call add_event
Save(s) == Do("save", s)            \* commit a state
Rest == Do("rest", "")

Raise == Save("INFRA_FAILED")
\* SANDBOX_DESTROYED stands for CLEANUP_FAILED too; some failures end without either.
Cleanup == {Event("SANDBOX_DESTROYED"), Rest}
Lines == Len(SelectSeq(log, LAMBDA e : e.what = "LOG"))

\* What the thread does once it has written an event. The lines of the sandbox
\* come from its log stream; a late one ends it.
AfterEvent(what) ==
    CASE what = "RUN_STARTED" -> {Save("STAGING_INPUTS")}
      [] what = "INPUTS_STAGED" -> {Save("RUNNING")}
      [] what = "TASK_CONFIG_RESOLVED" -> {Event("SANDBOX_CREATING")}
      [] what = "SANDBOX_CREATING" -> {Event("SANDBOX_CREATED"), Raise}
      [] what \in {"SANDBOX_CREATED", "LOG"} ->
             {Do("check", ""), Save("TIMED_OUT"), Raise} \union
             (IF Lines < MaxLines THEN {Event("LOG")} ELSE {})
      [] what = "RUN_TIMED_OUT" -> {Do("check", "")}
      [] what = "RESULT_COPIED_TO_PARENT" -> {Event("RUN_COMPLETED")}
      [] what \in {"RUN_COMPLETED", "RUN_CANCELLED", "INFRA_FAILED"} -> Cleanup
      [] what = "SANDBOX_DESTROYED" -> {Rest}

\* What a writer does once it has committed a state. A cancellation that cannot
\* remove the sandbox ends without an event.
AfterState(s) ==
    CASE s = "STAGING_INPUTS" -> {Event("INPUTS_STAGED"), Raise}
      [] s = "RUNNING" -> {Event("TASK_CONFIG_RESOLVED"), Raise}
      [] s = "TIMED_OUT" -> {Event("RUN_TIMED_OUT")}
      [] s = "COLLECTING_OUTPUTS" -> {Event("RESULT_COPIED_TO_PARENT"), Raise}
      [] s = "INFRA_FAILED" -> {Event("INFRA_FAILED")}
      [] s = "CANCELLED" -> {Event("RUN_CANCELLED"), Rest}

\* With a mistake: the state is what the clients call it.
PassOrFail(what) == IF what = "RUN_COMPLETED" THEN {"PASS", "FAIL"} ELSE {state}

\* The verdict is flushed with RUN_COMPLETED, the artifact with the event before.
Verdicts(what) == IF what = "RUN_COMPLETED" THEN {"SUCCEEDED", "FAILED"} ELSE {state}

NewFollower(kind) ==
    [kind |-> kind, at |-> "fetch", seen |-> 0, shown |-> {}, fresh |-> FALSE]

Init ==
    /\ state = "PROVISIONING"
    /\ packaged = FALSE
    /\ log = <<>>
    /\ \E first \in {Event("RUN_STARTED"), Raise} :
          job = [w \in Writers |-> IF w = Thread THEN first ELSE Do("load", "CANCELLED")]
    /\ \E kind \in [Followers -> Kinds] : follower = [f \in Followers |-> NewFollower(kind[f])]

-----------------------------------------------------------------------------
(* The writers. *)

Goes(w, j) == job' = [job EXCEPT ![w] = j]

\* coalesce(max(sequence_number), 0), of what is committed.
Highest(m) ==
    \/ log = <<>> /\ m = 0
    \/ \E i \in DOMAIN log : log[i].n = m /\ \A k \in DOMAIN log : log[k].n <= m

Numbers(w, n) ==
    /\ job[w].does = "number"
    /\ Goes(w, [does |-> "publish", what |-> job[w].what, num |-> n])
    /\ UNCHANGED <<state, packaged, log, follower>>

\* With a mistake: the number is taken from the count of the events.
CountEvents(w) == Numbers(w, Len(log) + 1)

\* With a mistake: coalesce(max, 1) is the number itself.
NoIncrement(w) == \E m \in 0..Len(log) : Highest(m) /\ Numbers(w, IF m = 0 THEN 1 ELSE m)

\* add_event reads the next number.
TakeNumber(w) == \E m \in 0..Len(log) : Highest(m) /\ Numbers(w, m + 1)

\* It inserts the event; the commit takes along what else the session holds.
Publish(w) ==
    /\ job[w].does = "publish"
    /\ log' = Append(log, [n |-> job[w].num, what |-> job[w].what, by |-> w])
    /\ state' \in Verdicts(job[w].what)
    /\ packaged' = (packaged \/ job[w].what = "RESULT_COPIED_TO_PARENT")
    /\ \E j \in IF w = Thread THEN AfterEvent(job[w].what) ELSE {Rest} : Goes(w, j)
    /\ UNCHANGED follower

Commit(w) ==
    /\ job[w].does = "save"
    /\ state' = job[w].what
    /\ \E j \in AfterState(job[w].what) : Goes(w, j)
    /\ UNCHANGED <<packaged, log, follower>>

\* With a mistake: the result is collected once the verdict is out.
CollectLater ==
    IF state = "CANCELLED" THEN {Event("RUN_CANCELLED")}
                           ELSE {Event("RUN_COMPLETED"), Raise}

\* A cancelled run is left as it is; else its result is collected.
Collected ==
    IF state = "CANCELLED" THEN {Event("RUN_CANCELLED")}
                           ELSE {Save("COLLECTING_OUTPUTS"), Raise}

\* The sandbox has ended and the thread reads the row again.
CheckCancelled ==
    /\ job[Thread].does = "check"
    /\ \E j \in Collected : Goes(Thread, j)
    /\ UNCHANGED <<state, packaged, log, follower>>

\* cancel_run loads the row; a run that is over is refused.
Cancel(w) ==
    /\ job[w].does = "load"
    /\ Goes(w, IF state \in TERMINAL_RUN_STATES THEN Rest ELSE Save("CANCELLED"))
    /\ UNCHANGED <<state, packaged, log, follower>>

WriterStep(w) == TakeNumber(w) \/ Publish(w) \/ Commit(w)
ThreadStep == WriterStep(Thread) \/ CheckCancelled
CancelStep(w) == Cancel(w) \/ WriterStep(w)

-----------------------------------------------------------------------------
(* The followers. *)

\* With a mistake: a page of one event at a time, the newest first.
FetchNewest(f) ==
    /\ follower[f].at = "fetch"
    /\ \E m \in 0..Len(log) :
          /\ Highest(m)
          /\ follower' = [follower EXCEPT ![f] =
                 [kind |-> follower[f].kind, at |-> "look", seen |-> m,
                  fresh |-> m > follower[f].seen,
                  shown |-> follower[f].shown \union ({m} \ {0})]]
    /\ UNCHANGED <<state, packaged, log, job>>

\* The events are fetched and those above the last number are printed.
Fetch(f) ==
    /\ follower[f].at = "fetch"
    /\ LET new == {i \in DOMAIN log : log[i].n > follower[f].seen}
       IN  \E m \in 0..Len(log) :
              /\ Highest(m)
              /\ follower' = [follower EXCEPT ![f] =
                     [kind |-> follower[f].kind, at |-> "look", seen |-> m,
                      fresh |-> follower[f].kind = "stream" /\ new # {},
                      shown |-> follower[f].shown \union {log[i].n : i \in new}]]
    /\ UNCHANGED <<state, packaged, log, job>>

\* With a mistake: the clients' own list of terminal states misses one.
OverForMost == state \in TERMINAL_RUN_STATES \ {"INFRA_FAILED"}

Over == state \in TERMINAL_RUN_STATES

\* With a mistake: a stream ends as soon as nothing is new.
LookOnce(f) ==
    /\ follower[f].at = "look"
    /\ LET end == IF follower[f].kind = "stream" THEN ~follower[f].fresh ELSE Over
       IN  follower' = [follower EXCEPT ![f] =
               [kind |-> follower[f].kind, at |-> IF end THEN "ended" ELSE "fetch",
                seen |-> follower[f].seen, shown |-> follower[f].shown, fresh |-> FALSE]]
    /\ UNCHANGED <<state, packaged, log, job>>

\* Then the run is: a poller ends when it is over, a stream when besides nothing
\* was new.
Look(f) ==
    /\ follower[f].at = "look"
    /\ LET end == Over /\ (follower[f].kind = "stream" => ~follower[f].fresh)
       IN  follower' = [follower EXCEPT ![f] =
               [kind |-> follower[f].kind, at |-> IF end THEN "ended" ELSE "fetch",
                seen |-> follower[f].seen, shown |-> follower[f].shown, fresh |-> FALSE]]
    /\ UNCHANGED <<state, packaged, log, job>>

Follow(f) == Fetch(f) \/ Look(f)

Next ==
    \/ ThreadStep
    \/ \E w \in Cancels : CancelStep(w)
    \/ \E f \in Followers : Follow(f)

Spec == Init /\ [][Next]_vars

\* The thread comes to its end, as the sandbox does, and a follower keeps asking.
FairSpec == Spec /\ WF_vars(ThreadStep) /\ \A f \in Followers : WF_vars(Follow(f))

-----------------------------------------------------------------------------

Events ==
    {"RUN_STARTED", "INPUTS_STAGED", "TASK_CONFIG_RESOLVED", "SANDBOX_CREATING",
     "SANDBOX_CREATED", "LOG", "RUN_TIMED_OUT", "RUN_CANCELLED",
     "RESULT_COPIED_TO_PARENT", "RUN_COMPLETED", "INFRA_FAILED", "SANDBOX_DESTROYED"}
Saved ==
    {"STAGING_INPUTS", "RUNNING", "TIMED_OUT", "COLLECTING_OUTPUTS", "INFRA_FAILED",
     "CANCELLED"}
States == {"PROVISIONING", "SUCCEEDED", "FAILED"} \union Saved

\* What is written is an event, what is saved a state, and numbers start at 1.
TypeOK ==
    /\ state \in States
    /\ packaged \in BOOLEAN
    /\ log \in Seq([n : Nat \ {0}, what : Events, by : Writers])
    /\ job \in [Writers -> [does : {"number", "publish", "save", "check", "load", "rest"},
                            what : Events \union States \union {""}, num : Nat]]
    /\ \A w \in Writers : /\ job[w].does \in {"number", "publish"} => job[w].what \in Events
                          /\ job[w].does = "publish" => job[w].num > 0
                          /\ job[w].does = "save" => job[w].what \in Saved
    /\ follower \in [Followers -> [kind : Kinds, at : {"fetch", "look", "ended"}, seen : Nat,
                                   shown : SUBSET Nat, fresh : BOOLEAN]]

\* The numbers have no gaps at any moment, though the next one is read outside the
\* transaction that inserts it: an event comes after all the numbers before its
\* own, whoever wrote them.
GapFree ==
    \A i \in DOMAIN log : \A n \in 1..log[i].n : \E k \in 1..i : log[k].n = n

\* Two events may share a number, but only when a request and the thread, or two
\* requests, wrote them at the same time: no writer numbers two events alike.
TwinsDiffer ==
    \A i, k \in DOMAIN log : i # k /\ log[i].n = log[k].n => log[i].by # log[k].by

\* A follower that asks for what is above the last number it printed passes over
\* no number: what is still to be inserted is never below it.
NothingSkipped == \A f \in Followers : follower[f].shown = 1..follower[f].seen

\* Whoever is told that the run succeeded finds its package, and the verdict and
\* the copy of the result among the events.
SuccessHasPackage ==
    state = "SUCCEEDED" =>
        /\ packaged
        /\ {"RESULT_COPIED_TO_PARENT", "RUN_COMPLETED"} \subseteq {log[i].what : i \in DOMAIN log}

\* The log and its followers implement the feed: numbers grow one by one, whoever reads
\* has printed exactly what was issued by then, and nobody leaves a run that is not over.
Feed == INSTANCE EventFeed WITH
            issued <- {log[i].n : i \in DOMAIN log},
            shown <- [f \in Followers |-> follower[f].shown],
            gone <- {f \in Followers : follower[f].at = "ended"},
            over <- Over
ImplementsFeed == Feed!Spec

\* Nobody follows a run for ever: whatever the requests do to its state, the
\* followers see it over, and a stream sees the events stop.
FollowersEnd == \A f \in Followers : <>(follower[f].at = "ended")

=============================================================================
