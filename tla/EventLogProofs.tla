--------------------------- MODULE EventLogProofs ---------------------------
(***************************************************************************)
(* What holds of the events of a run for any number of cancel requests,    *)
(* followers and lines. The argument is about the number a writer has      *)
(* taken and not yet inserted: the numbers below it are all in the log,    *)
(* and no event of the same writer has it or a greater one.                *)
(***************************************************************************)
EXTENDS EventLog, TLAPS

JobType ==
    [does : {"number", "publish", "save", "check", "load", "rest"},
     what : Events \union States \union {""}, num : Nat]

WellFormed(j) ==
    /\ j \in JobType
    /\ j.does \in {"number", "publish"} => j.what \in Events
    /\ j.does = "publish" => j.num > 0
    /\ j.does = "save" => j.what \in Saved

Entry == [n : Nat \ {0}, what : Events, by : Writers]
Follows ==
    [kind : Kinds, at : {"fetch", "look", "ended"}, seen : Nat, shown : SUBSET Nat,
     fresh : BOOLEAN]

LEMMA TypeParts ==
    TypeOK <=> /\ state \in States /\ packaged \in BOOLEAN
               /\ log \in Seq(Entry)
               /\ job \in [Writers -> JobType] /\ \A w \in Writers : WellFormed(job[w])
               /\ follower \in [Followers -> Follows]
BY DEF TypeOK, WellFormed, JobType, Entry, Follows

LEMMA TypePartsNext ==
    TypeOK' <=> /\ state' \in States /\ packaged' \in BOOLEAN
                /\ log' \in Seq(Entry)
                /\ job' \in [Writers -> JobType] /\ \A w \in Writers : WellFormed(job'[w])
                /\ follower' \in [Followers -> Follows]
BY DEF TypeOK, WellFormed, JobType, Entry, Follows

LEMMA NewJobs ==
    /\ \A what \in Events : WellFormed(Event(what))
    /\ \A s \in Saved : WellFormed(Save(s))
    /\ WellFormed(Rest) /\ WellFormed(Do("check", "")) /\ WellFormed(Do("load", "CANCELLED"))
BY DEF WellFormed, JobType, Event, Save, Rest, Do, Events, Saved, States

LEMMA NewNumber ==
    ASSUME NEW what \in Events, NEW n \in Nat \ {0}
    PROVE  WellFormed([does |-> "publish", what |-> what, num |-> n])
<1>1. n \in Nat /\ n > 0
  OBVIOUS
<1> QED
  BY <1>1 DEF WellFormed, JobType

LEMMA JobsAfter ==
    /\ \A what \in Events : \A j \in AfterEvent(what) : WellFormed(j)
    /\ \A s \in Saved : \A j \in AfterState(s) : WellFormed(j)
    /\ \A j \in Collected : WellFormed(j)
<1>1. /\ \A what \in Events : Event(what) \in {j \in JobType : WellFormed(j)}
      /\ \A s \in Saved : Save(s) \in {j \in JobType : WellFormed(j)}
      /\ Rest \in {j \in JobType : WellFormed(j)}
      /\ Do("check", "") \in {j \in JobType : WellFormed(j)}
  BY NewJobs DEF WellFormed
<1>2. ASSUME NEW what \in Events PROVE \A j \in AfterEvent(what) : WellFormed(j)
  BY <1>1 DEF AfterEvent, Cleanup, Raise, Events, Saved
<1>3. ASSUME NEW s \in Saved PROVE \A j \in AfterState(s) : WellFormed(j)
  BY <1>1 DEF AfterState, Raise, Events, Saved
<1>4. \A j \in Collected : WellFormed(j)
  BY <1>1 DEF Collected, Raise, Events, Saved
<1> QED
  BY <1>2, <1>3, <1>4

\* A writer publishes only what it has numbered.
LEMMA NotPublishing ==
    /\ \A what \in Events : \A j \in AfterEvent(what) : j.does # "publish"
    /\ \A s \in Saved : \A j \in AfterState(s) : j.does # "publish"
    /\ \A j \in Collected : j.does # "publish"
    /\ \A j \in {Rest, Save("CANCELLED")} : j.does # "publish"
<1> DEFINE Quiet == {"number", "save", "rest", "check"}
<1>1. /\ \A what : Event(what).does \in Quiet
      /\ \A s : Save(s).does \in Quiet
      /\ Rest.does \in Quiet /\ Do("check", "").does \in Quiet
  BY DEF Event, Save, Rest, Do
<1> HIDE DEF Quiet
<1>2. ASSUME NEW what \in Events PROVE \A j \in AfterEvent(what) : j.does \in Quiet
  BY <1>1 DEF AfterEvent, Cleanup, Raise, Events
<1>3. ASSUME NEW s \in Saved PROVE \A j \in AfterState(s) : j.does \in Quiet
  BY <1>1 DEF AfterState, Raise, Saved
<1>4. \A j \in Collected : j.does \in Quiet
  BY <1>1 DEF Collected, Raise
<1>5. \A j \in {Rest, Save("CANCELLED")} : j.does \in Quiet
  BY <1>1
<1> QED
  BY <1>2, <1>3, <1>4, <1>5 DEF Quiet

\* A step that gives one writer something else to do, and changes nothing else
\* that has a type.
LEMMA GoesType ==
    ASSUME TypeOK, NEW w \in Writers, NEW j, WellFormed(j), Goes(w, j),
           state' \in States, packaged' \in BOOLEAN, log' \in Seq(Entry), UNCHANGED follower
    PROVE  TypeOK'
<1>1. job' \in [Writers -> JobType] /\ \A v \in Writers : WellFormed(job'[v])
  BY TypeParts DEF Goes, WellFormed
<1> QED
  BY <1>1, TypeParts, TypePartsNext

LEMMA InitType == Init => TypeOK
<1> SUFFICES ASSUME Init PROVE TypeOK
  OBVIOUS
<1>1. PICK first \in {Event("RUN_STARTED"), Raise} :
          job = [w \in Writers |-> IF w = Thread THEN first ELSE Do("load", "CANCELLED")]
  BY DEF Init
<1>2. WellFormed(first) /\ WellFormed(Do("load", "CANCELLED"))
  BY NewJobs DEF Raise, Events, Saved
<1>3. job \in [Writers -> JobType] /\ \A w \in Writers : WellFormed(job[w])
  BY <1>1, <1>2 DEF WellFormed
<1>4. follower \in [Followers -> Follows]
  BY DEF Init, NewFollower, Follows
<1>5. state \in States /\ log \in Seq(Entry)
  BY DEF Init, States
<1>6. packaged \in BOOLEAN
  BY Zenon DEF Init
<1> QED
  BY <1>3, <1>4, <1>5, <1>6, TypeParts

LEMMA WriterType ==
    ASSUME TypeOK, NEW w \in Writers, WriterStep(w)
    PROVE  TypeOK'
<1> USE TypeParts
<1>1. CASE TakeNumber(w)
  <2>1. PICK m \in 0..Len(log) : Highest(m) /\ Numbers(w, m + 1)
    BY <1>1 DEF TakeNumber
  <2>2. job[w].what \in Events /\ m + 1 \in Nat \ {0}
    BY <2>1 DEF Numbers, WellFormed
  <2>3. WellFormed([does |-> "publish", what |-> job[w].what, num |-> m + 1])
    BY <2>2, NewNumber
  <2> QED
    BY <2>1, <2>3, GoesType DEF Numbers
<1>2. CASE Publish(w)
  <2>0. job[w].does = "publish" /\ WellFormed(job[w])
    BY <1>2 DEF Publish
  <2>1. job[w].what \in Events /\ job[w].num \in Nat \ {0}
    <3>1. job[w].what \in Events /\ job[w].num \in Nat /\ job[w].num > 0
      BY <2>0 DEF WellFormed, JobType
    <3> QED
      BY <3>1
  <2>2. PICK j \in IF w = Thread THEN AfterEvent(job[w].what) ELSE {Rest} : Goes(w, j)
    BY <1>2 DEF Publish
  <2>3. WellFormed(j)
    BY <2>1, <2>2, JobsAfter, NewJobs
  <2>4. log' \in Seq(Entry)
    BY <1>2, <2>1 DEF Publish, Entry
  <2>5. state' \in States /\ packaged' \in BOOLEAN
    BY <1>2 DEF Publish, Verdicts, States
  <2> QED
    BY <1>2, <2>2, <2>3, <2>4, <2>5, GoesType DEF Publish
<1>3. CASE Commit(w)
  <2>1. job[w].what \in Saved
    BY <1>3 DEF Commit, WellFormed
  <2>2. PICK j \in AfterState(job[w].what) : Goes(w, j)
    BY <1>3 DEF Commit
  <2> QED
    BY <1>3, <2>1, <2>2, JobsAfter, GoesType DEF Commit, States
<1> QED
  BY <1>1, <1>2, <1>3 DEF WriterStep

LEMMA NextType == TypeOK /\ [Next]_vars => TypeOK'
<1> SUFFICES ASSUME TypeOK, [Next]_vars PROVE TypeOK'
  OBVIOUS
<1> USE TypeParts
<1>1. ASSUME NEW w \in Writers, WriterStep(w) PROVE TypeOK'
  BY <1>1, WriterType
<1>2. CASE CheckCancelled
  BY <1>2, JobsAfter, GoesType DEF CheckCancelled, Writers
<1>3. ASSUME NEW w \in Cancels, Cancel(w) PROVE TypeOK'
  <2>1. PICK j \in {Rest, Save("CANCELLED")} : Goes(w, j)
    BY <1>3 DEF Cancel
  <2> QED
    BY <1>3, <2>1, NewJobs, GoesType DEF Cancel, Writers, Saved
<1>4. ASSUME NEW f \in Followers, Follow(f) PROVE TypeOK'
  <2>0. \A i \in DOMAIN log : log[i] \in Entry
    OBVIOUS
  <2>1. \A i \in DOMAIN log : log[i].n \in Nat
    BY <2>0 DEF Entry
  <2>2. CASE Look(f)
    <3>1. follower' \in [Followers -> Follows]
      BY <2>2 DEF Look, Follows
    <3> QED
      BY <2>2, <3>1, TypePartsNext DEF Look
  <2>3. CASE Fetch(f)
    <3>1. PICK new \in SUBSET DOMAIN log, m \in 0..Len(log) :
              follower' = [follower EXCEPT ![f] =
                     [kind |-> follower[f].kind, at |-> "look", seen |-> m,
                      fresh |-> follower[f].kind = "stream" /\ new # {},
                      shown |-> follower[f].shown \union {log[i].n : i \in new}]]
      BY <2>3 DEF Fetch
    <3>2. {log[i].n : i \in new} \in SUBSET Nat /\ m \in Nat
      BY <2>1
    <3>3. follower' \in [Followers -> Follows]
      BY <3>1, <3>2 DEF Follows
    <3> QED
      BY <2>3, <3>3, TypePartsNext DEF Fetch
  <2> QED
    BY <1>4, <2>2, <2>3 DEF Follow
<1>5. CASE UNCHANGED vars
  BY <1>5, TypePartsNext DEF vars
<1> QED
  BY <1>1, <1>2, <1>3, <1>4, <1>5 DEF Next, ThreadStep, CancelStep, Writers

\* Type correctness of the event log.
THEOREM EventTypes == Spec => []TypeOK
  BY InitType, NextType, PTL DEF Spec

-----------------------------------------------------------------------------

In(n) == \E k \in DOMAIN log : log[k].n = n

\* The numbers below one that was taken are in the log.
TakenInv ==
    \A w \in Writers : job[w].does = "publish" => \A n \in 1..(job[w].num - 1) : In(n)

\* A writer has taken a number greater than all of its own.
OwnInv ==
    \A w \in Writers, k \in DOMAIN log :
        job[w].does = "publish" /\ log[k].by = w => log[k].n < job[w].num

\* A follower has printed every number up to the last one, which is in the log.
SeenInv ==
    \A f \in Followers : follower[f].seen = 0 \/ In(follower[f].seen)

LogInv == GapFree /\ TwinsDiffer /\ TakenInv /\ OwnInv /\ SeenInv /\ NothingSkipped

LEMMA LogTypes ==
    ASSUME TypeOK
    PROVE  /\ log \in Seq(Entry) /\ Len(log) \in Nat /\ DOMAIN log = 1..Len(log)
           /\ \A k \in DOMAIN log : log[k].n \in Nat /\ log[k].n > 0
<1>1. log \in Seq(Entry)
  BY TypeParts
<1>2. \A k \in DOMAIN log : log[k] \in Entry
  BY <1>1
<1> QED
  BY <1>1, <1>2 DEF Entry

\* In a log without gaps, every number up to the highest is there.
LEMMA UpToHighest ==
    ASSUME TypeOK, GapFree, NEW m \in Nat, Highest(m)
    PROVE  \A n \in 1..m : In(n)
<1>1. CASE m = 0
  BY <1>1
<1>2. CASE m # 0
  <2>1. PICK i \in DOMAIN log : log[i].n = m
    BY <1>2 DEF Highest
  <2>2. \A n \in 1..m : \E k \in 1..i : log[k].n = n
    BY <2>1 DEF GapFree
  <2>3. DOMAIN log = 1..Len(log) /\ Len(log) \in Nat
    BY LogTypes
  <2>4. 1..i \subseteq DOMAIN log
    BY <2>3
  <2> QED
    BY <2>2, <2>4 DEF In
<1> QED
  BY <1>1, <1>2

\* A step that neither inserts an event nor takes a number.
LEMMA QuietStep ==
    ASSUME TypeOK, LogInv, NEW w \in Writers, NEW j, Goes(w, j), j.does # "publish",
           UNCHANGED <<log, follower>>
    PROVE  LogInv'
<1>1. \A v \in Writers : job'[v].does = "publish" => job'[v] = job[v]
  BY TypeParts DEF Goes
<1>2. TakenInv' /\ OwnInv'
  BY <1>1 DEF LogInv, TakenInv, OwnInv, In
<1>3. GapFree' /\ TwinsDiffer'
  BY DEF LogInv, GapFree, TwinsDiffer
<1>4. SeenInv' /\ NothingSkipped'
  BY DEF LogInv, SeenInv, NothingSkipped, In
<1> QED
  BY <1>2, <1>3, <1>4 DEF LogInv

LEMMA TakeStep ==
    ASSUME TypeOK, LogInv, NEW w \in Writers, TakeNumber(w)
    PROVE  LogInv'
<1>1. PICK m \in 0..Len(log) : Highest(m) /\ Numbers(w, m + 1)
  BY DEF TakeNumber
<1>2. m \in Nat /\ \A k \in DOMAIN log : log[k].n < m + 1
  BY <1>1, LogTypes DEF Highest
<1>3. \A n \in 1..m : In(n)
  BY <1>1, <1>2, UpToHighest DEF LogInv
<1>4. /\ job'[w].num = m + 1
      /\ \A v \in Writers : v # w => job'[v] = job[v]
      /\ UNCHANGED <<log, follower>>
  BY <1>1, TypeParts DEF Numbers, Goes
<1>5. TakenInv'
  BY <1>2, <1>3, <1>4 DEF LogInv, TakenInv, In
<1>6. OwnInv'
  BY <1>2, <1>4 DEF LogInv, OwnInv
<1>7. GapFree' /\ TwinsDiffer'
  BY <1>4 DEF LogInv, GapFree, TwinsDiffer
<1>8. SeenInv' /\ NothingSkipped'
  BY <1>4 DEF LogInv, SeenInv, NothingSkipped, In
<1> QED
  BY <1>5, <1>6, <1>7, <1>8 DEF LogInv

LEMMA PublishStep ==
    ASSUME TypeOK, LogInv, NEW w \in Writers, Publish(w)
    PROVE  LogInv'
<1> DEFINE top == Len(log) + 1
<1>0. job[w].does = "publish" /\ WellFormed(job[w])
  BY TypeParts DEF Publish
<1>1. job[w].num \in Nat /\ job[w].num > 0
  BY <1>0 DEF WellFormed, JobType
<1>2. PICK e : /\ log' = Append(log, e) /\ e.n = job[w].num /\ e.by = w
  BY DEF Publish
<1>3. /\ DOMAIN log' = 1..top /\ DOMAIN log = 1..Len(log)
      /\ log'[top] = e /\ \A k \in DOMAIN log : log'[k] = log[k]
  BY <1>2, LogTypes
<1>4. \A n : In(n) => In(n)'
  BY <1>3, LogTypes DEF In
<1>5. PICK j \in IF w = Thread THEN AfterEvent(job[w].what) ELSE {Rest} : Goes(w, j)
  BY DEF Publish
<1>6. j.does # "publish"
  <2>1. job[w].what \in Events
    BY <1>0 DEF WellFormed
  <2>2. CASE w = Thread
    BY <1>5, <2>1, <2>2, NotPublishing
  <2>3. CASE w # Thread
    BY <1>5, <2>3, NotPublishing
  <2> QED
    BY <2>2, <2>3
<1>7. \A v \in Writers : job'[v].does = "publish" => v # w /\ job'[v] = job[v]
  BY <1>5, <1>6, TypeParts DEF Goes
<1>8. GapFree'
  <2> SUFFICES ASSUME NEW i \in 1..top, NEW n \in 1..log'[i].n
               PROVE  \E k \in 1..i : log'[k].n = n
    BY <1>3 DEF GapFree
  <2>1. CASE i # top
    <3>1. i \in DOMAIN log /\ n \in 1..log[i].n
      BY <1>3, <2>1, LogTypes
    <3>2. PICK k \in 1..i : log[k].n = n
      BY <3>1 DEF LogInv, GapFree
    <3> QED
      BY <1>3, <3>1, <3>2, LogTypes
  <2>2. CASE i = top /\ n = job[w].num
    BY <1>2, <1>3, <2>2, LogTypes
  <2>3. CASE i = top /\ n # job[w].num
    <3>1. n \in 1..(job[w].num - 1)
      BY <1>1, <1>2, <1>3, <2>3
    <3>2. PICK k \in DOMAIN log : log[k].n = n
      BY <1>0, <3>1 DEF LogInv, TakenInv, In
    <3> QED
      BY <1>3, <2>3, <3>2, LogTypes
  <2> QED
    BY <2>1, <2>2, <2>3
<1>9. TwinsDiffer'
  <2>1. \A k \in DOMAIN log : log[k].by = w => log[k].n # job[w].num
    BY <1>0, <1>1, LogTypes DEF LogInv, OwnInv
  <2> QED
    BY <1>2, <1>3, <2>1 DEF LogInv, TwinsDiffer
<1>10. TakenInv'
  BY <1>4, <1>7 DEF LogInv, TakenInv
<1>11. OwnInv'
  BY <1>2, <1>3, <1>7 DEF LogInv, OwnInv
<1>12. follower' = follower
  BY DEF Publish
<1>13. SeenInv' /\ NothingSkipped'
  BY <1>4, <1>12 DEF LogInv, SeenInv, NothingSkipped
<1> QED
  BY <1>8, <1>9, <1>10, <1>11, <1>13 DEF LogInv

LEMMA FetchStep ==
    ASSUME TypeOK, LogInv, NEW f \in Followers, Fetch(f)
    PROVE  LogInv'
<1>1. follower \in [Followers -> Follows]
  BY TypeParts
<1>2. PICK m \in 0..Len(log) :
          /\ Highest(m)
          /\ follower'[f].seen = m
          /\ follower'[f].shown = follower[f].shown \union
                 {log[i].n : i \in {i \in DOMAIN log : log[i].n > follower[f].seen}}
          /\ \A g \in Followers : g # f => follower'[g] = follower[g]
  BY <1>1 DEF Fetch
<1>3. m \in Nat /\ follower[f].seen \in Nat /\ follower[f].shown = 1..follower[f].seen
  BY <1>1, <1>2, LogTypes DEF LogInv, NothingSkipped, Follows
<1>4. m = 0 \/ In(m)
  BY <1>2 DEF Highest, In
<1>5. follower[f].seen <= m
  BY <1>2, <1>3, LogTypes DEF LogInv, SeenInv, In, Highest
<1>6. \A n \in 1..m : In(n)
  BY <1>2, <1>3, UpToHighest DEF LogInv
<1>7. \A i \in DOMAIN log : log[i].n \in 1..m
  BY <1>2, <1>3, LogTypes DEF Highest
<1>8. follower'[f].shown = 1..m
  <2>1. \A n \in follower'[f].shown : n \in 1..m
    BY <1>2, <1>3, <1>5, <1>7
  <2>2. ASSUME NEW n \in 1..m PROVE n \in follower'[f].shown
    <3>1. PICK i \in DOMAIN log : log[i].n = n
      BY <1>6 DEF In
    <3> QED
      BY <1>2, <1>3, <3>1
  <2> QED
    BY <2>1, <2>2
<1>9. UNCHANGED <<log, job>>
  BY DEF Fetch
<1>10. GapFree' /\ TwinsDiffer' /\ TakenInv' /\ OwnInv'
  <2>1. GapFree' /\ TwinsDiffer'
    BY <1>9 DEF LogInv, GapFree, TwinsDiffer
  <2>2. TakenInv' /\ OwnInv'
    BY <1>9 DEF LogInv, TakenInv, OwnInv, In
  <2> QED
    BY <2>1, <2>2
<1>11. SeenInv'
  BY <1>2, <1>4, <1>9 DEF LogInv, SeenInv, In
<1>12. NothingSkipped'
  BY <1>2, <1>8 DEF LogInv, NothingSkipped
<1> QED
  BY <1>10, <1>11, <1>12 DEF LogInv

LEMMA LookStep ==
    ASSUME TypeOK, LogInv, NEW f \in Followers, Look(f)
    PROVE  LogInv'
<1>1. /\ \A g \in Followers : /\ follower'[g].seen = follower[g].seen
                             /\ follower'[g].shown = follower[g].shown
      /\ UNCHANGED <<log, job>>
  BY TypeParts DEF Look, Follows
<1>2. GapFree' /\ TwinsDiffer' /\ TakenInv' /\ OwnInv'
  BY <1>1 DEF LogInv, GapFree, TwinsDiffer, TakenInv, OwnInv, In
<1>3. SeenInv' /\ NothingSkipped'
  BY <1>1 DEF LogInv, SeenInv, NothingSkipped, In
<1> QED
  BY <1>2, <1>3 DEF LogInv

LEMMA InitLog == Init => LogInv
<1> SUFFICES ASSUME Init PROVE LogInv
  OBVIOUS
<1>1. log = <<>> /\ DOMAIN log = {}
  BY DEF Init
<1>2. \A f \in Followers : follower[f].seen = 0 /\ follower[f].shown = {}
  BY DEF Init, NewFollower
<1>3. \A w \in Writers : job[w].does # "publish"
  BY DEF Init, Event, Raise, Save, Do
<1>4. GapFree /\ TwinsDiffer /\ OwnInv
  BY <1>1 DEF GapFree, TwinsDiffer, OwnInv
<1>5. TakenInv /\ SeenInv
  BY <1>2, <1>3 DEF TakenInv, SeenInv
<1>6. NothingSkipped
  <2>1. 1..0 = {}
    OBVIOUS
  <2> QED
    BY <1>2, <2>1 DEF NothingSkipped
<1> QED
  BY <1>4, <1>5, <1>6 DEF LogInv

LEMMA NextLog == TypeOK /\ LogInv /\ [Next]_vars => LogInv'
<1> SUFFICES ASSUME TypeOK, LogInv, [Next]_vars PROVE LogInv'
  OBVIOUS
<1>1. ASSUME NEW w \in Writers, WriterStep(w) PROVE LogInv'
  <2>1. CASE Commit(w)
    <3>1. job[w].does = "save" /\ WellFormed(job[w])
      BY <2>1, TypeParts DEF Commit
    <3>2. PICK j \in AfterState(job[w].what) : Goes(w, j)
      BY <2>1 DEF Commit
    <3>3. j.does # "publish"
      BY <3>1, <3>2, NotPublishing DEF WellFormed
    <3> QED
      BY <2>1, <3>2, <3>3, QuietStep DEF Commit
  <2> QED
    BY <1>1, <2>1, TakeStep, PublishStep DEF WriterStep
<1>2. CASE CheckCancelled
  BY <1>2, NotPublishing, QuietStep DEF CheckCancelled, Writers
<1>3. ASSUME NEW w \in Cancels, Cancel(w) PROVE LogInv'
  <2>1. PICK j \in {Rest, Save("CANCELLED")} : Goes(w, j)
    BY <1>3 DEF Cancel
  <2>2. j.does # "publish"
    BY <2>1, NotPublishing
  <2> QED
    BY <1>3, <2>1, <2>2, QuietStep DEF Cancel, Writers
<1>4. ASSUME NEW f \in Followers, Follow(f) PROVE LogInv'
  BY <1>4, FetchStep, LookStep DEF Follow
<1>5. CASE UNCHANGED vars
  BY <1>5 DEF vars, LogInv, GapFree, TwinsDiffer, TakenInv, OwnInv, SeenInv,
              NothingSkipped, In
<1> QED
  BY <1>1, <1>2, <1>3, <1>4, <1>5 DEF Next, ThreadStep, CancelStep, Writers

LEMMA LogInvariant == Spec => [](TypeOK /\ LogInv)
  BY InitType, NextType, InitLog, NextLog, PTL DEF Spec

\* The numbers of a run's events have no gaps, however many requests write beside
\* the thread.
THEOREM NumbersHaveNoGaps == Spec => []GapFree
  BY LogInvariant, PTL DEF LogInv

\* Events that share a number come from different writers.
THEOREM WritersDiffer == Spec => []TwinsDiffer
  BY LogInvariant, PTL DEF LogInv

\* A follower passes over no number, wherever it stands.
THEOREM FollowersMissNoNumber == Spec => []NothingSkipped
  BY LogInvariant, PTL DEF LogInv

-----------------------------------------------------------------------------

Logged(what) == \E k \in DOMAIN log : log[k].what = what
Ready == packaged = TRUE /\ Logged("RESULT_COPIED_TO_PARENT")

\* Who is about to write the verdict has collected the result.
PackageInv ==
    /\ \A w \in Writers : job[w].what = "RUN_COMPLETED" => Ready
    /\ state = "SUCCEEDED" => Ready /\ Logged("RUN_COMPLETED")

LEMMA OnlyAfterCopy ==
    /\ \A what \in Events : \A j \in AfterEvent(what) :
           j.what = "RUN_COMPLETED" => what = "RESULT_COPIED_TO_PARENT"
    /\ \A s \in Saved : \A j \in AfterState(s) : j.what # "RUN_COMPLETED"
    /\ \A j \in Collected \union {Rest, Save("CANCELLED")} : j.what # "RUN_COMPLETED"
<1>1. /\ \A what : Event(what).what = what
      /\ \A s : Save(s).what = s
      /\ Rest.what = "" /\ Do("check", "").what = ""
  BY DEF Event, Save, Rest, Do
<1>2. ASSUME NEW what \in Events, NEW j \in AfterEvent(what), j.what = "RUN_COMPLETED"
      PROVE  what = "RESULT_COPIED_TO_PARENT"
  BY <1>1, <1>2 DEF AfterEvent, Cleanup, Raise, Events
<1>3. ASSUME NEW s \in Saved, NEW j \in AfterState(s) PROVE j.what # "RUN_COMPLETED"
  BY <1>1 DEF AfterState, Raise, Saved
<1>4. \A j \in Collected \union {Rest, Save("CANCELLED")} : j.what # "RUN_COMPLETED"
  BY <1>1 DEF Collected, Raise
<1> QED
  BY <1>2, <1>3, <1>4

\* A step that commits neither an event nor a verdict.
LEMMA UnpackagedStep ==
    ASSUME TypeOK, PackageInv, NEW w \in Writers, NEW j, Goes(w, j),
           j.what = "RUN_COMPLETED" => job[w].what = "RUN_COMPLETED",
           state' = state \/ state' # "SUCCEEDED", UNCHANGED <<packaged, log>>
    PROVE  PackageInv'
<1>1. Ready' = Ready /\ Logged("RUN_COMPLETED")' = Logged("RUN_COMPLETED")
  BY DEF Ready, Logged
<1>2. ASSUME NEW v \in Writers, job'[v].what = "RUN_COMPLETED" PROVE Ready
  BY <1>2, TypeParts DEF PackageInv, Goes
<1>3. state' = "SUCCEEDED" => Ready /\ Logged("RUN_COMPLETED")
  BY DEF PackageInv
<1> QED
  BY <1>1, <1>2, <1>3 DEF PackageInv

LEMMA PublishPackage ==
    ASSUME TypeOK, PackageInv, NEW w \in Writers, Publish(w)
    PROVE  PackageInv'
<1>0. job[w].does = "publish" /\ WellFormed(job[w])
  BY TypeParts DEF Publish
<1>1. PICK e : log' = Append(log, e) /\ e.what = job[w].what
  BY DEF Publish
<1>2. \A what : Logged(what) \/ what = job[w].what => Logged(what)'
  BY <1>1, LogTypes DEF Logged
<1>3. Ready => Ready'
  BY <1>2 DEF Ready, Publish
<1>4. job[w].what = "RESULT_COPIED_TO_PARENT" => Ready'
  BY <1>2 DEF Ready, Publish
<1>5. PICK j \in IF w = Thread THEN AfterEvent(job[w].what) ELSE {Rest} : Goes(w, j)
  BY DEF Publish
<1>6. j.what = "RUN_COMPLETED" => job[w].what = "RESULT_COPIED_TO_PARENT"
  <2>1. job[w].what \in Events
    BY <1>0 DEF WellFormed
  <2>2. CASE w = Thread
    BY <1>5, <2>1, <2>2, OnlyAfterCopy
  <2>3. CASE w # Thread
    BY <1>5, <2>3, OnlyAfterCopy
  <2> QED
    BY <2>2, <2>3
<1>7. ASSUME NEW v \in Writers, job'[v].what = "RUN_COMPLETED" PROVE Ready'
  <2>1. CASE v = w
    BY <1>4, <1>5, <1>6, <1>7, <2>1, TypeParts DEF Goes
  <2>2. CASE v # w
    BY <1>3, <1>5, <1>7, <2>2, TypeParts DEF Goes, PackageInv
  <2> QED
    BY <2>1, <2>2
<1>8. ASSUME state' = "SUCCEEDED" PROVE Ready' /\ Logged("RUN_COMPLETED")'
  <2>1. job[w].what = "RUN_COMPLETED" \/ state = "SUCCEEDED"
    BY <1>8 DEF Publish, Verdicts
  <2> QED
    BY <1>2, <1>3, <2>1 DEF PackageInv
<1> QED
  BY <1>7, <1>8 DEF PackageInv

LEMMA NextPackage == TypeOK /\ PackageInv /\ [Next]_vars => PackageInv'
<1> SUFFICES ASSUME TypeOK, PackageInv, [Next]_vars PROVE PackageInv'
  OBVIOUS
<1>1. ASSUME NEW w \in Writers, WriterStep(w) PROVE PackageInv'
  <2>1. CASE TakeNumber(w)
    <3>1. PICK m \in 0..Len(log) : Numbers(w, m + 1)
      BY <2>1 DEF TakeNumber
    <3> QED
      BY <3>1, UnpackagedStep DEF Numbers
  <2>2. CASE Commit(w)
    <3>1. job[w].does = "save" /\ WellFormed(job[w])
      BY <2>2, TypeParts DEF Commit
    <3>2. job[w].what \in Saved
      BY <3>1 DEF WellFormed
    <3>3. PICK j \in AfterState(job[w].what) : Goes(w, j)
      BY <2>2 DEF Commit
    <3>4. state' # "SUCCEEDED"
      BY <2>2, <3>2 DEF Commit, Saved
    <3> QED
      BY <2>2, <3>2, <3>3, <3>4, OnlyAfterCopy, UnpackagedStep DEF Commit
  <2> QED
    BY <1>1, <2>1, <2>2, PublishPackage DEF WriterStep
<1>2. CASE CheckCancelled
  BY <1>2, OnlyAfterCopy, UnpackagedStep DEF CheckCancelled, Writers
<1>3. ASSUME NEW w \in Cancels, Cancel(w) PROVE PackageInv'
  <2>1. PICK j \in {Rest, Save("CANCELLED")} : Goes(w, j)
    BY <1>3 DEF Cancel
  <2> QED
    BY <1>3, <2>1, OnlyAfterCopy, UnpackagedStep DEF Cancel, Writers
<1>4. ASSUME NEW f \in Followers, Follow(f) PROVE PackageInv'
  <2>1. UNCHANGED <<state, packaged, log, job>>
    BY <1>4 DEF Follow, Fetch, Look
  <2> QED
    BY <2>1 DEF PackageInv, Ready, Logged
<1>5. CASE UNCHANGED vars
  BY <1>5 DEF vars, PackageInv, Ready, Logged
<1> QED
  BY <1>1, <1>2, <1>3, <1>4, <1>5 DEF Next, ThreadStep, CancelStep, Writers

\* Whoever sees that the run succeeded finds its package and its last events.
THEOREM SuccessIsPackaged == Spec => []SuccessHasPackage
<1>1. Init => PackageInv
  BY DEF Init, PackageInv, Event, Raise, Save, Do
<1>2. TypeOK /\ PackageInv => SuccessHasPackage
  BY DEF PackageInv, SuccessHasPackage, Ready, Logged
<1> QED
  BY InitType, NextType, NextPackage, <1>1, <1>2, PTL DEF Spec

-----------------------------------------------------------------------------
(* The refinement of EventFeed.                                            *)

Issued == {log[i].n : i \in DOMAIN log}
Shown == [f \in Followers |-> follower[f].shown]
Gone == {f \in Followers : follower[f].at = "ended"}

\* A step of the feed, or none.
FeedStep == [Feed!Next]_(Feed!feedVars)

\* A step that touches neither the events nor the followers.
LEMMA QuietFeed ==
    ASSUME UNCHANGED <<log, follower>>
    PROVE  FeedStep
<1>1. Issued' = Issued /\ Shown' = Shown /\ Gone' = Gone
  BY DEF Issued, Shown, Gone
<1>2. Over \in BOOLEAN /\ Over' \in BOOLEAN
  BY DEF Over
<1>3. CASE Over' = Over
  BY <1>1, <1>3 DEF FeedStep, Feed!feedVars, Issued, Shown, Gone
<1>4. CASE Over' = ~Over
  <2>1. Feed!Turn
    BY <1>1, <1>4 DEF Feed!Turn, Issued, Shown, Gone
  <2> QED
    BY <2>1 DEF FeedStep, Feed!Next
<1> QED
  BY <1>2, <1>3, <1>4

\* The number of an event that is inserted follows one that is in the log.
LEMMA PublishFeed ==
    ASSUME TypeOK, LogInv, NEW w \in Writers, Publish(w)
    PROVE  FeedStep
<1>0. job[w].does = "publish" /\ WellFormed(job[w])
  BY TypeParts DEF Publish
<1>1. job[w].num \in Nat /\ job[w].num > 0
  BY <1>0 DEF WellFormed, JobType
<1>2. PICK e : log' = Append(log, e) /\ e.n = job[w].num
  BY DEF Publish
<1>3. /\ DOMAIN log' = 1..(Len(log) + 1) /\ DOMAIN log = 1..Len(log) /\ Len(log) \in Nat
      /\ log'[Len(log) + 1] = e /\ \A k \in DOMAIN log : log'[k] = log[k]
  BY <1>2, LogTypes
<1>4. Issued' = Issued \union {job[w].num}
  <2>1. DOMAIN log' = DOMAIN log \union {Len(log) + 1}
    BY <1>3
  <2> QED
    BY <1>2, <1>3, <2>1 DEF Issued
<1>5. job[w].num \in {m + 1 : m \in Issued \union {0}}
  <2>1. job[w].num - 1 \in Issued \union {0}
    <3>1. CASE job[w].num - 1 = 0
      BY <3>1
    <3>2. CASE job[w].num - 1 # 0
      <4>1. job[w].num - 1 \in 1..(job[w].num - 1)
        BY <1>1, <3>2
      <4>2. In(job[w].num - 1)
        BY <1>0, <4>1 DEF LogInv, TakenInv
      <4> QED
        BY <4>2 DEF In, Issued
    <3> QED
      BY <3>1, <3>2
  <2>2. job[w].num = (job[w].num - 1) + 1
    BY <1>1
  <2> QED
    BY <2>1, <2>2
<1>6. Shown' = Shown /\ Gone' = Gone
  BY DEF Publish, Shown, Gone
<1>7. Over' \in BOOLEAN
  BY DEF Over
<1>8. Feed!Write
  BY <1>4, <1>5, <1>6, <1>7 DEF Feed!Write, Issued, Shown, Gone
<1> QED
  BY <1>8 DEF FeedStep, Feed!Next

\* What a follower has printed when it has read is what the log has issued.
LEMMA FetchFeed ==
    ASSUME TypeOK, LogInv, LogInv', NEW f \in Followers, Fetch(f)
    PROVE  FeedStep
<1>1. follower \in [Followers -> Follows]
  BY TypeParts
<1>2. PICK m \in 0..Len(log) : Highest(m) /\ follower'[f].seen = m
  BY <1>1 DEF Fetch
<1>3. /\ follower[f].at = "fetch" /\ follower'[f].at = "look"
      /\ \A g \in Followers : g # f => follower'[g] = follower[g]
      /\ UNCHANGED <<state, log>>
  BY <1>1 DEF Fetch
<1>4. m \in Nat
  BY LogTypes
<1>5. follower'[f].shown = 1..m
  BY <1>2 DEF LogInv, NothingSkipped
<1>6. Issued = 1..m
  <2>1. \A n \in 1..m : n \in Issued
    BY <1>2, <1>4, UpToHighest DEF LogInv, In, Issued
  <2>2. \A k \in DOMAIN log : log[k].n \in 1..m
    BY <1>2, <1>4, LogTypes DEF Highest
  <2> QED
    BY <2>1, <2>2 DEF Issued
<1>7. Issued' = Issued /\ Over' = Over
  BY <1>3 DEF Issued, Over
<1>8. Shown' = [Shown EXCEPT ![f] = Issued]
  BY <1>3, <1>5, <1>6 DEF Shown
<1>9. f \notin Gone /\ Gone' = Gone
  BY <1>3 DEF Gone
<1>10. Feed!Read(f)
  BY <1>7, <1>8, <1>9 DEF Feed!Read, Issued, Shown, Gone
<1> QED
  BY <1>10 DEF FeedStep, Feed!Next

\* Looking at the state prints nothing, and ends a follower only when the run is over.
LEMMA LookFeed ==
    ASSUME TypeOK, NEW f \in Followers, Look(f)
    PROVE  FeedStep
<1>1. follower \in [Followers -> Follows]
  BY TypeParts
<1>2. /\ follower[f].at = "look"
      /\ follower'[f].shown = follower[f].shown
      /\ follower'[f].at = "fetch" \/ (Over /\ follower'[f].at = "ended")
      /\ \A g \in Followers : g # f => follower'[g] = follower[g]
      /\ UNCHANGED <<state, log>>
  BY <1>1 DEF Look
<1>3. Issued' = Issued /\ Over' = Over /\ Shown' = Shown
  BY <1>2 DEF Issued, Over, Shown
<1>4. f \notin Gone
  BY <1>2 DEF Gone
<1>5. CASE follower'[f].at = "fetch"
  <2>1. Gone' = Gone
    BY <1>2, <1>5 DEF Gone
  <2> QED
    BY <1>3, <2>1 DEF FeedStep, Feed!feedVars, Issued, Shown, Gone
<1>6. CASE Over /\ follower'[f].at = "ended"
  <2>1. Gone' = Gone \union {f}
    BY <1>2, <1>6 DEF Gone
  <2>2. Feed!Leave(f)
    BY <1>3, <1>4, <1>6, <2>1 DEF Feed!Leave, Issued, Shown, Gone
  <2> QED
    BY <2>2 DEF FeedStep, Feed!Next
<1> QED
  BY <1>2, <1>5, <1>6

\* The events of a run and those who follow it implement EventFeed, for any number of
\* requests, followers and lines (add_event, follow_run and the stream).
THEOREM ImplementsFeedHolds == Spec => ImplementsFeed
<1>1. Init => Feed!Init
  <2> SUFFICES ASSUME Init PROVE Feed!Init
    OBVIOUS
  <2>1. log = <<>> /\ DOMAIN log = {}
    BY DEF Init
  <2>2. \A f \in Followers : follower[f].shown = {} /\ follower[f].at = "fetch"
    BY DEF Init, NewFollower
  <2>3. Over = FALSE
    BY DEF Init, Over, TERMINAL_RUN_STATES
  <2> QED
    BY <2>1, <2>2, <2>3 DEF Feed!Init
<1>2. TypeOK /\ LogInv /\ LogInv' /\ [Next]_vars => [Feed!Next]_(Feed!feedVars)
  <2> SUFFICES ASSUME TypeOK, LogInv, LogInv', [Next]_vars PROVE FeedStep
    BY DEF FeedStep
  <2>1. ASSUME NEW w \in Writers, WriterStep(w) PROVE FeedStep
    <3>1. CASE TakeNumber(w)
      BY <3>1, QuietFeed DEF TakeNumber, Numbers
    <3>2. CASE Commit(w)
      BY <3>2, QuietFeed DEF Commit
    <3> QED
      BY <2>1, <3>1, <3>2, PublishFeed DEF WriterStep
  <2>2. CASE CheckCancelled
    BY <2>2, QuietFeed DEF CheckCancelled
  <2>3. ASSUME NEW w \in Cancels, Cancel(w) PROVE FeedStep
    BY <2>3, QuietFeed DEF Cancel
  <2>4. ASSUME NEW f \in Followers, Follow(f) PROVE FeedStep
    BY <2>4, FetchFeed, LookFeed DEF Follow
  <2>5. CASE UNCHANGED vars
    BY <2>5, QuietFeed DEF vars
  <2> QED
    BY <2>1, <2>2, <2>3, <2>4, <2>5 DEF Next, ThreadStep, CancelStep, Writers
<1> QED
  BY <1>1, <1>2, LogInvariant, PTL DEF Spec, ImplementsFeed, Feed!Spec

=============================================================================
