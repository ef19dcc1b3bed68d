------------------------ MODULE BackgroundJobsProofs ------------------------
(***************************************************************************)
(* A periodic slot is dispatched once and an attempt executed once, for    *)
(* every set of schedules, whatever throws and whenever the process ends:  *)
(* only a dispatch that was cut before its patch is excepted.              *)
(***************************************************************************)
EXTENDS BackgroundJobs, FiniteSetTheorems, SequenceTheorems, TLAPS

USE DEF None

\* The two parts of a scheduler step: all jobs, then all patches, one of each
\* for a schedule, from what the schedule said when the step began.
WritesOrdered ==
    /\ \A i \in 1..Len(writes) : LET w == writes[i] IN
        /\ w.job = <<w.schedule, nextRun[w.schedule]>>
        /\ nextRun[w.schedule] \in 0..now
        /\ w.op = "patch" /\ Period[w.schedule] > 0 => w.next > nextRun[w.schedule]
    /\ \A i, j \in 1..Len(writes) : i < j =>
        /\ writes[i].op = "patch" => writes[j].op = "patch"
        /\ writes[i].op = writes[j].op => writes[i].schedule # writes[j].schedule
    /\ \A i \in 1..Len(writes) : writes[i].op = "upsert" =>
        \E j \in 1..Len(writes) : writes[j].op = "patch" /\ writes[j].schedule = writes[i].schedule

\* The job of schedule s is written and its patch is not.
Written(s) ==
    /\ \E i \in 1..Len(writes) : writes[i].op = "patch" /\ writes[i].schedule = s
    /\ \A i \in 1..Len(writes) : writes[i].op = "upsert" => writes[i].schedule # s

\* A periodic schedule has passed the slots that have jobs, or is about to.
SlotsPassed ==
    \A j \in JobIds : Periodic(j) /\ jobs[j] # NoJob /\ j \notin torn =>
        \/ nextRun[j[1]] > j[2]
        \/ nextRun[j[1]] = j[2] /\ Written(j[1])

\* The attempts of a job that were begun are behind it, but the one that runs.
AttemptsBehind ==
    \A j \in JobIds : Periodic(j) /\ j \notin torn =>
        \A n \in Nat : <<j, n>> \in begun =>
            /\ jobs[j] # NoJob
            /\ n =< jobs[j].attempt
            /\ jobs[j].status \in {"queued", "retry_scheduled"} => n < jobs[j].attempt

\* What the executor works on is what the row says.
LoopHolds ==
    loop.at = "await" =>
        /\ jobs[loop.job] # NoJob
        /\ Periodic(loop.job) /\ loop.job \notin torn => jobs[loop.job] = loop.rec

IInv ==
    /\ TypeOK
    /\ WritesOrdered
    /\ SlotsPassed
    /\ AttemptsBehind
    /\ LoopHolds

-----------------------------------------------------------------------------
(***************************************************************************)
(* The next slot, and the schedules of a step.                             *)
(***************************************************************************)

\* Whole periods after a time.
LEMMA DivBound ==
    ASSUME NEW x \in Nat, NEW p \in Nat \ {0}
    PROVE  /\ x \div p \in Nat
           /\ (x \div p + 1) * p > x
           /\ (x \div p + 1) * p \in Nat
<1>1. x \div p \in Int /\ (x \div p) * p > x - p  BY SMT
<1>2. p * (x \div p) =< x  BY Z3
<1> QED  BY <1>1, <1>2, SMT

LEMMA NextRunLater ==
    ASSUME NEW s \in Schedules, NEW t \in Nat
    PROVE  /\ NextRun(s, t) \in Nat \cup {None}
           /\ NextRun(s, t) # None => NextRun(s, t) > t
           /\ Period[s] > 0 => NextRun(s, t) # None
<1>1. Period[s] \in Nat /\ Anchor[s] \in Nat  BY BackgroundAssumption
<1>2. CASE Period[s] = 0  BY <1>1, <1>2 DEF NextRun
<1>3. CASE Period[s] # 0 /\ t < Anchor[s]  BY <1>1, <1>3 DEF NextRun
<1>4. CASE Period[s] # 0 /\ t >= Anchor[s]
  <2> DEFINE x == t - Anchor[s]
             y == (x \div Period[s] + 1) * Period[s]
  <2>1. x \in Nat /\ t = Anchor[s] + x  BY <1>1, <1>4
  <2> HIDE DEF x
  <2>2. y > x /\ y \in Nat  BY <1>1, <1>4, <2>1, DivBound
  <2>3. NextRun(s, t) = Anchor[s] + y  BY <1>1, <1>4 DEF NextRun, x
  <2> HIDE DEF y
  <2> QED  BY <1>1, <2>1, <2>2, <2>3
<1> QED  BY <1>1, <1>2, <1>3, <1>4

\* The store's order gives each selected schedule a place of its own, from 1 on.
LEMMA Selection ==
    ASSUME TypeOK
    PROVE  /\ Cardinality(Selected) \in Nat
           /\ \A i \in 1..Cardinality(Selected) : Intents[i] \in Due
           /\ \A i, j \in 1..Cardinality(Selected) : Intents[i] = Intents[j] => i = j
<1> DEFINE n == Cardinality(Selected)
           Before(s) == {t \in Due : Sooner(t, s)}
<1>1. Due \subseteq Schedules /\ IsFiniteSet(Due)
      BY BackgroundAssumption, FS_Subset DEF Due
<1>2. Selected \subseteq Due /\ IsFiniteSet(Selected)
      BY <1>1, FS_Subset DEF Selected
<1>3. n \in Nat  BY <1>2, FS_CardinalityType
<1>4. \A s \in Due : nextRun[s] \in Nat /\ s \in Nat
      BY <1>1, BackgroundAssumption DEF TypeOK, Due
<1>5. ASSUME NEW s \in Due
      PROVE  /\ IsFiniteSet(Before(s)) /\ Cardinality(Before(s)) \in Nat
             /\ Position(s) = Cardinality(Before(s)) + 1
  <2>1. Before(s) \in SUBSET Due  OBVIOUS
  <2> QED  BY <1>1, <2>1, FS_Subset, FS_CardinalityType DEF Position
<1>6. \A s \in Due : Position(s) \in Nat
  <2> HIDE DEF Before
  <2> QED  BY <1>5
<1>7. ASSUME NEW s \in Due, NEW t \in Due, Sooner(s, t)
      PROVE  Position(s) < Position(t)
  <2>1. Before(s) \in SUBSET Before(t)  BY <1>4, <1>7 DEF Sooner
  <2>2. s \in Before(t) /\ s \notin Before(s)  BY <1>4, <1>7 DEF Sooner
  <2>3. Before(s) # Before(t)  BY <2>2
  <2> HIDE DEF Before
  <2>4. Cardinality(Before(s)) =< Cardinality(Before(t))
        /\ Cardinality(Before(s)) # Cardinality(Before(t))
        BY <1>5, <2>1, <2>3, FS_Subset
  <2> QED  BY <1>5, <2>4
<1>8. ASSUME NEW s \in Due, NEW t \in Due, Position(s) = Position(t)
      PROVE  s = t
  <2>1. s = t \/ Sooner(s, t) \/ Sooner(t, s)  BY <1>4 DEF Sooner
  <2>2. Position(s) \in Nat /\ Position(t) \in Nat  BY <1>6
  <2>3. ~(Position(s) < Position(t)) /\ ~(Position(t) < Position(s))
        BY <1>8, <2>2
  <2> QED  BY <1>7, <2>1, <2>3
<1>9. ASSUME NEW s \in Selected
      PROVE  Position(s) \in 1..n
  <2>1. s \in Due /\ Position(s) =< MaxDispatches  BY DEF Selected
  <2>2. ASSUME NEW t \in Before(s)
        PROVE  t \in Selected \ {s}
    <3>1. t \in Due /\ Sooner(t, s)  OBVIOUS
    <3>2. Position(t) < Position(s)  BY <1>7, <2>1, <3>1
    <3>3. Position(t) \in Nat /\ Position(s) \in Nat /\ MaxDispatches \in Nat
          BY <1>6, <2>1, <3>1, BackgroundAssumption
    <3>4. Position(t) =< MaxDispatches /\ t # s  BY <2>1, <3>2, <3>3
    <3> QED  BY <3>1, <3>4 DEF Selected
  <2>3. Before(s) \in SUBSET (Selected \ {s})  BY <2>2
  <2>4. IsFiniteSet(Selected \ {s}) /\ Cardinality(Selected \ {s}) = n - 1
        BY <1>2, FS_RemoveElement
  <2> HIDE DEF Before
  <2>5. Cardinality(Before(s)) =< n - 1  BY <2>3, <2>4, FS_Subset
  <2> QED  BY <1>3, <1>5, <2>1, <2>5
<1>10. ASSUME NEW i \in 1..n
      PROVE  \E s \in Selected : Position(s) = i
  <2> DEFINE place == [s \in Selected |-> Position(s)]
  <2>1. place \in [Selected -> 1..n]  BY <1>9
  <2>2. \A s, t \in Selected : place[s] = place[t] => s = t  BY <1>2, <1>8
  <2>3. place \in Injection(Selected, 1..n)
    <3> HIDE DEF place
    <3> QED  BY <2>1, <2>2 DEF Injection, IsInjective
  <2>4. IsFiniteSet(1..n) /\ Cardinality(1..n) = n
        BY <1>3, FS_Interval
  <2>5. place \in Surjection(Selected, 1..n)
    <3> HIDE DEF place
    <3> QED  BY <2>3, <2>4, FS_Injection
  <2>6. \E s \in Selected : place[s] = i
    <3> HIDE DEF place
    <3> QED  BY <2>5 DEF Surjection
  <2> QED  BY <2>6
<1>11. \A i \in 1..n : Intents[i] \in Selected /\ Position(Intents[i]) = i
       BY <1>10 DEF Intents
<1> QED  BY <1>2, <1>3, <1>11

\* A step writes all its jobs before its patches, each for a schedule that is due.
LEMMA StepShape ==
    ASSUME TypeOK, writes' = StepWrites, nextRun' = nextRun, now' = now
    PROVE  /\ writes' \in Seq(Writes)
           /\ WritesOrdered'
<1> DEFINE n == Cardinality(Selected)
           ups == [i \in 1..n |-> Upsert(Intents[i])]
           pats == [i \in 1..n |-> Patch(Intents[i])]
<1>0. now \in Nat  BY BackgroundAssumption DEF TypeOK
<1>1. /\ n \in Nat
      /\ \A i \in 1..n : Intents[i] \in Due
      /\ \A i, j \in 1..n : Intents[i] = Intents[j] => i = j
      BY Selection
<1>2. Intents \in Seq(Due) /\ Len(Intents) = n
  <2>1. Intents = [i \in 1..n |-> Intents[i]]  BY DEF Intents
  <2> HIDE DEF n
  <2> QED  BY <1>1, <2>1
<1>3. ASSUME NEW s \in Due
      PROVE  /\ s \in Schedules /\ nextRun[s] \in 0..now /\ nextRun[s] \in 0..MaxTime
             /\ <<s, nextRun[s]>> \in JobIds
      BY BackgroundAssumption DEF Due, TypeOK, JobIds
<1>4. ASSUME NEW s \in Due
      PROVE  /\ Upsert(s) \in Writes /\ Upsert(s).op = "upsert" /\ Upsert(s).schedule = s
             /\ Upsert(s).job = <<s, nextRun[s]>>
  <2>1. FreshJob \in JobRecord
        BY DEF FreshJob, JobRecord, Statuses, TypeOK
  <2> HIDE DEF None
  <2> QED  BY <1>3, <2>1 DEF Upsert, Writes
<1>5. ASSUME NEW s \in Due
      PROVE  /\ Patch(s) \in Writes /\ Patch(s).op = "patch" /\ Patch(s).schedule = s
             /\ Patch(s).job = <<s, nextRun[s]>>
             /\ Period[s] > 0 => Patch(s).next > nextRun[s]
  <2>1. s \in Schedules /\ now \in Nat /\ nextRun[s] \in 0..now  BY <1>0, <1>3
  <2>2. /\ NextRun(s, now) \in Nat \cup {None}
        /\ NextRun(s, now) # None => NextRun(s, now) > now
        /\ Period[s] > 0 => NextRun(s, now) # None
        BY <2>1, NextRunLater
  <2>3. /\ Patch(s).op = "patch" /\ Patch(s).schedule = s /\ Patch(s).job = <<s, nextRun[s]>>
        /\ Patch(s).next = IF NextRun(s, now) = None THEN nextRun[s] ELSE NextRun(s, now)
        BY DEF Patch
  <2>4. Patch(s).next \in Nat /\ (Period[s] > 0 => Patch(s).next > nextRun[s])
        BY <2>1, <2>2, <2>3
  <2>5. Patch(s) = [op |-> "patch", schedule |-> s, job |-> <<s, nextRun[s]>>,
                    next |-> Patch(s).next]
        BY DEF Patch
  <2> QED  BY <1>3, <2>3, <2>4, <2>5 DEF Writes
<1>6. ups \in Seq(Writes) /\ Len(ups) = n /\ pats \in Seq(Writes) /\ Len(pats) = n
      /\ (\A i \in 1..n : ups[i] = Upsert(Intents[i]) /\ pats[i] = Patch(Intents[i]))
  <2>1. \A i \in 1..n : Upsert(Intents[i]) \in Writes /\ Patch(Intents[i]) \in Writes
        BY <1>1, <1>4, <1>5
  <2> HIDE DEF n
  <2> QED  BY <1>1, <2>1
<1>7. writes' = ups \o pats  BY <1>2 DEF StepWrites
<1> HIDE DEF n, ups, pats
<1>8. /\ writes' \in Seq(Writes) /\ Len(writes') = n + n
      /\ \A i \in 1..Len(writes') :
            writes'[i] = IF i =< n THEN Upsert(Intents[i]) ELSE Patch(Intents[i - n])
  <2>1. writes' \in Seq(Writes) /\ Len(writes') = n + n
    <3>1. ups \o pats \in Seq(Writes) /\ Len(ups \o pats) = Len(ups) + Len(pats)
          BY <1>6, ConcatProperties
    <3> QED  BY <1>6, <1>7, <3>1
  <2>2. ASSUME NEW i \in 1..Len(writes')
        PROVE  writes'[i] = IF i =< n THEN Upsert(Intents[i]) ELSE Patch(Intents[i - n])
    <3>0. i \in 1..Len(ups) + Len(pats)  BY <1>1, <1>6, <2>1
    <3>1. writes'[i] = IF i =< n THEN ups[i] ELSE pats[i - n]
      <4>1. (ups \o pats)[i] = IF i <= Len(ups) THEN ups[i] ELSE pats[i - Len(ups)]
            BY <1>6, <3>0, ConcatProperties
      <4> QED  BY <1>6, <1>7, <4>1
    <3>2. i =< n => i \in 1..n  BY <1>1
    <3>3. ~(i =< n) => i - n \in 1..n  BY <1>1, <2>1
    <3> QED  BY <1>6, <3>1, <3>2, <3>3
  <2> QED  BY <2>1, <2>2
<1> DEFINE Of(i) == IF i =< n THEN i ELSE i - n
<1>9. ASSUME NEW i \in 1..Len(writes')
      PROVE  /\ Of(i) \in 1..n
             /\ writes'[i].op = IF i =< n THEN "upsert" ELSE "patch"
             /\ writes'[i].schedule = Intents[Of(i)]
             /\ writes'[i].job = <<writes'[i].schedule, nextRun[writes'[i].schedule]>>
             /\ nextRun[writes'[i].schedule] \in 0..now
             /\ writes'[i].op = "patch" /\ Period[writes'[i].schedule] > 0 =>
                    writes'[i].next > nextRun[writes'[i].schedule]
  <2>1. Of(i) \in 1..n  BY <1>1, <1>8
  <2>2. Intents[Of(i)] \in Due  BY <1>1, <2>1
  <2>3. CASE i =< n
    <3> DEFINE s == Intents[Of(i)]
    <3>1. writes'[i] = Upsert(s)  BY <1>8, <2>3
    <3>2. s \in Schedules /\ nextRun[s] \in 0..now  BY <1>3, <2>2
    <3>3. /\ Upsert(s).op = "upsert" /\ Upsert(s).schedule = s
          /\ Upsert(s).job = <<s, nextRun[s]>>
          BY <1>4, <2>2
    <3>4. s = Intents[Of(i)]  OBVIOUS
    <3> HIDE DEF s, Of
    <3> QED  BY <2>1, <2>3, <3>1, <3>2, <3>3, <3>4
  <2>4. CASE ~(i =< n)
    <3> DEFINE s == Intents[Of(i)]
    <3>1. writes'[i] = Patch(s)  BY <1>8, <2>4
    <3>2. s \in Schedules /\ nextRun[s] \in 0..now  BY <1>3, <2>2
    <3>3. /\ Patch(s).op = "patch" /\ Patch(s).schedule = s
          /\ Patch(s).job = <<s, nextRun[s]>>
          /\ Period[s] > 0 => Patch(s).next > nextRun[s]
          BY <1>5, <2>2
    <3>4. s = Intents[Of(i)]  OBVIOUS
    <3> HIDE DEF s, Of
    <3> QED  BY <2>1, <2>4, <3>1, <3>2, <3>3, <3>4
  <2> QED  BY <2>3, <2>4
<1>10. ASSUME NEW i \in 1..Len(writes'), NEW j \in 1..Len(writes'), i < j
       PROVE  /\ writes'[i].op = "patch" => writes'[j].op = "patch"
              /\ writes'[i].op = writes'[j].op => writes'[i].schedule # writes'[j].schedule
  <2>1. i \in Nat /\ j \in Nat  BY <1>8, <1>1
  <2>2. writes'[i].op = "patch" => writes'[j].op = "patch"
        BY <1>1, <1>9, <1>10, <2>1
  <2>3. writes'[i].op = writes'[j].op => Of(i) # Of(j)
        BY <1>1, <1>9, <1>10, <2>1
  <2>4. Of(i) \in 1..n /\ Of(j) \in 1..n /\ writes'[i].schedule = Intents[Of(i)]
        /\ writes'[j].schedule = Intents[Of(j)]
        BY <1>9
  <2> HIDE DEF Of
  <2> QED  BY <1>1, <2>2, <2>3, <2>4
<1>11. ASSUME NEW i \in 1..Len(writes'), writes'[i].op = "upsert"
       PROVE  \E j \in 1..Len(writes') :
                writes'[j].op = "patch" /\ writes'[j].schedule = writes'[i].schedule
  <2>1. i =< n /\ i \in Nat /\ n \in Nat  BY <1>1, <1>8, <1>9, <1>11
  <2>2. i + n \in 1..Len(writes') /\ Of(i + n) = i /\ Of(i) = i /\ ~(i + n =< n)
        BY <1>8, <2>1
  <2>3. writes'[i + n].op = "patch" /\ writes'[i + n].schedule = Intents[i]
        /\ writes'[i].schedule = Intents[i]
    <3> HIDE DEF Of
    <3> QED  BY <1>9, <2>2
  <2> QED  BY <2>2, <2>3
<1>12. WritesOrdered'
       BY <1>9, <1>10, <1>11 DEF WritesOrdered
<1> QED  BY <1>8, <1>12

-----------------------------------------------------------------------------
(***************************************************************************)
(* The steps of the scheduler.                                             *)
(***************************************************************************)

\* A job that is about to be written is not there yet, unless a dispatch was cut.
LEMMA UpsertsFresh ==
    ASSUME IInv, NEW i \in 1..Len(writes), writes[i].op = "upsert",
           Periodic(writes[i].job), writes[i].job \notin torn
    PROVE  jobs[writes[i].job] = NoJob
<1> DEFINE w == writes[i]
           j == w.job
<1>1. w \in Writes /\ j \in JobIds  BY DEF IInv, TypeOK, Writes
<1>2. j = <<w.schedule, nextRun[w.schedule]>> /\ nextRun[w.schedule] \in 0..now
      BY DEF IInv, WritesOrdered
<1>3. j[1] = w.schedule /\ j[2] = nextRun[w.schedule]  BY <1>2
<1>4. ~Written(j[1])  BY <1>3 DEF Written
<1>5. ~(nextRun[j[1]] > j[2])  BY <1>2, <1>3
<1> HIDE DEF j
<1> QED  BY <1>1, <1>4, <1>5 DEF IInv, SlotsPassed, j

\* The records of jobs are not the mark of their absence.
LEMMA RecordsAreJobs ==
    /\ \A r \in JobRecord : r # NoJob
    /\ FreshJob.status = "queued" /\ FreshJob.attempt = 1
BY DEF JobRecord, NoJob, Statuses, FreshJob

LEMMA DaemonKeeps ==
    ASSUME IInv, DaemonFires
    PROVE  IInv'
<1>1. writes' = StepWrites /\ writes = <<>>
      /\ UNCHANGED <<now, nextRun, jobs, up, loop, faults, torn, begun>>
      /\ timers' \subseteq {"daemon", "worker"}
      BY DEF DaemonFires, AfterStep, Free, IInv, TypeOK
<1>2. writes' \in Seq(Writes) /\ WritesOrdered'
      BY <1>1, StepShape DEF IInv
<1>3. TypeOK'  BY <1>1, <1>2 DEF IInv, TypeOK
<1>4. \A s : ~Written(s)  BY <1>1 DEF Written
<1>5. SlotsPassed'
  <2>1. \A j \in JobIds : Periodic(j) /\ jobs[j] # NoJob /\ j \notin torn =>
            nextRun[j[1]] > j[2]
        BY <1>4 DEF IInv, SlotsPassed
  <2> QED  BY <1>1, <2>1 DEF SlotsPassed, Periodic
<1>6. AttemptsBehind' /\ LoopHolds'
      BY <1>1 DEF IInv, AttemptsBehind, LoopHolds, Periodic
<1> QED  BY <1>2, <1>3, <1>5, <1>6 DEF IInv

\* What the writes of the step in progress say: one of its schedule, two of each
\* other, a job's of its patch.
LEMMA OneWrite ==
    ASSUME WritesOrdered, NEW i \in 1..Len(writes)
    PROVE  /\ writes[i].job = <<writes[i].schedule, nextRun[writes[i].schedule]>>
           /\ nextRun[writes[i].schedule] \in 0..now
           /\ writes[i].op = "patch" /\ Period[writes[i].schedule] > 0 =>
                writes[i].next > nextRun[writes[i].schedule]
BY DEF WritesOrdered

LEMMA TwoWrites ==
    ASSUME WritesOrdered, NEW i \in 1..Len(writes), NEW j \in 1..Len(writes), i < j
    PROVE  /\ writes[i].op = "patch" => writes[j].op = "patch"
           /\ writes[i].op = writes[j].op => writes[i].schedule # writes[j].schedule
BY DEF WritesOrdered

\* What the writes of a step look like once the first of them is done.
LEMMA RestOfStep ==
    ASSUME IInv, StepWritesNext
    PROVE  /\ writes' \in Seq(Writes) /\ Len(writes') = Len(writes) - 1
           /\ 1 \in 1..Len(writes) /\ Head(writes) = writes[1] /\ writes[1] \in Writes
           /\ \A i \in 1..Len(writes') : i + 1 \in 1..Len(writes) /\ writes'[i] = writes[i + 1]
<1>1. writes \in Seq(Writes) /\ writes # <<>> /\ writes' = Tail(writes)
      BY DEF StepWritesNext, AfterStep, IInv, TypeOK
<1>2. Len(writes) \in Nat /\ Len(writes) # 0  BY <1>1, EmptySeq
<1>3. writes' \in Seq(Writes) /\ Len(writes') = Len(writes) - 1
      /\ \A i \in 1..Len(writes') : writes'[i] = writes[i + 1]
      BY <1>1, HeadTailProperties
<1>4. \A i \in 1..Len(writes') : i + 1 \in 1..Len(writes)  BY <1>2, <1>3
<1>5. Head(writes) = writes[1] /\ 1 \in 1..Len(writes)  BY <1>1, <1>2
<1>6. writes[1] \in Writes  BY <1>1, <1>5
<1> QED  BY <1>3, <1>4, <1>5, <1>6

LEMMA PatchFollows ==
    ASSUME WritesOrdered, NEW i \in 1..Len(writes), writes[i].op = "upsert"
    PROVE  \E j \in 1..Len(writes) :
                writes[j].op = "patch" /\ writes[j].schedule = writes[i].schedule
BY DEF WritesOrdered

\* A job is written once, and stays behind its schedule when that moves on.
LEMMA UpsertKeeps ==
    ASSUME IInv, StepWritesNext, Head(writes).op = "upsert"
    PROVE  IInv'
<1> DEFINE w == Head(writes)
<1>0. PICK s : s = w.schedule  OBVIOUS
<1>1. /\ writes' \in Seq(Writes) /\ Len(writes') = Len(writes) - 1
      /\ 1 \in 1..Len(writes) /\ w = writes[1] /\ w \in Writes
      /\ \A i \in 1..Len(writes') : i + 1 \in 1..Len(writes) /\ writes'[i] = writes[i + 1]
      BY RestOfStep
<1>2. /\ jobs' = [jobs EXCEPT ![w.job] = w.rec] /\ nextRun' = nextRun
      /\ UNCHANGED <<now, up, loop, faults, torn, begun>>
      /\ timers' \subseteq {"daemon", "worker"}
      BY DEF StepWritesNext, AfterStep, IInv, TypeOK
<1>3. w.job \in JobIds /\ w.rec \in JobRecord /\ s \in Schedules
      BY <1>0, <1>1 DEF Writes
<1>4. w.job = <<s, nextRun[s]>> /\ w.job[1] = s /\ w.job[2] = nextRun[s]
      BY <1>0, <1>1 DEF IInv, WritesOrdered
<1>5. \A i \in 1..Len(writes') : writes'[i].op = "upsert" => writes'[i].schedule # s
  <2>1. \A i \in 1..Len(writes') : i \in Nat /\ 1 < i + 1  BY <1>1
  <2> QED  BY <1>0, <1>1, <2>1 DEF IInv, WritesOrdered
<1>6. ASSUME NEW i \in 1..Len(writes), writes[i].op = "patch"
      PROVE  \E k \in 1..Len(writes') : writes'[k] = writes[i]
  <2>1. i # 1 /\ i \in Nat /\ Len(writes) \in Nat  BY <1>1, <1>6 DEF IInv, TypeOK
  <2>2. i - 1 \in 1..Len(writes') /\ (i - 1) + 1 = i  BY <1>1, <2>1
  <2> QED  BY <1>1, <2>2
<1>7. WritesOrdered'
  <2>1. ASSUME NEW i \in 1..Len(writes')
        PROVE  /\ writes'[i].job = <<writes'[i].schedule, nextRun'[writes'[i].schedule]>>
               /\ nextRun'[writes'[i].schedule] \in 0..now'
               /\ writes'[i].op = "patch" /\ Period[writes'[i].schedule] > 0 =>
                    writes'[i].next > nextRun'[writes'[i].schedule]
    <3> DEFINE k == i + 1
    <3>1. k \in 1..Len(writes) /\ writes'[i] = writes[k]  BY <1>1
    <3> HIDE DEF k
    <3> QED  BY <1>2, <3>1, OneWrite DEF IInv
  <2>2. ASSUME NEW i \in 1..Len(writes'), NEW j \in 1..Len(writes'), i < j
        PROVE  /\ writes'[i].op = "patch" => writes'[j].op = "patch"
               /\ writes'[i].op = writes'[j].op => writes'[i].schedule # writes'[j].schedule
    <3> DEFINE k == i + 1
           m == j + 1
    <3>1. /\ k < m /\ k \in 1..Len(writes) /\ m \in 1..Len(writes)
          /\ writes'[i] = writes[k] /\ writes'[j] = writes[m]
      <4>1. i + 1 \in 1..Len(writes) /\ writes'[i] = writes[i + 1]  BY <1>1
      <4>2. j + 1 \in 1..Len(writes) /\ writes'[j] = writes[j + 1]  BY <1>1
      <4>3. i + 1 < j + 1  BY <2>2
      <4> QED  BY <4>1, <4>2, <4>3
    <3> HIDE DEF k, m
    <3> QED  BY <3>1, TwoWrites DEF IInv
  <2>3. ASSUME NEW i \in 1..Len(writes'), writes'[i].op = "upsert"
        PROVE  \E j \in 1..Len(writes') :
                    writes'[j].op = "patch" /\ writes'[j].schedule = writes'[i].schedule
    <3> DEFINE k == i + 1
    <3>1. k \in 1..Len(writes) /\ writes'[i] = writes[k]  BY <1>1
    <3> HIDE DEF k
    <3>2. PICK j \in 1..Len(writes) :
                writes[j].op = "patch" /\ writes[j].schedule = writes[k].schedule
          BY <2>3, <3>1, PatchFollows DEF IInv
    <3>3. PICK m \in 1..Len(writes') : writes'[m] = writes[j]  BY <1>6, <3>2
    <3>4. writes'[m].op = "patch" /\ writes'[m].schedule = writes'[i].schedule
          BY <3>1, <3>2, <3>3
    <3> QED  BY <3>4
  <2> QED  BY <2>1, <2>2, <2>3 DEF WritesOrdered
<1>8. Written(s)'
  <2>1. PICK j \in 1..Len(writes) : writes[j].op = "patch" /\ writes[j].schedule = s
        BY <1>0, <1>1 DEF IInv, WritesOrdered
  <2>2. PICK k \in 1..Len(writes') : writes'[k] = writes[j]  BY <1>6, <2>1
  <2>3. writes'[k].op = "patch" /\ writes'[k].schedule = s  BY <2>1, <2>2
  <2> QED  BY <1>5, <2>2, <2>3 DEF Written
<1>9. ASSUME NEW t, Written(t)
      PROVE  Written(t)'
  <2>1. \A i \in 1..Len(writes') : writes'[i].op = "upsert" => writes'[i].schedule # t
        BY <1>1, <1>9 DEF Written
  <2>2. PICK j \in 1..Len(writes) : writes[j].op = "patch" /\ writes[j].schedule = t
        BY <1>9 DEF Written
  <2> QED  BY <1>6, <2>1, <2>2 DEF Written
<1>10. \A j \in JobIds : j # w.job => jobs'[j] = jobs[j]
       BY <1>2 DEF IInv, TypeOK
<1>11. jobs'[w.job] = w.rec /\ w.rec # NoJob
       BY <1>2, <1>3, RecordsAreJobs DEF IInv, TypeOK
<1>12. TypeOK'
       BY <1>1, <1>2, <1>3 DEF IInv, TypeOK
<1>13. SlotsPassed'
  <2> SUFFICES ASSUME NEW j \in JobIds, Periodic(j), jobs'[j] # NoJob, j \notin torn
               PROVE  nextRun[j[1]] > j[2] \/ (nextRun[j[1]] = j[2] /\ Written(j[1])')
      BY <1>2 DEF SlotsPassed, Periodic
  <2>1. CASE j = w.job
    <3>1. j[1] = s /\ j[2] = nextRun[s]  BY <1>4, <2>1
    <3> HIDE DEF w
    <3> QED  BY <1>8, <3>1
  <2>2. CASE j # w.job
    <3>1. nextRun[j[1]] > j[2] \/ (nextRun[j[1]] = j[2] /\ Written(j[1]))
          BY <1>10, <2>2 DEF IInv, SlotsPassed
    <3> QED  BY <1>9, <3>1
  <2> QED  BY <2>1, <2>2
<1>14. Periodic(w.job) /\ w.job \notin torn => jobs[w.job] = NoJob
       BY <1>1, UpsertsFresh
<1>15. AttemptsBehind'
  <2> SUFFICES ASSUME NEW j \in JobIds, Periodic(j), j \notin torn,
                      NEW n \in Nat, <<j, n>> \in begun
               PROVE  /\ jobs'[j] # NoJob
                      /\ n =< jobs'[j].attempt
                      /\ jobs'[j].status \in {"queued", "retry_scheduled"} =>
                            n < jobs'[j].attempt
      BY <1>2 DEF AttemptsBehind, Periodic
  <2>1. jobs[j] # NoJob  BY DEF IInv, AttemptsBehind
  <2>2. jobs'[j] = jobs[j]  BY <1>10, <1>14, <2>1
  <2> QED  BY <2>2 DEF IInv, AttemptsBehind
<1>16. LoopHolds'
  <2> SUFFICES ASSUME loop.at = "await"
               PROVE  /\ jobs'[loop.job] # NoJob
                      /\ Periodic(loop.job) /\ loop.job \notin torn =>
                            jobs'[loop.job] = loop.rec
      BY <1>2 DEF LoopHolds, Periodic
  <2>1. loop.job \in JobIds  BY DEF IInv, TypeOK, NoLoop
  <2>2. jobs[loop.job] # NoJob
        /\ (Periodic(loop.job) /\ loop.job \notin torn => jobs[loop.job] = loop.rec)
        BY DEF IInv, LoopHolds
  <2> QED  BY <1>10, <1>11, <1>14, <2>1, <2>2
<1> QED  BY <1>7, <1>12, <1>13, <1>15, <1>16 DEF IInv

\* A patch moves its schedule past the slot it dispatched.
LEMMA PatchKeeps ==
    ASSUME IInv, StepWritesNext, Head(writes).op = "patch"
    PROVE  IInv'
<1> DEFINE w == Head(writes)
           s == w.schedule
<1>1. /\ writes' \in Seq(Writes) /\ Len(writes') = Len(writes) - 1
      /\ 1 \in 1..Len(writes) /\ w = writes[1] /\ w \in Writes
      /\ \A i \in 1..Len(writes') : i + 1 \in 1..Len(writes) /\ writes'[i] = writes[i + 1]
      BY RestOfStep
<1>2. /\ jobs' = jobs /\ nextRun' = [nextRun EXCEPT ![s] = w.next]
      /\ UNCHANGED <<now, up, loop, faults, torn, begun>>
      /\ timers' \subseteq {"daemon", "worker"}
      BY DEF StepWritesNext, AfterStep, IInv, TypeOK
<1>3. w.next \in Nat /\ s \in Schedules  BY <1>1 DEF Writes
<1>4. Period[s] > 0 => w.next > nextRun[s]
      BY <1>1 DEF IInv, WritesOrdered
<1>5. \A i \in 1..Len(writes') : writes'[i].op = "patch" /\ writes'[i].schedule # s
  <2>1. \A i \in 1..Len(writes') : i \in Nat /\ 1 < i + 1  BY <1>1
  <2> QED  BY <1>1, <2>1 DEF IInv, WritesOrdered
<1>6. \A t : t # s => nextRun'[t] = nextRun[t]
      BY <1>2 DEF IInv, TypeOK
<1>7. WritesOrdered'
  <2>1. ASSUME NEW i \in 1..Len(writes')
        PROVE  /\ writes'[i].job = <<writes'[i].schedule, nextRun'[writes'[i].schedule]>>
               /\ nextRun'[writes'[i].schedule] \in 0..now'
               /\ writes'[i].op = "patch" /\ Period[writes'[i].schedule] > 0 =>
                    writes'[i].next > nextRun'[writes'[i].schedule]
    <3>1. nextRun'[writes'[i].schedule] = nextRun[writes'[i].schedule]
          BY <1>5, <1>6
    <3> DEFINE k == i + 1
    <3>2. k \in 1..Len(writes) /\ writes'[i] = writes[k]  BY <1>1
    <3> HIDE DEF k
    <3> QED  BY <1>2, <3>1, <3>2, OneWrite DEF IInv
  <2>2. ASSUME NEW i \in 1..Len(writes'), NEW j \in 1..Len(writes'), i < j
        PROVE  /\ writes'[i].op = "patch" => writes'[j].op = "patch"
               /\ writes'[i].op = writes'[j].op => writes'[i].schedule # writes'[j].schedule
    <3> DEFINE k == i + 1
           m == j + 1
    <3>1. /\ k < m /\ k \in 1..Len(writes) /\ m \in 1..Len(writes)
          /\ writes'[i] = writes[k] /\ writes'[j] = writes[m]
      <4>1. i + 1 \in 1..Len(writes) /\ writes'[i] = writes[i + 1]  BY <1>1
      <4>2. j + 1 \in 1..Len(writes) /\ writes'[j] = writes[j + 1]  BY <1>1
      <4>3. i + 1 < j + 1  BY <2>2
      <4> QED  BY <4>1, <4>2, <4>3
    <3> HIDE DEF k, m
    <3> QED  BY <3>1, TwoWrites DEF IInv
  <2> QED  BY <1>5, <2>1, <2>2 DEF WritesOrdered
<1>8. ASSUME NEW t, t # s, Written(t)
      PROVE  Written(t)'
  <2>1. PICK j \in 1..Len(writes) : writes[j].op = "patch" /\ writes[j].schedule = t
        BY <1>8 DEF Written
  <2>2. j # 1 /\ j \in Nat /\ Len(writes) \in Nat  BY <1>1, <1>8, <2>1 DEF IInv, TypeOK
  <2>3. j - 1 \in 1..Len(writes') /\ (j - 1) + 1 = j  BY <1>1, <2>2
  <2>4. writes'[j - 1] = writes[j]  BY <1>1, <2>3
  <2> QED  BY <1>5, <2>1, <2>3, <2>4 DEF Written
<1>9. SlotsPassed'
  <2> SUFFICES ASSUME NEW j \in JobIds, Periodic(j), jobs[j] # NoJob, j \notin torn
               PROVE  nextRun'[j[1]] > j[2] \/ (nextRun'[j[1]] = j[2] /\ Written(j[1])')
      BY <1>2 DEF SlotsPassed, Periodic
  <2>1. nextRun[j[1]] > j[2] \/ (nextRun[j[1]] = j[2] /\ Written(j[1]))
        BY DEF IInv, SlotsPassed
  <2>2. CASE j[1] = s
    <3>1. nextRun'[s] = w.next  BY <1>2, <1>3 DEF IInv, TypeOK
    <3>2. w.next > nextRun[s] /\ nextRun[s] \in Nat \cup {None}
          BY <1>3, <1>4, <2>2 DEF Periodic, IInv, TypeOK
    <3>3. j[2] \in Nat  BY BackgroundAssumption DEF JobIds
    <3> HIDE DEF s, w
    <3> QED  BY <1>3, <2>1, <2>2, <3>1, <3>2, <3>3
  <2>3. CASE j[1] # s
    <3> HIDE DEF s, w
    <3> QED  BY <1>6, <1>8, <2>1, <2>3
  <2> QED  BY <2>2, <2>3
<1>10. TypeOK'
  <2>1. nextRun' \in [Schedules -> Nat \cup {None}]  BY <1>2, <1>3 DEF IInv, TypeOK
  <2> QED  BY <1>1, <1>2, <2>1 DEF IInv, TypeOK
<1>11. AttemptsBehind' /\ LoopHolds'
       BY <1>2 DEF IInv, AttemptsBehind, LoopHolds, Periodic
<1> QED  BY <1>7, <1>9, <1>10, <1>11 DEF IInv

\* A step that is cut leaves the jobs it had to patch to the next one.
LEMMA CutKeeps ==
    ASSUME IInv, writes' = <<>>, torn' = torn \cup Cut,
           UNCHANGED <<now, nextRun, jobs, begun>>,
           loop' = loop \/ loop' = NoLoop,
           up' \in {"down", "running", "stopping"}, timers' \subseteq {"daemon", "worker"},
           faults' \in 0..MaxFaults
    PROVE  IInv'
<1>1. writes \in Seq(Writes)  BY DEF IInv, TypeOK
<1>2. Cut \subseteq JobIds
  <2>1. \A i \in 1..Len(writes) : writes[i] \in Writes  BY <1>1
  <2> QED  BY <2>1 DEF Cut, Writes
<1>3. TypeOK'
  <2>1. writes' \in Seq(Writes)  OBVIOUS
  <2>2. torn' \subseteq JobIds  BY <1>2 DEF IInv, TypeOK
  <2> QED  BY <2>1, <2>2 DEF IInv, TypeOK
<1>4. WritesOrdered'  BY DEF WritesOrdered
<1>5. SlotsPassed'
  <2> SUFFICES ASSUME NEW j \in JobIds, Periodic(j), jobs[j] # NoJob, j \notin torn'
               PROVE  nextRun[j[1]] > j[2]
      BY DEF SlotsPassed, Periodic
  <2>1. nextRun[j[1]] > j[2] \/ (nextRun[j[1]] = j[2] /\ Written(j[1]))
        BY DEF IInv, SlotsPassed
  <2>2. ASSUME nextRun[j[1]] = j[2], Written(j[1])
        PROVE  FALSE
    <3>1. PICK i \in 1..Len(writes) : writes[i].op = "patch" /\ writes[i].schedule = j[1]
          BY <2>2 DEF Written
    <3>2. writes[i].job = <<j[1], nextRun[j[1]]>>  BY <3>1 DEF IInv, WritesOrdered
    <3>3. j = <<j[1], j[2]>>  BY DEF JobIds
    <3>4. writes[i].job \in Cut  BY DEF Cut
    <3> QED  BY <2>2, <3>2, <3>3, <3>4
  <2> QED  BY <2>1, <2>2
<1>6. AttemptsBehind'
      BY DEF IInv, AttemptsBehind, Periodic
<1>7. LoopHolds'
      BY DEF IInv, LoopHolds, Periodic, NoLoop
<1> QED  BY <1>3, <1>4, <1>5, <1>6, <1>7 DEF IInv

-----------------------------------------------------------------------------
(***************************************************************************)
(* The steps of the worker, of the process and of the clock.               *)
(***************************************************************************)

\* A step that leaves the rows alone and ends, begins or keeps the worker's loop.
LEMMA RowsKept ==
    ASSUME IInv, UNCHANGED <<nextRun, jobs, writes, torn, begun>>,
           now' \in 0..MaxTime, now' >= now,
           loop' = loop \/ loop' = NoLoop \/ loop' \in [at : {"head"}, claims : 0..MaxClaims],
           up' \in {"down", "running", "stopping"}, timers' \subseteq {"daemon", "worker"},
           faults' \in 0..MaxFaults
    PROVE  IInv'
<1>1. TypeOK'  BY DEF IInv, TypeOK
<1>2. now \in Nat /\ now' \in Nat  BY BackgroundAssumption DEF IInv, TypeOK
<1>3. WritesOrdered'
  <2>1. \A i \in 1..Len(writes) : nextRun[writes[i].schedule] \in 0..now'
        BY <1>2 DEF IInv, WritesOrdered
  <2> QED  BY <2>1 DEF IInv, WritesOrdered
<1>4. SlotsPassed' /\ AttemptsBehind'
      BY DEF IInv, SlotsPassed, AttemptsBehind, Written, Periodic
<1>5. LoopHolds'
      BY DEF IInv, LoopHolds, Periodic, NoLoop
<1> QED  BY <1>1, <1>3, <1>4, <1>5 DEF IInv

\* A worker's write to the row of a job that exists does not concern the scheduler.
LEMMA JobWritten ==
    ASSUME IInv, NEW j \in JobIds, NEW rec \in JobRecord, jobs[j] # NoJob,
           jobs' = [jobs EXCEPT ![j] = rec],
           UNCHANGED <<now, nextRun, writes, torn>>
    PROVE  /\ jobs' \in [JobIds -> JobRecord \cup {NoJob}]
           /\ \A k \in JobIds : jobs'[k] = IF k = j THEN rec ELSE jobs[k]
           /\ WritesOrdered'
           /\ SlotsPassed'
<1>1. jobs' \in [JobIds -> JobRecord \cup {NoJob}]  BY DEF IInv, TypeOK
<1>2. \A k \in JobIds : jobs'[k] = IF k = j THEN rec ELSE jobs[k]
      BY DEF IInv, TypeOK
<1>3. WritesOrdered'  BY DEF IInv, WritesOrdered
<1>4. \A s : Written(s)' = Written(s)  BY DEF Written
<1>5. SlotsPassed'
      BY <1>2, <1>4 DEF IInv, SlotsPassed, Periodic
<1> QED  BY <1>1, <1>2, <1>3, <1>5

\* A job is claimed with an attempt that was not begun.
LEMMA ClaimNew ==
    ASSUME IInv, NEW j \in JobIds, Ready(j)
    PROVE  /\ jobs[j] \in JobRecord
           /\ jobs[j] # NoJob
           /\ jobs[j].status \in {"queued", "retry_scheduled"}
           /\ Periodic(j) /\ j \notin torn => <<j, jobs[j].attempt>> \notin begun
<1>1. jobs[j].status \in {"queued", "retry_scheduled"}  BY DEF Ready
<1>2. jobs[j] # NoJob  BY <1>1 DEF NoJob
<1>3. jobs[j] \in JobRecord  BY <1>2 DEF IInv, TypeOK
<1>4. jobs[j].attempt \in Nat  BY <1>3 DEF JobRecord
<1>5. ASSUME Periodic(j), j \notin torn, <<j, jobs[j].attempt>> \in begun
      PROVE  FALSE
  <2>1. jobs[j].attempt < jobs[j].attempt
        BY <1>1, <1>4, <1>5 DEF IInv, AttemptsBehind
  <2> QED  BY <1>4, <2>1
<1> QED  BY <1>1, <1>2, <1>3, <1>5

LEMMA ClaimKeeps ==
    ASSUME IInv, WorkerClaims
    PROVE  IInv'
<1>1. PICK j \in JobIds :
        /\ Ready(j)
        /\ jobs' = [jobs EXCEPT ![j] = [jobs[j] EXCEPT !.status = "running"]]
        /\ loop' = [at |-> "await", claims |-> loop.claims + 1, job |-> j,
                    rec |-> [jobs[j] EXCEPT !.status = "running"], since |-> now]
        /\ begun' = begun \cup {<<j, [jobs[j] EXCEPT !.status = "running"].attempt>>}
      BY DEF WorkerClaims
<1>2. /\ loop.at = "head" /\ loop.claims < MaxClaims
      /\ UNCHANGED <<now, nextRun, up, timers, writes, faults, torn>>
      BY DEF WorkerClaims
<1> DEFINE rec == [jobs[j] EXCEPT !.status = "running"]
<1>3. /\ jobs[j] \in JobRecord /\ jobs[j] # NoJob
      BY <1>1, ClaimNew
<1>4. rec \in JobRecord /\ rec.attempt = jobs[j].attempt /\ rec.status = "running"
      /\ rec.attempt \in Nat
      BY <1>3 DEF JobRecord, Statuses
<1>5. /\ jobs' = [jobs EXCEPT ![j] = rec] /\ begun' = begun \cup {<<j, rec.attempt>>}
      /\ loop'.at = "await" /\ loop'.job = j /\ loop'.rec = rec
      /\ loop' = [at |-> "await", claims |-> loop.claims + 1, job |-> j, rec |-> rec,
                  since |-> now]
      BY <1>1
<1> HIDE DEF rec
<1>6. /\ jobs' \in [JobIds -> JobRecord \cup {NoJob}]
      /\ \A k \in JobIds : jobs'[k] = IF k = j THEN rec ELSE jobs[k]
      /\ WritesOrdered' /\ SlotsPassed'
      BY <1>2, <1>3, <1>4, <1>5, JobWritten
<1>7. loop.claims \in 0..MaxClaims  BY <1>2 DEF IInv, TypeOK, NoLoop
<1>8. loop.claims + 1 \in 1..MaxClaims  BY <1>2, <1>7, BackgroundAssumption
<1>9. TypeOK'
  <2>1. begun' \subseteq JobIds \X Nat  BY <1>4, <1>5 DEF IInv, TypeOK
  <2>2. loop' \in [at : {"await"}, claims : 1..MaxClaims, job : JobIds, rec : JobRecord,
                   since : 0..MaxTime]
        BY <1>4, <1>5, <1>8 DEF IInv, TypeOK
  <2> QED  BY <1>2, <1>6, <2>1, <2>2 DEF IInv, TypeOK
<1>10. AttemptsBehind'
  <2> SUFFICES ASSUME NEW k \in JobIds, Periodic(k), k \notin torn,
                      NEW n \in Nat, <<k, n>> \in begun'
               PROVE  /\ jobs'[k] # NoJob
                      /\ n =< jobs'[k].attempt
                      /\ jobs'[k].status \in {"queued", "retry_scheduled"} =>
                            n < jobs'[k].attempt
      BY <1>2 DEF AttemptsBehind, Periodic
  <2>1. CASE k = j
    <3>1. jobs'[k] = rec /\ rec # NoJob  BY <1>4, <1>6, <2>1, RecordsAreJobs
    <3>2. n =< jobs[j].attempt
      <4>1. CASE <<k, n>> \in begun
            BY <2>1, <4>1 DEF IInv, AttemptsBehind
      <4>2. CASE <<k, n>> \notin begun
            BY <1>4, <1>5, <4>2
      <4> QED  BY <4>1, <4>2
    <3> QED  BY <1>4, <3>1, <3>2
  <2>2. CASE k # j
    <3>1. <<k, n>> \in begun /\ jobs'[k] = jobs[k]  BY <1>5, <1>6, <2>2
    <3> QED  BY <3>1 DEF IInv, AttemptsBehind
  <2> QED  BY <2>1, <2>2
<1>11. LoopHolds'
       BY <1>4, <1>5, <1>6, RecordsAreJobs DEF LoopHolds
<1> QED  BY <1>6, <1>9, <1>10, <1>11 DEF IInv

\* The executor's answer ends the attempt it worked on.
LEMMA AnswerKeeps ==
    ASSUME IInv, loop.at = "await", NEW outcome \in Over \cup {"retry"},
           jobs' = [jobs EXCEPT ![loop.job] = Transitioned(loop.rec, outcome, loop.since)],
           UNCHANGED <<now, nextRun, up, writes, torn, begun>>,
           loop' = NoLoop \/ loop' = [at |-> "head", claims |-> loop.claims],
           timers' \subseteq {"daemon", "worker"}, faults' \in 0..MaxFaults
    PROVE  IInv'
<1> DEFINE rec == Transitioned(loop.rec, outcome, loop.since)
<1>1. /\ loop.job \in JobIds /\ loop.rec \in JobRecord /\ loop.since \in 0..MaxTime
      /\ loop.claims \in 0..MaxClaims
      BY BackgroundAssumption DEF IInv, TypeOK, NoLoop
<1>2. loop.rec.attempt \in Nat  BY <1>1 DEF JobRecord
<1>3. loop.since + RetryDelay \in 0..(MaxTime + RetryDelay)
      BY <1>1, BackgroundAssumption
<1>4. /\ rec \in JobRecord
      /\ rec.attempt = IF outcome = "retry" THEN loop.rec.attempt + 1 ELSE loop.rec.attempt
      /\ rec.status = IF outcome = "retry" THEN "retry_scheduled" ELSE outcome
  <2>1. CASE outcome = "retry"
    <3>1. rec = [loop.rec EXCEPT !.status = "retry_scheduled", !.attempt = @ + 1,
                                 !.nextAttempt = loop.since + RetryDelay]
          BY <2>1 DEF Transitioned
    <3>2. loop.rec.attempt + 1 \in Nat  BY <1>2
    <3> QED  BY <1>1, <1>3, <2>1, <3>1, <3>2 DEF JobRecord, Statuses
  <2>2. CASE outcome # "retry"
    <3>1. rec = [loop.rec EXCEPT !.status = outcome] /\ outcome \in Over
          BY <2>2 DEF Transitioned
    <3> QED  BY <1>1, <2>2, <3>1 DEF JobRecord, Statuses, Over
  <2> QED  BY <2>1, <2>2
<1>5. jobs[loop.job] # NoJob  BY DEF IInv, LoopHolds
<1> HIDE DEF rec
<1>6. /\ jobs' \in [JobIds -> JobRecord \cup {NoJob}]
      /\ \A k \in JobIds : jobs'[k] = IF k = loop.job THEN rec ELSE jobs[k]
      /\ WritesOrdered' /\ SlotsPassed'
  <2>1. jobs' = [jobs EXCEPT ![loop.job] = rec]  BY DEF rec
  <2> QED  BY <1>1, <1>4, <1>5, <2>1, JobWritten
<1>7. TypeOK'
  <2>1. loop' \in {NoLoop} \cup [at : {"head"}, claims : 0..MaxClaims]  BY <1>1
  <2> QED  BY <1>6, <2>1 DEF IInv, TypeOK
<1>8. AttemptsBehind'
  <2> SUFFICES ASSUME NEW k \in JobIds, Periodic(k), k \notin torn,
                      NEW n \in Nat, <<k, n>> \in begun
               PROVE  /\ jobs'[k] # NoJob
                      /\ n =< jobs'[k].attempt
                      /\ jobs'[k].status \in {"queued", "retry_scheduled"} =>
                            n < jobs'[k].attempt
      BY DEF AttemptsBehind, Periodic
  <2>1. CASE k = loop.job
    <3>1. jobs'[k] = rec /\ rec # NoJob  BY <1>4, <1>6, <2>1, RecordsAreJobs
    <3>2. jobs[k] = loop.rec  BY <2>1 DEF IInv, LoopHolds
    <3>3. n =< loop.rec.attempt  BY <3>2 DEF IInv, AttemptsBehind
    <3> QED  BY <1>2, <1>4, <3>1, <3>3 DEF Over
  <2>2. CASE k # loop.job
    <3>1. jobs'[k] = jobs[k]  BY <1>6, <2>2
    <3> QED  BY <3>1 DEF IInv, AttemptsBehind
  <2> QED  BY <2>1, <2>2
<1>9. LoopHolds'
      BY DEF LoopHolds, NoLoop
<1> QED  BY <1>6, <1>7, <1>8, <1>9 DEF IInv

LEMMA InitKeeps ==
    ASSUME Init
    PROVE  IInv
<1>1. now = 0 /\ nextRun = FirstRun /\ jobs = [j \in JobIds |-> NoJob]
      /\ up = "down" /\ timers = {} /\ writes = <<>> /\ loop = NoLoop
      /\ faults = 0 /\ torn = {} /\ begun = {}
      BY DEF Init
<1>2. TypeOK
  <2>1. nextRun \in [Schedules -> Nat \cup {None}]  BY <1>1, BackgroundAssumption
  <2>2. jobs \in [JobIds -> JobRecord \cup {NoJob}]  BY <1>1
  <2>3. now \in 0..MaxTime /\ faults \in 0..MaxFaults  BY <1>1, BackgroundAssumption
  <2>4. writes \in Seq(Writes)  BY <1>1
  <2> QED  BY <1>1, <2>1, <2>2, <2>3, <2>4 DEF TypeOK
<1>3. \A j \in JobIds : jobs[j] = NoJob  BY <1>1
<1>4. Len(writes) = 0  BY <1>1
<1> QED  BY <1>1, <1>2, <1>3, <1>4
         DEF IInv, WritesOrdered, SlotsPassed, AttemptsBehind, LoopHolds, NoLoop

LEMMA NextKeeps ==
    ASSUME IInv, [Next]_vars
    PROVE  IInv'
<1>1. /\ now \in 0..MaxTime /\ now \in Nat /\ MaxTime \in Nat
      /\ up \in {"down", "running", "stopping"} /\ timers \subseteq {"daemon", "worker"}
      /\ faults \in 0..MaxFaults /\ MaxFaults \in Nat /\ 0 \in 0..MaxClaims
      BY BackgroundAssumption DEF IInv, TypeOK
<1>2. CASE DaemonFires  BY <1>2, DaemonKeeps
<1>3. CASE StepWritesNext
  <2>1. Head(writes) \in Writes  BY <1>3, RestOfStep
  <2>2. Head(writes).op \in {"upsert", "patch"}  BY <2>1 DEF Writes
  <2> QED  BY <1>3, <2>2, UpsertKeeps, PatchKeeps
<1>4. CASE WorkerFires
  <2>1. [at |-> "head", claims |-> 0] \in [at : {"head"}, claims : 0..MaxClaims]
        BY <1>1
  <2>2. loop' = loop \/ loop' \in [at : {"head"}, claims : 0..MaxClaims]
        BY <1>4, <2>1 DEF WorkerFires
  <2>3. UNCHANGED <<now, nextRun, jobs, up, writes, faults, torn, begun>>
        /\ timers' \subseteq {"daemon", "worker"}
        BY <1>1, <1>4 DEF WorkerFires
  <2> QED  BY <1>1, <2>2, <2>3, RowsKept
<1>5. CASE WorkerClaims  BY <1>5, ClaimKeeps
<1>6. CASE WorkerLoopEnds
  <2>1. loop' = NoLoop /\ timers' \subseteq {"daemon", "worker"}
        /\ UNCHANGED <<now, nextRun, jobs, up, writes, faults, torn, begun>>
        BY <1>1, <1>6 DEF WorkerLoopEnds, Sleep
  <2> QED  BY <1>1, <2>1, RowsKept
<1>7. CASE ClaimThrows
  <2>1. faults' \in 0..MaxFaults  BY <1>1, <1>7 DEF ClaimThrows
  <2>2. loop' = NoLoop /\ timers' \subseteq {"daemon", "worker"}
        /\ UNCHANGED <<now, nextRun, jobs, up, writes, torn, begun>>
        BY <1>1, <1>7 DEF ClaimThrows, Sleep
  <2> QED  BY <1>1, <2>1, <2>2, RowsKept
<1>8. CASE ResultLost
  <2>1. faults' \in 0..MaxFaults  BY <1>1, <1>8 DEF ResultLost
  <2>2. loop' = NoLoop /\ timers' \subseteq {"daemon", "worker"}
        /\ UNCHANGED <<now, nextRun, jobs, up, writes, torn, begun>>
        BY <1>1, <1>8 DEF ResultLost, Sleep
  <2> QED  BY <1>1, <2>1, <2>2, RowsKept
<1>9. CASE Answer
  <2>1. PICK outcome \in Over \cup {"retry"} : ExecutorAnswers(outcome)
        BY <1>9 DEF Answer
  <2> QED  BY <1>1, <2>1, AnswerKeeps DEF ExecutorAnswers
<1>10. CASE ResultThrows
  <2>1. faults' \in 0..MaxFaults  BY <1>1, <1>10 DEF ResultThrows
  <2>2. loop' = NoLoop /\ timers' \subseteq {"daemon", "worker"} /\ loop.at = "await"
        /\ jobs' = [jobs EXCEPT ![loop.job] = Transitioned(loop.rec, "failed", loop.since)]
        /\ UNCHANGED <<now, nextRun, up, writes, torn, begun>>
        BY <1>1, <1>10 DEF ResultThrows, Sleep
  <2>3. "failed" \in Over \cup {"retry"}  BY DEF Over
  <2> QED  BY <2>1, <2>2, <2>3, AnswerKeeps
<1>11. CASE StepThrows
  <2>1. faults' \in 0..MaxFaults  BY <1>1, <1>11 DEF StepThrows
  <2> QED  BY <1>1, <1>11, <2>1, CutKeeps DEF StepThrows
<1>12. CASE Exit
  <2>1. faults' \in 0..MaxFaults  BY <1>1, <1>12 DEF Exit
  <2> QED  BY <1>1, <1>12, <2>1, CutKeeps DEF Exit
<1>13. CASE Launch
       BY <1>1, <1>13, RowsKept DEF Launch
<1>14. CASE Stop
  <2>1. faults' \in 0..MaxFaults  BY <1>1, <1>14 DEF Stop
  <2> QED  BY <1>1, <1>14, <2>1, RowsKept DEF Stop
<1>15. CASE TimePasses
  <2>1. now' \in 0..MaxTime /\ now' >= now  BY <1>1, <1>15 DEF TimePasses
  <2> QED  BY <1>1, <1>15, <2>1, RowsKept DEF TimePasses
<1>16. CASE UNCHANGED vars
  <2>1. now' >= now  BY <1>1, <1>16 DEF vars
  <2> QED  BY <1>1, <1>16, <2>1, RowsKept DEF vars
<1> QED  BY <1>2, <1>3, <1>4, <1>5, <1>6, <1>7, <1>8, <1>9, <1>10, <1>11, <1>12, <1>13,
            <1>14, <1>15, <1>16 DEF Next, Scheduler, Worker

-----------------------------------------------------------------------------
(***************************************************************************)
(* What holds of the background runtime.                                   *)
(***************************************************************************)

\* The strengthening holds in every state, whatever throws and whenever the
\* process ends.
THEOREM Invariance == Spec => []IInv
<1>1. Init => IInv  BY InitKeeps
<1>2. IInv /\ [Next]_vars => IInv'  BY NextKeeps
<1> QED  BY <1>1, <1>2, PTL DEF Spec

\* The rows, the step in progress and the loop in progress have their types.
THEOREM TypeCorrect == Spec => []TypeOK
<1>1. IInv => TypeOK  BY DEF IInv
<1> QED  BY <1>1, Invariance, PTL

\* A slot of a periodic schedule is dispatched once, unless its dispatch was cut.
THEOREM SlotsFireOnce == Spec => []FiresOnce
<1>1. IInv => FiresOnce  BY UpsertsFresh DEF FiresOnce
<1> QED  BY <1>1, Invariance, PTL

\* No attempt of a job is executed twice, unless its dispatch was cut.
THEOREM AttemptsBeginOnce == Spec => AttemptBegunOnce
<1> DEFINE Once ==
        loop'.at = "await" /\ loop.at = "head" =>
          \/ <<loop'.job, loop'.rec.attempt>> \notin begun
          \/ loop'.job \in torn
          \/ ~Periodic(loop'.job)
<1>1. ASSUME IInv, [Next]_vars
      PROVE  [Once]_vars
  <2> SUFFICES ASSUME loop'.at = "await", loop.at = "head", Next
               PROVE  \/ <<loop'.job, loop'.rec.attempt>> \notin begun
                      \/ loop'.job \in torn
                      \/ ~Periodic(loop'.job)
      BY <1>1
  <2>1. WorkerClaims
        BY DEF Next, Scheduler, Worker, Answer, DaemonFires, StepWritesNext, WorkerFires,
               WorkerLoopEnds, ExecutorAnswers, StepThrows, ClaimThrows, ResultThrows,
               ResultLost, Launch, Stop, Exit, TimePasses, Sleep, NoLoop
  <2>2. PICK j \in JobIds :
          /\ Ready(j)
          /\ loop' = [at |-> "await", claims |-> loop.claims + 1, job |-> j,
                      rec |-> [jobs[j] EXCEPT !.status = "running"], since |-> now]
        BY <2>1 DEF WorkerClaims
  <2>3. loop'.job = j /\ loop'.rec = [jobs[j] EXCEPT !.status = "running"]
        BY <2>2
  <2>4. jobs[j] \in JobRecord
        /\ (Periodic(j) /\ j \notin torn => <<j, jobs[j].attempt>> \notin begun)
        BY <1>1, <2>2, ClaimNew
  <2>5. loop'.rec.attempt = jobs[j].attempt  BY <2>3, <2>4 DEF JobRecord
  <2> QED  BY <2>3, <2>4, <2>5
<1> QED  BY <1>1, Invariance, PTL DEF Spec, AttemptBegunOnce
=============================================================================
