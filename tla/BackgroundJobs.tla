--------------------------- MODULE BackgroundJobs ---------------------------
(***************************************************************************)
(* The background runtime of the desktop: packages/conversation-runtime's  *)
(* scheduler daemon and job worker, wired together by                      *)
(* apps/director-desktop/src/desktop-background-runtime.cjs.               *)
(*                                                                         *)
(* One process runs both on one thread.  Schedules and jobs are rows of a  *)
(* SQLite file and survive it; the timers and the worker's loop do not.    *)
(* Every statement commits on its own, so a scheduler step is a sequence   *)
(* of writes, writes, that nothing interleaves with but the end of the     *)
(* process or an error of the database.  A timer fires some time after it  *)
(* was set; only whether it is set is kept.                                *)
(***************************************************************************)
EXTENDS Integers, Sequences, FiniteSets

CONSTANTS
    Schedules,     \* scheduleIds that are neither paused nor disabled and have tools
    Period,        \* schedule -> everyMs, or 0 for a one-shot "at" schedule
    Anchor,        \* schedule -> anchorMs
    FirstRun,      \* schedule -> the nextRunAtMs its row was written with, or None
    MaxDispatches, \* dispatches of one scheduler step
    MaxClaims,     \* claims of one worker loop
    RetryDelay,    \* workerMaxDelayMs
    MaxTime,       \* bound: the clock
    MaxAttempts,   \* bound: executions of one job that end in a retry
    MaxFaults      \* bound: processes that end, database errors

VARIABLES
    now,      \* the clock
    nextRun,  \* schedule -> state.nextRunAtMs, None when it has none
    jobs,     \* job -> its record, NoJob when it has none
    up,       \* the process: "down", "running", or "stopping" after stop()
    timers,   \* the timers that are set: of the daemon, of the worker
    writes,   \* what the scheduler step in progress has still to write
    loop,     \* the worker loop in progress
    faults,   \* processes that ended and errors
    torn,     \* history: jobs whose dispatch was cut before its patch
    begun     \* history: executions begun, as <<job, attempt>>

vars == <<now, nextRun, jobs, up, timers, writes, loop, faults, torn, begun>>

ASSUME BackgroundAssumption ==
    /\ Schedules \subseteq Nat /\ IsFiniteSet(Schedules)
    /\ Period \in [Schedules -> Nat]
    /\ Anchor \in [Schedules -> Nat]
    /\ FirstRun \in [Schedules -> Nat \cup {-1}]
    /\ MaxDispatches \in Nat \ {0}
    /\ MaxClaims \in Nat \ {0}
    /\ RetryDelay \in Nat
    /\ MaxTime \in Nat
    /\ MaxAttempts \in Nat
    /\ MaxFaults \in Nat

None == -1
NoJob == [status |-> "none"]
Statuses == {"queued", "running", "retry_scheduled", "completed", "failed"}
Over == {"completed", "failed"}

\* scheduled:<scheduleId>:<scheduledForMs>
JobIds == Schedules \X (0..MaxTime)

JobRecord == [status : Statuses, attempt : Nat, created : 0..MaxTime,
              nextAttempt : 0..(MaxTime + RetryDelay) \cup {None}]

\* The loop is at its head, before the next claim, or awaits the executor, which
\* works on record rec of job; claims is claimIndex.
NoLoop == [at |-> "none"]

\* Nothing runs: the process waits for a timer or for the executor.
Free == writes = <<>> /\ loop.at # "head"

(***************************************************************************)
(* The scheduler.                                                          *)
(***************************************************************************)

\* computeNextConversationRuntimeBackgroundJobRunAtMs
\* Mutant: a slot that begins right now counts as the next one.
NextRunInclusive(s, t) ==
    IF Period[s] = 0 THEN None
    ELSE IF t < Anchor[s] THEN Anchor[s]
    ELSE Anchor[s] + ((t - Anchor[s] + Period[s] - 1) \div Period[s]) * Period[s]

NextRun(s, t) ==
    IF Period[s] = 0 THEN IF Anchor[s] > t THEN Anchor[s] ELSE None
    ELSE IF t < Anchor[s] THEN Anchor[s]
    ELSE Anchor[s] + ((t - Anchor[s]) \div Period[s] + 1) * Period[s]

Due == {s \in Schedules : nextRun[s] # None /\ nextRun[s] =< now}

\* compareSchedules
Sooner(s, t) == nextRun[s] < nextRun[t] \/ (nextRun[s] = nextRun[t] /\ s < t)

\* The first MaxDispatches due schedules, in the order of the store.
Position(s) == Cardinality({t \in Due : Sooner(t, s)}) + 1
Selected == {s \in Due : Position(s) =< MaxDispatches}
Intents == [i \in 1..Cardinality(Selected) |-> CHOOSE s \in Selected : Position(s) = i]

FreshJob == [status |-> "queued", attempt |-> 1, created |-> now, nextAttempt |-> None]

Upsert(s) == [op |-> "upsert", schedule |-> s, job |-> <<s, nextRun[s]>>, rec |-> FreshJob]

\* A patch without nextRunAtMs leaves the one of the schedule.
Patch(s) ==
    [op |-> "patch", schedule |-> s, job |-> <<s, nextRun[s]>>,
     next |-> IF NextRun(s, now) = None THEN nextRun[s] ELSE NextRun(s, now)]

StepWrites ==
    [i \in 1..Len(Intents) |-> Upsert(Intents[i])] \o
    [i \in 1..Len(Intents) |-> Patch(Intents[i])]

\* The end of a step: the report wakes the worker, the daemon sets its timer.
AfterStep(rest) ==
    /\ writes' = rest
    /\ timers' = IF rest = <<>> THEN timers \cup {"daemon", "worker"} ELSE timers \ {"daemon"}

DaemonFires ==
    /\ Free
    /\ "daemon" \in timers
    /\ AfterStep(StepWrites)
    /\ UNCHANGED <<now, nextRun, jobs, up, loop, faults, torn, begun>>

StepWritesNext ==
    /\ writes # <<>>
    /\ LET w == Head(writes) IN
       /\ jobs' = IF w.op = "upsert" THEN [jobs EXCEPT ![w.job] = w.rec] ELSE jobs
       /\ nextRun' = IF w.op = "patch" THEN [nextRun EXCEPT ![w.schedule] = w.next] ELSE nextRun
    /\ AfterStep(Tail(writes))
    /\ UNCHANGED <<now, up, loop, faults, torn, begun>>

\* Jobs that are written, or about to be, by a step that has not patched yet.
Cut == {writes[i].job : i \in 1..Len(writes)}

\* Mutant: the daemon's loop ends with the error.
StepThrowsForGood ==
    /\ writes # <<>>
    /\ faults < MaxFaults
    /\ faults' = faults + 1
    /\ torn' = torn \cup Cut
    /\ writes' = <<>>
    /\ UNCHANGED <<now, nextRun, jobs, up, timers, loop, begun>>

\* A write throws: the daemon drops the rest of the step and sets its timer; the
\* worker is not woken.
StepThrows ==
    /\ writes # <<>>
    /\ faults < MaxFaults
    /\ faults' = faults + 1
    /\ torn' = torn \cup Cut
    /\ writes' = <<>>
    /\ timers' = timers \cup {"daemon"}
    /\ UNCHANGED <<now, nextRun, jobs, up, loop, begun>>

(***************************************************************************)
(* The worker.                                                             *)
(***************************************************************************)

\* scheduleWorkerStep, when a worker step ends.
Sleep(claims) ==
    /\ loop' = NoLoop
    /\ timers' = IF up = "running" THEN timers \cup {"worker"} ELSE timers

\* The timer of a step in flight is used up for nothing.
WorkerFires ==
    /\ Free
    /\ "worker" \in timers
    /\ timers' = timers \ {"worker"}
    /\ loop' = IF loop = NoLoop THEN [at |-> "head", claims |-> 0] ELSE loop
    /\ UNCHANGED <<now, nextRun, jobs, up, writes, faults, torn, begun>>

\* Mutant: a job that runs is taken up again.
ReadyOrRunning(j) ==
    \/ jobs[j].status \in {"queued", "running"}
    \/ jobs[j].status = "retry_scheduled" /\ jobs[j].nextAttempt =< now

Ready(j) ==
    \/ jobs[j].status = "queued"
    \/ jobs[j].status = "retry_scheduled" /\ jobs[j].nextAttempt =< now

\* compareReadyBackgroundJobs
ReadyAt(j) == IF jobs[j].status = "retry_scheduled" THEN jobs[j].nextAttempt ELSE 0
Earlier(j, k) ==
    \/ ReadyAt(j) < ReadyAt(k)
    \/ ReadyAt(j) = ReadyAt(k) /\ jobs[j].created < jobs[k].created
    \/ /\ ReadyAt(j) = ReadyAt(k) /\ jobs[j].created = jobs[k].created
       /\ j[1] < k[1] \/ (j[1] = k[1] /\ j[2] < k[2])

WorkerClaims ==
    /\ loop.at = "head"
    /\ loop.claims < MaxClaims
    /\ \E j \in JobIds :
        /\ Ready(j)
        /\ \A k \in JobIds \ {j} : Ready(k) => Earlier(j, k)
        /\ LET rec == [jobs[j] EXCEPT !.status = "running"] IN
           /\ jobs' = [jobs EXCEPT ![j] = rec]
           /\ loop' = [at |-> "await", claims |-> loop.claims + 1,
                       job |-> j, rec |-> rec, since |-> now]
           /\ begun' = begun \cup {<<j, rec.attempt>>}
    /\ UNCHANGED <<now, nextRun, up, timers, writes, faults, torn>>

WorkerLoopEnds ==
    /\ loop.at = "head"
    /\ loop.claims = MaxClaims \/ \A j \in JobIds : ~Ready(j)
    /\ Sleep(loop.claims)
    /\ UNCHANGED <<now, nextRun, jobs, up, writes, faults, torn, begun>>

\* Mutant: the executor's "retry" is written as the status.
StatusIsOutcome(rec, outcome, since) == [rec EXCEPT !.status = outcome]

\* transitionBackgroundJobFromWorkerExecutorResult: of the record that was
\* claimed, whatever the row says by now, and at the time of the claim.
Transitioned(rec, outcome, since) ==
    IF outcome = "retry"
    THEN [rec EXCEPT !.status = "retry_scheduled", !.attempt = @ + 1,
                     !.nextAttempt = since + RetryDelay]
    ELSE [rec EXCEPT !.status = outcome]

ExecutorAnswers(outcome) ==
    /\ Free
    /\ loop.at = "await"
    /\ outcome = "retry" => loop.rec.attempt =< MaxAttempts
    /\ jobs' = [jobs EXCEPT ![loop.job] = Transitioned(loop.rec, outcome, loop.since)]
    /\ loop' = [at |-> "head", claims |-> loop.claims]
    /\ UNCHANGED <<now, nextRun, up, timers, writes, faults, torn, begun>>

\* A write throws: the claim's ends the step; the result's is answered by
\* recording a failure, which ends the loop; when that throws too, nothing is
\* recorded.
ClaimThrows ==
    /\ loop.at = "head"
    /\ faults < MaxFaults
    /\ faults' = faults + 1
    /\ Sleep(loop.claims)
    /\ UNCHANGED <<now, nextRun, jobs, up, writes, torn, begun>>

ResultThrows ==
    /\ Free
    /\ loop.at = "await"
    /\ faults < MaxFaults
    /\ faults' = faults + 1
    /\ jobs' = [jobs EXCEPT ![loop.job] = Transitioned(loop.rec, "failed", loop.since)]
    /\ Sleep(loop.claims)
    /\ UNCHANGED <<now, nextRun, up, writes, torn, begun>>

ResultLost ==
    /\ Free
    /\ loop.at = "await"
    /\ faults + 2 =< MaxFaults
    /\ faults' = faults + 2
    /\ Sleep(loop.claims)
    /\ UNCHANGED <<now, nextRun, jobs, up, writes, torn, begun>>

(***************************************************************************)
(* The process and the clock.                                              *)
(***************************************************************************)

Launch ==
    /\ up = "down"
    /\ up' = "running"
    /\ timers' = {"daemon", "worker"}
    /\ UNCHANGED <<now, nextRun, jobs, writes, loop, faults, torn, begun>>

\* before-quit: stop().  A loop in flight goes on until the process ends.
Stop ==
    /\ Free
    /\ up = "running"
    /\ faults < MaxFaults
    /\ faults' = faults + 1
    /\ up' = "stopping"
    /\ timers' = {}
    /\ UNCHANGED <<now, nextRun, jobs, writes, loop, torn, begun>>

\* The process ends, by a quit or a crash, between any two writes.
Exit ==
    /\ up # "down"
    /\ IF up = "stopping" THEN UNCHANGED faults
       ELSE faults < MaxFaults /\ faults' = faults + 1
    /\ up' = "down"
    /\ timers' = {}
    /\ writes' = <<>>
    /\ loop' = NoLoop
    /\ torn' = torn \cup Cut
    /\ UNCHANGED <<now, nextRun, jobs, begun>>

TimePasses ==
    /\ Free
    /\ now < MaxTime
    /\ now' = now + 1
    /\ UNCHANGED <<nextRun, jobs, up, timers, writes, loop, faults, torn, begun>>

Init ==
    /\ now = 0
    /\ nextRun = FirstRun
    /\ jobs = [j \in JobIds |-> NoJob]
    /\ up = "down"
    /\ timers = {}
    /\ writes = <<>>
    /\ loop = NoLoop
    /\ faults = 0
    /\ torn = {}
    /\ begun = {}

Scheduler == DaemonFires \/ StepWritesNext

Worker == WorkerFires \/ WorkerClaims \/ WorkerLoopEnds

Answer == \E outcome \in Over \cup {"retry"} : ExecutorAnswers(outcome)

Next ==
    \/ Scheduler
    \/ Worker
    \/ Answer
    \/ StepThrows
    \/ ClaimThrows
    \/ ResultThrows
    \/ ResultLost
    \/ Launch
    \/ Stop
    \/ Exit
    \/ TimePasses

Spec == Init /\ [][Next]_vars

\* The thread goes on, no timer is passed over for ever by the event loop, which
\* fires them as they come due, the executor answers, the desktop is started again.
FairSpec ==
    /\ Spec
    /\ SF_vars(DaemonFires)
    /\ WF_vars(StepWritesNext)
    /\ SF_vars(WorkerFires)
    /\ WF_vars(WorkerClaims)
    /\ WF_vars(WorkerLoopEnds)
    /\ SF_vars(Answer)
    /\ WF_vars(Launch)
    /\ WF_vars(Exit /\ up = "stopping")

-----------------------------------------------------------------------------
(***************************************************************************)
(* Properties.                                                             *)
(***************************************************************************)

Writes ==
    [op : {"upsert"}, schedule : Schedules, job : JobIds, rec : JobRecord] \cup
    [op : {"patch"}, schedule : Schedules, job : JobIds, next : Nat]

\* Every variable has its type.
TypeOK ==
    /\ now \in 0..MaxTime
    /\ nextRun \in [Schedules -> Nat \cup {None}]
    /\ jobs \in [JobIds -> JobRecord \cup {NoJob}]
    /\ up \in {"down", "running", "stopping"}
    /\ timers \subseteq {"daemon", "worker"}
    /\ writes \in Seq(Writes)
    /\ loop \in {NoLoop} \cup [at : {"head"}, claims : 0..MaxClaims] \cup
                [at : {"await"}, claims : 1..MaxClaims, job : JobIds, rec : JobRecord,
                 since : 0..MaxTime]
    /\ faults \in 0..MaxFaults
    /\ torn \subseteq JobIds
    /\ begun \subseteq JobIds \X Nat

Periodic(j) == Period[j[1]] > 0

\* "without repeat-firing after reload" (tests/background-job-scheduler.test.ts:475):
\* a slot of a periodic schedule is dispatched once, however late its step runs,
\* unless the step was cut between the job and the schedule's patch.
FiresOnce ==
    \A i \in 1..Len(writes) : LET w == writes[i] IN
        w.op = "upsert" /\ Periodic(w.job) /\ jobs[w.job] # NoJob => w.job \in torn

\* An attempt of a job is executed at most once, through restarts, results that
\* could not be recorded and dispatches that meet the job running: an execution
\* that was interrupted is left to the operator.
AttemptBegunOnce ==
    [][ loop'.at = "await" /\ loop.at = "head" =>
          \/ <<loop'.job, loop'.rec.attempt>> \notin begun
          \/ loop'.job \in torn
          \/ ~Periodic(loop'.job) ]_vars

\* A due slot is dispatched and a queued job is taken up, although timers are
\* used up by steps in flight, steps throw and the desktop is quit and started.
DueWorkIsTakenUp ==
    /\ \A s \in Schedules : s \in Due ~> s \notin Due
    /\ \A j \in JobIds : jobs[j].status = "queued" ~> jobs[j].status # "queued"
=============================================================================
