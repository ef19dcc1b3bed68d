# Specifications of Director Angel OS

TLA+ models of the parts of this repository that keep durable state and must
survive concurrency and crashes: the session store, the engine's turn loop, the
task plane with its proposals and delegations, the worker jobs that drive
delegations, the execution runs of director workers, the background jobs of the
desktop, and the approved skills. TLC checks the models on small instances;
TLAPS proves every safety property of the passing runs, and both refinements, for
every size. File references are to the repository (`src/` here).

## 1. The system and its parts

The repository is a TypeScript monorepo: a command line (`apps/cli`), gateways,
a desktop and worker processes over some thirty packages. The state that matters
is in one SQLite file per workspace and in JSON files beside it, both opened by
whichever processes run. Each process is single-threaded, and every
`SessionStore` call is synchronous, so what interleaves are transactions, file
writes and renames of different processes, and what a crash cuts are sequences
of them.

| component | state | operations | how it interacts |
|---|---|---|---|
| `packages/sessions` | session row, journal rows, checkpoints | create, append, checkpoint, recover, rewind, metadata, archive, delete | everybody's persistence; synchronous calls |
| `packages/engine` | the turn in progress; on disk only rows and checkpoints | `runTurn`, resume | writes through `sessions`, calls model and tools (await), is started by cli and gateways |
| `packages/tasks-core`, proposals | todo list, proposal queue, outbox, all projected from the journal | write, enqueue, accept/reject/expire, apply, drain | journal rows through `sessions`; todos are read by the engine |
| `packages/tasks-core`, delegations | delegations, verifications, notifications, all projected | enqueue, claim, set status, request verification, reconcile, schedule | called by worker-jobs and the control plane |
| `apps/worker-jobs` | nothing durable | run-delegation, run-verification, scheduler-executor, scheduler-recovery, reconcile-skill-proposal | sequences of task plane commands and skill file writes |
| `director-execution`, `apps/director-worker` | `run.json`: the status of a run and its assignments | create, start, policy, claim, complete; pause, resume, abort, retry, reroute, approve | workers loop over the first group, the host API calls the second for an operator; load, compute, save by rename |
| `conversation-runtime`, background jobs | schedules and jobs in SQLite; timers, the scheduler step and the worker loop in memory | daemon step, dispatch, claim, result, retry | wired together by the desktop's main process, which is started and quit |
| `packages/skills`, approved snapshots | a head file and one history file per version | apply, revert, edit, delete, rollback | cli, host API, desktop and worker-jobs write the files and then move the proposal in the task plane |
| `packages/tools`, `policy-runtime` | approvals | dispatch, approve | called by the engine |
| `live-runner-core`, `conversation-runtime` (the rest) | leases, approval ledger | transitions | called by director-runtime |
| `models`, `plugin-runtime`, `channels-core`, `weixin-gateway` | retry state, request tables, delivery state | calls and callbacks | external services |

The remaining packages are contracts, pure projections, rendering, composition
or adapters; `PROJECT.json` lists each with the reason it is not modelled.

What is hard here, and what makes each part correct:

* **sessions.** The session row is read before the transaction that uses it;
  `recover` is two statements. Correct: seqs are dense, checkpoints are covered
  by rows and never tie, nothing outlives its session, recovery returns the last
  write or what was rewound to.
* **engine.** A step writes several rows and a checkpoint after each event, and
  may die anywhere. Correct: resume skips no step, runs no finished tool again,
  loses neither the todo list nor the answer; a turn ends.
* **proposals.** Every command works on a projection that may be stale and
  appends its entries one transaction at a time; replay throws on an entry that
  is not legal. Correct: the journal stays readable, unreviewed lists are never
  written, the outbox tells the truth.
* **delegations and jobs.** A worker may die and leave its delegation running.
  Correct: overlapping write sets never run together, nobody blocks everybody,
  what ended stays ended, what was delegated ends.
* **execution runs.** Every operation rewrites the whole document from one it
  loaded before; nothing detects that it went stale. Correct: work comes after
  what it depends on and after the operator's approval, the retry budget holds,
  a run that is over is settled - whatever is overwritten; an assignment has one
  executor and finished work stays finished - as long as nothing is.
* **background jobs.** A scheduler step is a sequence of writes that an error or
  the end of the process cuts; timers are used up by steps in flight. Correct: a
  slot fires once, an attempt is executed once, what is due is taken up.
* **skills.** Three files change in turn and then a proposal in the database,
  without a lock. Correct: a version names one snapshot, a refused apply leaves
  the head it found, what is called applied is approved.

`PROJECT.json` lists the 40 hazards behind these at their lines, with the
properties that watch them, and says of each uncovered one why.

## 2. Modules

| module | models | state ↔ code |
|---|---|---|
| `SessionStore` | `packages/sessions`: store, storage, journal, checkpoints, recovery, archive, lifecycle | `session`, `journal`, `checkpoints`, `lastId` are the three tables and the AUTOINCREMENT counter; `client[c]` is what process c holds between `requireActive` and its transaction, or between the two reads of `recover` |
| `SessionHistory` | `SessionStore` with a memory of what each process could know | `behind[c]`: another process wrote, rewound or deleted since c read; `lost`: a process saved while behind |
| `DurableSession` | what a session promises its owner: the last write or what was last gone back to; dated writes and returns, and saved values with ids, are never forgotten | abstract; `SessionStore` with one process implements it (`DurableSpec`): `writes` and `returns` are the journal's rows, `value` is what recovery returns |
| `EngineTurn` | `PhaseOneEngine.runTurn`, the step loop and strategy, `recoverStep`, `recoverLatestStep`, `hotflow run` and `resume` | `log` is the journal, `saved` the latest checkpoint, `observed` the metadata's `runtime.latestTurn`, `engine` the locals of the call with a program counter |
| `TaskProposals` | proposals, todos and outbox of `packages/tasks-core` | `status`, `todos`, `outbox` are the next projection of the journal, `readable` is FALSE once it throws; `queue[c]` holds the entries a command has still to append |
| `ReviewedLists` | what the proposal lane promises whoever reviews: decided once and forward, written after acceptance, applied after that | abstract; any number of processes of `TaskProposals` implement it (`ReviewedSpec`) |
| `TaskDelegations` | delegations, verifications, notifications, scheduler, claim, reconciliation, and the worker jobs | `delegation`, `order`, `verification`, `note` are the next projection; `proc[c]` is the job of a process and where it stands, `queue[c]` as above |
| `ExecutionRun` | `ExecutionRunService`, the loop of `director-worker`, the operator's requests | `run` is the document on disk; `call[p]` the document a process is about to save; `at[w]`, `work[w]` where a worker's loop is and what it executes |
| `BackgroundJobs` | the scheduler daemon and the job worker as `desktop-background-runtime.cjs` wires them | `nextRun`, `jobs` are the rows; `up`, `timers`, `writes` (what the step has still to write) and `loop` are the process |
| `SkillSnapshots` | the head and history files, apply and revert, the reconcile job, edits, rollback | `head`, `history[v]` are the files, `status` the proposals' status in the task plane, `call[c]` an operation with its next step and what it read |
| `MC*` | instances for TLC: symmetry sets and the write sets of one delegation graph, the graphs and policies of a run, the periods of schedules | |
| `Subsequences`, `SubsequencesProofs` | `Array.prototype.filter` of the mailboxes and the outbox | the entries at a set of positions, in order, without recursion; what such a sequence consists of |
| `SessionStoreProofs`, `EngineTurnProofs`, `TaskProposalsProofs`, `TaskDelegationsProofs`, `ExecutionRunProofs`, `BackgroundJobsProofs`, `SkillSnapshotsProofs` | theorems and proofs | |

Composition: `EngineTurn` contains the journal and checkpoint transactions it
needs as single steps, with the recovery rules of `sessions`; `SessionStore`
shows what such a transaction guarantees when several processes open the file.
`TaskProposals` and `TaskDelegations` stand on the appends of `SessionStore`
in the same way and are disjoint parts of one task plane: they share the journal
but no record and no replay rule. `SkillSnapshots` has of the task plane only its
answer to a transition. `ExecutionRun` and `BackgroundJobs` share no state with
the others. `PROJECT.json` `map` names the lines behind
every definition.

Actions are whole calls or whole transactions. A `SessionStore` call is
`Begin*` (the row read outside) and the transaction; `Refused` is its rollback.
A task plane command is its projection and board (one step, which queues
entries) and then `AppendEntry` per entry, as `mutateSessionTaskState` does it.
An operation on `run.json` is `Load` and `Save`; one on the skill files is a step
per read, write and removal; a scheduler step is a step per row written.

History variables (`behind`, `lost`, `overlapped`, `accepted`, `cut`, `torn`, `approved`,
`begun`, `shown`, `standing`) record what happened for the properties to refer to; no guard of an
operation reads them.
Operators called *mutant* in a comment are plausible mistakes, each beside the
definition it replaces; no specification uses them.

### Abstractions

* **SessionStore.** State is a register: a "write" row is an event the caller's
  reducer folds in, a "step" row one it ignores, and the state is the seq of the
  last write applied. Payloads, stream and audit rows (which are appended alike),
  artifacts and handoff text are left out. Whether a caller names an `uptoSeq` is
  open; the one it names is the last it saw.
* **EngineTurn.** One engine owns the session during a turn; other processes
  write todo rows between turns. Only rows that recovery or tool replay reads are
  kept: planned calls, branches, degradations, stream events, handoffs are not.
  Tool outcomes are `executed` or `blocked` (denied, approval required, failed).
  The model may say anything, ask for any plan of calls, or throw.
* **TaskProposals.** A proposal's list is named by the proposal; `Edited` is a
  list written by hand. Outbox ids carry proposal, status and a time stamp, as
  `buildStableOutboxEntryId` makes them. No client asks for the status `applied`:
  the control plane refuses it (`packages/control-plane/src/index.ts`,
  `proposal-transition`), and only skill proposals get it without `applyProposal`.
* **TaskDelegations.** One worker id; a write set is a constant of the
  delegation and every delegation takes part in scheduling (it has a parallel
  group or a write set); creation order is append order; one verification per
  delegation; which queued delegations scheduler-recovery finds drifted is open.
  An operator's unconditional `setDelegationStatus` is not modelled.
* **ExecutionRun.** Notes are kept as the two facts the code reads from them
  (retries since the last reroute, bridge failures of the route); a result is
  one of four outcomes; time is a choice: an assignment with a timeout may time
  out whenever it runs. The role a worker may be scoped to is left out: a worker
  finds nothing only when nothing is ready (no property depends on it), and may
  claim whatever is. The event log, reports and metrics are left out.
* **BackgroundJobs.** A clock of a few ticks; a timer fires some time after it
  was set, so only whether it is set is kept. Jobs are identified as the code
  builds their ids, from schedule and slot; schedules whose ids `sanitizeIdSegment`
  makes equal, so that their jobs would be the same, are not considered. The run has
  periodic schedules only: one-shots are in the module and in its theorem of
  types, and no run exercises them. Cron expressions are left out, and so is what nothing in production calls:
  pause, cancel, recovery after a restart.
* **SkillSnapshots.** A skill's content is the proposal it came from or `Edited`;
  an edit changes or deletes one skill. Time stamps and validation are left out.
  The task plane may refuse a transition for any reason. A rename is atomic; a
  process may die, or a file operation throw, between any two file operations.

## 3. Runs

`tlc -workers 2 -config X.cfg M`; states are distinct states.

| run (cfg) | module | bounds | shows |
|---|---|---|---|
| `MCSessionStore` | MCSessionStore | 2 processes, rows without turn ids, 2 rows, 3 checkpoints ever; 1.15M | `JournalDense`, `CheckpointsCovered` under every interleaving, delete and re-create included; `RecoveryFaithful` until a process saves what another has overtaken |
| `MCSessionDurable` | MCSessionStore | 1 process, every call, 1 turn, 3 rows, 4 checkpoints ever; 0.85M | refinement of `DurableSession` (a lost write, or a rewind to anything but its target, is no step of it); `RewindLands` |
| `MCEngineTurn` | MCEngineTurn | 2 turns, 2 steps, 1 call per step, 3 runs, 1 external todo write; 4.0M | `StepsContiguous`, `ToolsNotRepeated`, `CompleteTurnKeepsOutput`, `TodosDurable` |
| `MCEngineEnds` | MCEngineTurn | 1 turn, 2 steps, fairness; 1,862 | `TurnEnds` |
| `MCEngineResumeStartsAtHint` | MCEngineTurn | 1 turn, 2 steps | *violated*: `ResumeStartsAtHint` |
| `MCProposals` | MCTaskProposals | 3 processes, 1 proposal, deaths anywhere; 0.14M | refinement of `ReviewedLists`, `UnreviewedNeverWritten`, `OutboxCurrent` under every interleaving; `JournalReadable`, `DeliveredOnce` until two commands overlap |
| `MCDelegations` | MCTaskDelegations | 1 process at a time, 3 delegations, write sets {a} {a,b} {b}, 2 deaths; 0.24M | `RunningDisjoint`, `SomethingReady`, `VerifiedCompleted`, `MailboxesCovered`, `EndedStaysEnded`, and with fairness `EveryDelegationEnds` |
| `MCDelegationsIntents` | MCTaskDelegations | the same, no death | *violated*: `IntentsClaimable` |
| `MCExecutionRun` | MCExecutionRun | 2 workers of which one may die, 1 operator with 2 requests, 2 assignments in a chain, one gated, one timed, 2 policies; 2.7M | `DependenciesFirst`, `OverMeansSettled`, `OperatorGate`, `RouteFailsAtMostTwice` whatever is overwritten; `ExecutorOwnsAssignment`, `FinishedStands` until something is |
| `MCExecutionSkipped` | MCExecutionRun | 1 worker, a chain of 3, one role disabled | *violated*: `DependentsOfSkippedBlock` |
| `MCBackgroundJobs` | MCBackgroundJobs | 2 schedules (every tick, every second tick), one dispatch and one claim per step, clock 0..1, 3 quits or errors; 47K | `FiresOnce`, `AttemptBegunOnce`, and with fairness `DueWorkIsTakenUp` |
| `MCSkillSnapshots` | MCSkillSnapshots | 2 processes, 2 skills, 3 proposals, 4 versions, `CONSTRAINT WhileSound`; 0.44M | `HistoryFaithful`, `FailedApplyRestores`, `AppliedStands` |

**Why the bounds are enough.** Two rows and three checkpoint ids let a rewind
go back over a checkpoint, a delete fall between a read and a write, and a
remembered seq outlive the session it is from, and a write, a checkpoint or a
rewind fall between the two reads of a recover; three rows and four checkpoints
let one process write after a rewind. Two steps let a turn resume in either step and
before, between and after them; three runs allow a resume of a resume, or a turn
interrupted by another. `MaxRows` is above what the runs can write and never
bites. The chain of write sets is the smallest graph in which the greedy batches
are not all equal and a middle delegation blocks two that do not block each other.
Two workers, an operator and two requests let a save overwrite an approval, a
claim or a retry, in either direction; the second request can retry what the
first let fail. With one dispatch per step two schedules compete for it, and
three faults let a step be cut, its job run, and the process end again. Three
proposals of two skills let an operation replace the content of another, and
four versions let an apply fail, its version be given out again, and a rollback
go back behind it. `WhileSound` cuts the state space behind the first overlap or
the first death inside `recoverHead`: both history variables stay true for good,
and every property but the types is conditional on them; the types are proved
for what lies behind.

**One process or several.** The repository's `README.md:281` asks to use the
shared SQLite file sequentially. `MCSessionStore`, `MCProposals` and
`MCExecutionRun` drop that: properties hold although several processes
interleave, or, where two commands can really break them (accept beside reject
makes the journal unreadable; a stale save takes finished work back), for as
long as none did. What an overlap is differs: a command of the task plane begun
while another has entries to append, a save over a document that its call had
not read, an operation on the skill files begun while another is in progress, a
checkpoint of a state that another process has written over, rewound or deleted
since it was read (`lost`; the todo list that `engine.ts:428` loses is one).
`RecoveryFaithful` says what the two reads of `recover` still promise: appends and
checkpoints of others between them do no harm; after a rewind or a delete there
the process is behind, and nothing tells it so.
`MCSessionDurable` and the delegation runs keep to one process at a time, because
a stale write may land in an archived session and startup reconciliation presumes
that whoever runs has died; the theorems about them state that one process as a hypothesis
(`DurableForOne`, and four in `TaskDelegationsProofs`); `RewindTakesEffect` and
`Faithful` need none. Deaths are not sequential use, and are everywhere.

**Deadlock** is checked in the session and delegation runs. The other systems
may really stop: the engine after `MaxRuns` turns, the proposals when the journal
is unreadable or everything is decided, an execution run when it is over, the
desktop at the end of the clock, the skills at `MaxVersion`.

**Fairness.** `EngineTurn`: weak fairness of the engine's own steps: nothing in
`runTurn` waits for anything but the model and the tools, which answer or throw.
`TaskDelegations`: weak fairness of a job that has started (a job is one program
that waits for nobody) and strong fairness of starting the executor, which is
how the scheduler jobs are meant to be run: again and again, between whatever
else is started. Deaths are bounded in that run, as no delegation need ever end
if every worker dies. `BackgroundJobs`: weak fairness of the thread that is in
a step or a loop, of starting the desktop again and of ending it once it stops;
strong fairness of the two timers, which the event loop fires whenever they are
due, though the clock and quits keep taking them away, and of the executor's
answer. Faults are bounded.

### Disagreements found

Three runs are violated on purpose; `PROJECT.json` `findings` quotes both sides.

1. `ResumeStartsAtHint`: after a general checkpoint (max-steps) `hotflow resume`
   announces step n and the engine starts at 0 (`apps/cli/src/shell.ts:1445`).
2. `IntentsClaimable`: the executor's later intents can be refused because every
   claim computes the batches anew (`packages/tasks-core/src/subagent-runtime.ts:489`).
3. `DependentsOfSkippedBlock`: blocking looks at failed, aborted and skipped
   dependencies only, so what waits for a blocked assignment is pending for good
   and the run never ends (`packages/director-execution/src/service.ts:918`).

Known from the modelling, and not worth a run of their own:

* The active check of a session is outside the writing transaction
  (`packages/sessions/src/store.ts:109`): with two processes a row can land in an
  archived session, and a rewind can leave the observation of a turn it undid
  (`store.ts:392`).
* A turn resumed after its tool results has none of them, since the checkpoint
  of `step.tool_result` lies behind the rows (`packages/engine/src/engine.ts:153`),
  and the hint after a model failure names the step the turn began with
  (`engine.ts:363`).
* A background job that runs when the desktop ends stays running: nothing in
  production calls the recovery that
  `packages/conversation-runtime/tests/background-job-runtime.test.ts:163` tests. A
  scheduler step cut between a job and its schedule's patch dispatches the slot
  again. A one-shot schedule stays due after it fired and starves the others.
* A death inside `recoverHead` (`packages/skills/src/file-store.ts:187`) leaves the
  file of a failed version, which is then kept as that of the next one. The
  reconcile job does not take its files back when the task plane refuses
  (`apps/worker-jobs/src/reconcile-skill-proposal.ts:67`), so the content of an
  expired proposal stays approved.

## 4. Proofs

`tlapm M.tla`. Every leaf is checked by SMT, Zenon or LS4.

**`SessionStoreProofs`**, for all `Clients`, `Turns`, `Calls`, `MaxSeq` and
`MaxId` (assumed: the bounds are naturals, `NoTurn` is not a turn). The inductive
invariant `IInv` is the conjunction of types, `JournalDense`, `CheckpointsCovered`,
`NoOrphanRows` (nothing outlives its session, whatever row a process holds) and
`LatestCheckpointUnique` (no two checkpoints share a prefix or an id);
none is inductive alone. Types need uniqueness, because the state recovery
returns is that of a `CHOOSE`n latest checkpoint, which is typed only when the
choice exists; density needs `NoOrphanRows`, because `Create` starts from
whatever rows there are; uniqueness needs the ids to stay below the counter.
Lemmas: a bounded set has a maximum (by well-founded minimality), what
`LatestSeq`, `LatestCheckpoint`, `RecoveryBase` and `Replay` return, what one
more row or checkpoint preserves; then one step per action. `RewindTakesEffect`
is an action property of every number of processes: the checkpoint of a rewind is
at the row just appended, which by density is behind every other checkpoint and
row, so it is the base and leaves nothing to replay. `DurableForOne` is the
refinement of `DurableSession` under the hypothesis that `Clients` has one
element. Its additional invariant `Alone` says that what the process has read (row,
base) is still so, and that what it holds in memory is what recovery would return,
up to the last row; two processes break it between the two reads of `recover`.
Each action is then shown to be a step of `DurableSession` or a stutter: a row's
seq is later than every moment before it, and an id is never used twice.
`Faithful` compares recovery, which starts from the latest checkpoint, with the
rows that change the state (`Intended`), which no checkpoint decides. Its invariant
`HInv` adds to `RecoveryFaithful` that between the two reads of `recover` the base
already read still replays to the intended state, that what a process may save
covers every event, and that a rewind's target is still saved; it is proved for
the history (`SpecH`), which `HistoryRemembers` shows to be the store's. Theorems:
`Invariance`, `TypeCorrect`, `Dense`, `Covered`, `NoOrphans`, `RewindTakesEffect`,
`DurableForOne`, `Faithful`.

**`EngineTurnProofs`**, for all turns, todo lists, texts and limits of steps,
calls and runs (assumed: the first two limits are positive, `NoTurn` is not a
turn). `IInv` relates what is durable to how far the engine's loop has got:
`Progress` (loop, checkpoint, observation and rows agree), `ListsKept` (the board
is ahead of the journal only between an executed `todo_write` and its row, where
no checkpoint is written), `StepsDone` (what a step says it completed follows a
recorded result), `AnswersKept` (a final row ends its turn, and its text is
recoverable until a later checkpoint), `ToolsOnce` (results are recorded ahead of
the engine's step only in a turn that has given its answer and is run again).
None is inductive without the others: where a resumed engine starts is computed
from rows and checkpoint together. Lemmas: the maximum of the rows, what
`RecoverStep` and `RecoverLatestStep` return, the effect of a call and of a saved
event; every step is one of a few kinds, and each conjunct has a lemma over the
kinds. Theorems: `Invariance`, `TypeCorrect`, `TodosRecovered`,
`AnswersRecovered`, `StepsInOrder`, `ToolsRunOnce`.

**`TaskProposalsProofs`**, for all `Procs`, `Proposals` and `Stamps` (assumed:
`NoTodos` and `Edited` are no proposal). The safety properties are about what is
durable, but are kept by what processes have still to append from boards gone
stale. `IInv` says so: a queue is empty, or one last entry, or the two entries of
an apply of a proposal that was accepted. Since no decision takes an accepted
proposal back (`DecisionsForward`), the promise survives whatever others append.
Theorems: `Invariance`, `OnlyReviewedWritten`, `AppliedMeansWritten`;
`ImplementsReview`, the refinement of `ReviewedLists` by any number of processes
(only an append changes what the journal says, an entry that does not replay
changes nothing, and the head of a queue is what the invariant promises); and
`AloneReadable`: as long as no command begins while another has entries left, the
board it works on is never stale, so each queued entry is replayable when its
turn comes, whichever process dies before it. `TypeCorrect` and `OutboxTells`
hold for any number of processes, overlapping or not. The second rests on
`OutboxInv`: of each proposal the announcements stand in the order of its
transitions, and behind every one there is one with the present status; a drain
that a process has still to append takes only announcements that are no newer
than those it leaves.
`DeliveredAtMostOnce` adds `DeliverInv` to what `AloneReadable` rests on: what was
handed out is in no outbox and in nobody's hands, and is announced for good, so
that its id never comes up again.

**`TaskDelegationsProofs`**, for all delegations, write sets and bounds. For any
number of processes: `TypeCorrect`, and `NeverAllBlocked`, since the oldest queued
delegation overlaps nobody ahead of it when nothing runs. The scheduler's loop is
characterised by what it yields: a set of positions of which each is in exactly
when it overlaps none of those before it (`Greedy`); that there is such a set is
`GreedyExists`, by minimality instead of by recursion. With the hypothesis
`Procs = {c}`, which is jobs one after another and any number of deaths:
`NeverOverlapping`, `OnlyCompletedVerified`, `EndsAreFinal` and `MailboxesTell`.
Every action is first shown to be one of eight kinds of move, an append or a
death (`StepKinds`). `JobInv` is about the entries still queued: each is one that the
lane allows when its turn comes, so that none overrules an end, and none starts
what overlaps a running delegation; a claim satisfies it because two members of
the first batch never overlap (`ClaimableDisjoint`). `MailInv` says that the
mailboxes tell the truth about the lane as it will be once the queue is in, which
is what `MailboxesCovered` says between jobs, where the queue is empty. With two
processes at once TLC refutes the last four, even without deaths: both claim from
boards that lack what the other has still to append.

**`ExecutionRunProofs`**, for every graph, crew of workers and operators, set of
policies and bounds. The invariant is about one document: its statuses agree with
their dependencies, gates, results and notes (`DocInv`). Every operation maps
such a document to another, and `IInv` says it of the one on disk and of the one
that every call in flight is about to save; an overwrite therefore replaces one
consistent document by another. Approvals are recorded when the request is
loaded, so that the approval set only grows and documents stay consistent with
it. Theorems: `Invariance`, `TypeCorrect`, `DependenciesComeFirst`,
`OverIsSettled`, `GateHolds`, `RetryBudgetHolds`.

Its second part is about what an overwrite can undo. `OwnInv`
relates the document of a call in flight to the one on disk: unless the call is
stale, the first is one operation ahead (`Moves`), which takes no completed work
back, starts from no finished run, and ends the running assignments it reports
or times out, or all of them by an abort. A save makes every other call in
flight stale, so
only a stale save can undo something, and that is what `overlapped` records. A
claim that is not stale still finds its assignment ready, so nobody executes it.
One lemma for each operation on documents shows `Moves`, one for each kind of
step the invariant. Theorems: `OwnershipInvariance`, `OwnerHolds`, `FinishedHolds`.

**`BackgroundJobsProofs`**, for every finite set of schedules, their periods,
anchors and first runs, and all limits and bounds. A dispatch is two writes of one
step, a job and later its schedule's patch; `IInv` says how far a step got
(`WritesOrdered`: all jobs, then all patches, one of each for a schedule, from
what the schedules said when the step began), that a periodic schedule has passed
the slots that have jobs or is about to (`SlotsPassed`), that begun attempts are
behind the one the row names (`AttemptsBehind`) and that the executor works on
what the row says (`LoopHolds`). A step that is cut moves the jobs it had still to
patch into `torn`. Lemmas: the next slot is later than the time it is computed at;
the store's order gives each selected schedule one place (an injection between
finite sets of one size is onto). Theorems: `Invariance`, `TypeCorrect`,
`SlotsFireOnce`, `AttemptsBeginOnce`.

**`SkillSnapshotsProofs`**, for all processes, skills, proposals and versions.
`IInv` is the types, always, and `Orderly` while operations did not overlap and
nobody died inside `recoverHead`. `Orderly` ties the one operation in progress to
the files: until it writes, its base is the head; from its write on, the head is
its document and the base has its history file; no version above the head has a
file, but the one `recoverHead` is about to drop. That is what makes restoring by
version number restore the head that was replaced. Standing proposals stand in
the head, or in the base while the operation can still be taken back. Theorems:
`Invariance`, `TypeCorrect`, `HistoryHolds`, `FailedApplyHolds`, `AppliedHolds`.

**Only model-checked:** the liveness of `EngineTurn`, `TaskDelegations` and
`BackgroundJobs` (`TurnEnds`, `EveryDelegationEnds`, `DueWorkIsTakenUp`). Liveness
under fairness and `ENABLED` are out of the prover's reach here. So are recursive
definitions and the library's theorems with an operator parameter, which is why
the proved modules state filters as `Subsequences` and the batches as `Greedy`.
The three disagreements of section 3 are counterexamples of TLC.

## 5. Plan

Order of work, the most important behaviour first; 1 to 8 are done.

1. `SessionStore`, `SessionHistory`, `DurableSession`, `SessionStoreProofs`:
   everything else stands on them.
2. `EngineTurn`, `EngineTurnProofs`: crash and resume.
3. `TaskProposals`, `ReviewedLists`, `TaskProposalsProofs`.
4. `TaskDelegations` with the worker jobs, `TaskDelegationsProofs`.
5. Runs for the claims of docs and tests that turned out violated.
6. `ExecutionRun`, `ExecutionRunProofs`: workers and operators on one document.
7. `BackgroundJobs`, `BackgroundJobsProofs`: the desktop's scheduler and worker.
8. `SkillSnapshots`, `SkillSnapshotsProofs`: apply, revert, rollback, reconcile.
9. `ToolDispatch`: the dispatcher with policy and approvals (`packages/tools`,
   `policy-runtime`); it replaces the two outcomes of `EngineTurn`.
10. `EngineTurn` with a concurrent todo writer, and the turn stream recorder.
11. The approval ledger of `conversation-runtime`; `live-runner-core` leases.
12. Control plane commands on delegations; changing write sets; two workers.
13. `models` retry and fallback; MCP client requests; weixin delivery store.

Theorems to prove next: every safety property of the passing runs is proved. What
is left comes with the models above, first the todo writer of 10 (under which
`TodosDurable` has to be restated) and two workers that claim at once in 12 (what
remains of `RunningDisjoint` while claims do not overlap).

## 6. Not modelled

Text (prompts, reports, wording, notices), schemas and validation of payloads,
tool result artifacts beside the database, the stores beside the skill snapshots
(management, usage, taxonomy), imports that change several skills at once, the
memory service, user interfaces and network protocols. SQLite itself is taken as
it documents itself: transactions are atomic and durable, `BEGIN IMMEDIATE`
excludes other writers, constraints are enforced; a rename of a file is atomic.
