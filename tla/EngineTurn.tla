----------------------------- MODULE EngineTurn -----------------------------
(***************************************************************************)
(* PhaseOneEngine.runTurn (packages/engine) over one session: the step     *)
(* loop that calls the model and the tools, the journal rows and the step  *)
(* checkpoints it writes on the way, and what `hotflow resume` and a       *)
(* resumed runTurn make of them after a crash at any point.                *)
(*                                                                         *)
(* One engine owns the session while a turn runs (SessionStore has the     *)
(* races of several processes).  Rows that neither recovery nor the tool   *)
(* replay reads (planned calls, branches, degradations, stream events,     *)
(* handoff summaries) are left out; each other row and each checkpoint is  *)
(* a transaction, hence a step, of its own.                                *)
(***************************************************************************)
EXTENDS Integers, Sequences, FiniteSets, FiniteSetsExt

CONSTANTS
    Turns,       \* turn ids
    NoTurn,
    Todos,       \* todo lists a tasks.todo_write call can install
    NoTodos,     \* the empty todo list of a new session
    Texts,       \* what the model can say
    MaxSteps,    \* the maxSteps of every turn
    MaxCalls,    \* bound: tool calls the model asks for in one step
    MaxRuns,     \* bound: runTurn calls
    MaxRows,     \* bound: rows, above what MaxRuns turns can write
    MaxExternal  \* bound: todo rows written by another process

ASSUME StepsAssumption == MaxSteps \in Nat \ {0} /\ MaxCalls \in Nat \ {0}
ASSUME TurnsAssumption == NoTurn \notin Turns /\ MaxRuns \in Nat

VARIABLES
    log,       \* the journal: a sequence of rows, a row's seq is its index
    saved,     \* the latest checkpoint
    observed,  \* session metadata runtime.latestTurn: the recorded resume hint
    engine,    \* the runTurn call in progress
    runs       \* how many runTurn calls were made

vars == <<log, saved, observed, engine, runs>>

NoText == "no text"
Stopped == "stopped"  \* renderTerminalBranchOutput
MaybeText == Texts \cup {NoText, Stopped}
MaybeTodos == Todos \cup {NoTodos}
MaybeTurn == Turns \cup {NoTurn}

StepEvents == {"step.context_built", "step.model_output", "step.tools_planned",
               "step.tool_result", "step.final_output"}
RowTypes == StepEvents \cup {"user.input", "tool.result", "tasks.todo_write",
                             "assistant.output"}

\* `step` is the stepIndex of a step row, 0 in other rows; `todos` and `text`
\* are the payload of the rows that have one.
Row == [type : RowTypes, turn : MaybeTurn, step : 0..MaxSteps,
        todos : MaybeTodos, text : MaybeText]

\* A general checkpoint has event "none".
Checkpoint == [upto : Nat, todos : MaybeTodos, text : MaybeText,
               turn : MaybeTurn, step : 0..MaxSteps, event : StepEvents \cup {"none"}]

Actions == {"no-progress", "continue-current-step", "start-next-step", "turn-complete"}
Hint == [turn : MaybeTurn, action : Actions, next : 0..MaxSteps]
NoHint == [turn |-> NoTurn, action |-> "no-progress", next |-> 0]

\* A tool call: write a todo list, or "effect", a call with another effect.
Calls == Todos \cup {"effect"}
\* classifyTurnBranch: "blocked" is denied, approval required or failed.
Outcomes == {"executed", "blocked"}

EngineRecord ==
    [pc : {"idle", "input", "context", "contextSave", "model", "tools", "toolRow",
           "todoRow", "record", "recordSave", "output", "general", "observe"},
     turn : MaybeTurn,
     hint : Hint,                \* the hint `hotflow resume` printed, NoHint otherwise
     action : Actions,           \* recoverStep's resumeAction
     first : 0..MaxSteps,        \* initialStepIndex
     step : 0..MaxSteps,
     board : MaybeTodos,         \* the TaskBoard
     text : MaybeText,           \* the output of the loop state
     results : Nat,              \* how many tool results the loop state carries
     plan : Seq(Calls),          \* tool calls still to run in this step
     outcome : Outcomes,         \* of the call just dispatched
     stop : BOOLEAN,             \* a call of this step was blocked
     events : Seq(StepEvents),   \* step events still to record
     last : BOOLEAN]             \* ~continueLoop

Idle == [pc |-> "idle", turn |-> NoTurn, hint |-> NoHint, action |-> "no-progress",
         first |-> 0, step |-> 0, board |-> NoTodos, text |-> NoText, results |-> 0,
         plan |-> << >>, outcome |-> "executed", stop |-> FALSE,
         events |-> << >>, last |-> FALSE]

NoCheckpoint == [upto |-> 0, todos |-> NoTodos, text |-> NoText,
                 turn |-> NoTurn, step |-> 0, event |-> "none"]

-----------------------------------------------------------------------------
(* Recovery: recoverSessionState, recoverStepState, recoverLatestStep.      *)

RowsAfter(upto) == {i \in DOMAIN log : i > upto}
OfType(S, types) == {i \in S : log[i].type \in types}
OfTurn(S, t) == {i \in S : log[i].turn = t}

\* persistTurnStateReducer folded over the rows after the checkpoint.
RecoveredTodos ==
    LET writes == OfType(RowsAfter(saved.upto), {"tasks.todo_write"})
    IN  IF writes = {} THEN saved.todos ELSE log[Max(writes)].todos

RecoveredText ==
    LET outputs == OfType(RowsAfter(saved.upto), {"assistant.output"})
    IN  IF outputs = {} THEN saved.text ELSE log[Max(outputs)].text

ResumeAction(event) ==
    CASE event \in {"step.context_built", "step.model_output", "step.tools_planned"} ->
            "continue-current-step"
      [] event = "step.tool_result" -> "start-next-step"
      [] event = "step.final_output" -> "turn-complete"
      [] OTHER -> "no-progress"

\* Mutants: a completed step is resumed again; a broken-off one is skipped.
NextStepRepeated(event, step) == step
NextStepSkipped(event, step) == IF event = "none" THEN 0 ELSE step + 1

NextStepIndex(event, step) ==
    CASE event = "none" -> 0
      [] event \in {"step.tool_result", "step.final_output"} -> step + 1
      [] OTHER -> step

HintAt(t, event, step) ==
    [turn |-> t, action |-> ResumeAction(event), next |-> NextStepIndex(event, step)]

\* The last step row after the checkpoint decides, else a step checkpoint of
\* this turn.
RecoverStep(t) ==
    LET rows == OfTurn(OfType(RowsAfter(saved.upto), StepEvents), t)
    IN  IF rows # {} THEN HintAt(t, log[Max(rows)].type, log[Max(rows)].step)
        ELSE IF saved.turn = t THEN HintAt(t, saved.event, saved.step)
        ELSE HintAt(t, "none", 0)

LatestTurnId ==
    LET rows == DOMAIN log \ OfTurn(DOMAIN log, NoTurn)
    IN  IF saved.event # "none" THEN saved.turn
        ELSE IF rows = {} THEN NoTurn ELSE log[Max(rows)].turn

\* recoverLatestStep also looks behind a general checkpoint.
RecoverLatestStep ==
    LET t == LatestTurnId
        rows == OfTurn(OfType(DOMAIN log, StepEvents), t)
    IN  IF t = NoTurn THEN NoHint
        ELSE IF /\ saved.event = "none"
                /\ OfType(RowsAfter(saved.upto), StepEvents) \cap rows = {}
                /\ rows # {}
             THEN HintAt(t, log[Max(rows)].type, log[Max(rows)].step)
             ELSE RecoverStep(t)

\* readRecoveredToolResults: of the rows recovery replays.
RecoveredToolResults(t) ==
    Cardinality(OfTurn(OfType(RowsAfter(saved.upto), {"tool.result"}), t))

-----------------------------------------------------------------------------
(* Rows and checkpoints.                                                    *)

NewRow(type) ==
    [type |-> type, turn |-> engine.turn,
     step |-> IF type \in StepEvents THEN engine.step ELSE 0,
     todos |-> IF type = "tasks.todo_write" THEN engine.board ELSE NoTodos,
     text |-> IF type \in {"assistant.output", "step.final_output"}
              THEN engine.text ELSE NoText]

\* Mutants: the checkpoint has the task board of the previous one; or the
\* output that the loop state had before this step.
StepCheckpointOldTodos(event) ==
    [upto |-> Len(log), todos |-> saved.todos, text |-> engine.text,
     turn |-> engine.turn, step |-> engine.step, event |-> event]
StepCheckpointOldText(event) ==
    [upto |-> Len(log), todos |-> engine.board, text |-> saved.text,
     turn |-> engine.turn, step |-> engine.step, event |-> event]

StepCheckpoint(event) ==
    [upto |-> Len(log), todos |-> engine.board, text |-> engine.text,
     turn |-> engine.turn, step |-> engine.step, event |-> event]

GeneralCheckpoint ==
    [upto |-> Len(log), todos |-> engine.board, text |-> engine.text,
     turn |-> NoTurn, step |-> 0, event |-> "none"]

\* Mutant: one step too many.
LoopHeadLate(step) == IF step <= MaxSteps THEN "context" ELSE "output"

\* The head of the step loop: another step, or max-steps.
LoopHead(step) == IF step < MaxSteps THEN "context" ELSE "output"

-----------------------------------------------------------------------------
Init ==
    /\ log = << >>
    /\ saved = NoCheckpoint
    /\ observed = NoHint
    /\ engine = Idle
    /\ runs = 0

\* runTurn up to the step loop.
RunTurn(t, hint) ==
    LET r == RecoverStep(t)
        resumed == r.action \in {"continue-current-step", "start-next-step"}
        first == IF resumed THEN r.next ELSE 0
    IN  engine' = IF r.action = "turn-complete" THEN Idle
                  ELSE [Idle EXCEPT
                          !.pc = IF resumed THEN LoopHead(first) ELSE "input",
                          !.turn = t,
                          !.hint = hint,
                          !.action = r.action,
                          !.first = first,
                          !.step = first,
                          !.board = RecoveredTodos,
                          !.text = RecoveredText,
                          !.results = IF resumed THEN RecoveredToolResults(t) ELSE 0]

\* `hotflow run` and the gateway: a new turn id.
Run(t) ==
    /\ engine.pc = "idle"
    /\ runs < MaxRuns
    /\ OfTurn(DOMAIN log, t) = {}
    /\ RunTurn(t, NoHint)
    /\ runs' = runs + 1
    /\ UNCHANGED <<log, saved, observed>>

\* `hotflow resume`: the latest turn, if it is resumable and its user input is
\* in the journal.
Resume ==
    LET hint == RecoverLatestStep
    IN  /\ engine.pc = "idle"
        /\ runs < MaxRuns
        /\ hint.action \in {"continue-current-step", "start-next-step"}
        /\ OfTurn(OfType(DOMAIN log, {"user.input"}), hint.turn) # {}
        /\ RunTurn(hint.turn, hint)
        /\ runs' = runs + 1
        /\ UNCHANGED <<log, saved, observed>>

AppendUserInput ==
    /\ engine.pc = "input"
    /\ log' = Append(log, NewRow("user.input"))
    /\ engine' = [engine EXCEPT !.pc = LoopHead(engine.step)]
    /\ UNCHANGED <<saved, observed, runs>>

\* onContextBuilt: the first event of a step is durable before the model call.
ContextBuilt ==
    /\ engine.pc = "context"
    /\ Len(log) < MaxRows
    /\ log' = Append(log, NewRow("step.context_built"))
    /\ engine' = [engine EXCEPT !.pc = "contextSave"]
    /\ UNCHANGED <<saved, observed, runs>>

ContextSave ==
    /\ engine.pc = "contextSave"
    /\ saved' = StepCheckpoint("step.context_built")
    /\ engine' = [engine EXCEPT !.pc = "model"]
    /\ UNCHANGED <<log, observed, runs>>

\* The model answers without tool calls: the step is final.
ModelFinal(text) ==
    /\ engine.pc = "model"
    /\ engine' = [engine EXCEPT
         !.pc = "record",
         !.text = text,
         !.events = <<"step.model_output", "step.final_output">>,
         !.last = TRUE]
    /\ UNCHANGED <<log, saved, observed, runs>>

ModelCallsTools(text, plan) ==
    /\ engine.pc = "model"
    /\ engine' = [engine EXCEPT !.pc = "tools", !.text = text, !.plan = plan]
    /\ UNCHANGED <<log, saved, observed, runs>>

\* The model call throws: the observation records where to resume and runTurn
\* rejects.
ModelFails ==
    /\ engine.pc = "model"
    /\ observed' = [turn |-> engine.turn, action |-> "continue-current-step",
                    next |-> engine.first]
    /\ engine' = Idle
    /\ UNCHANGED <<log, saved, runs>>

\* dispatcher.dispatch: an executed todo_write changes the task board.
Dispatch(outcome) ==
    /\ engine.pc = "tools"
    /\ engine' = [engine EXCEPT
         !.pc = "toolRow",
         !.outcome = outcome,
         !.board = IF outcome = "executed" /\ Head(engine.plan) \in Todos
                   THEN Head(engine.plan) ELSE engine.board,
         !.stop = engine.stop \/ outcome # "executed"]
    /\ UNCHANGED <<log, saved, observed, runs>>

\* After a call's rows: the next call, or the step's events.
AfterCall(e) ==
    IF Len(e.plan) > 1 THEN [e EXCEPT !.pc = "tools", !.plan = Tail(e.plan)]
    ELSE [e EXCEPT
            !.pc = "record",
            !.plan = << >>,
            !.text = IF e.stop THEN Stopped ELSE e.text,
            !.events = <<"step.model_output", "step.tools_planned", "step.tool_result">>
                       \o (IF e.stop THEN <<"step.final_output">> ELSE << >>),
            !.last = e.stop]

AppendToolResult ==
    /\ engine.pc = "toolRow"
    /\ log' = Append(log, NewRow("tool.result"))
    /\ LET e == [engine EXCEPT !.results = engine.results + 1]
       IN  engine' = IF engine.outcome = "executed" /\ Head(engine.plan) \in Todos
                     THEN [e EXCEPT !.pc = "todoRow"] ELSE AfterCall(e)
    /\ UNCHANGED <<saved, observed, runs>>

AppendTodoWrite ==
    /\ engine.pc = "todoRow"
    /\ log' = Append(log, NewRow("tasks.todo_write"))
    /\ engine' = AfterCall(engine)
    /\ UNCHANGED <<saved, observed, runs>>

\* onStepCompleted, recordStepRuntime: a row and a checkpoint per event.
RecordEvent ==
    /\ engine.pc = "record"
    /\ log' = Append(log, NewRow(Head(engine.events)))
    /\ engine' = [engine EXCEPT !.pc = "recordSave"]
    /\ UNCHANGED <<saved, observed, runs>>

\* Mutant: the loop forgets to count the step.
SameStep(e) == [e EXCEPT !.pc = LoopHead(e.step), !.stop = FALSE]

NextStep(e) == [e EXCEPT !.pc = LoopHead(e.step + 1), !.step = e.step + 1, !.stop = FALSE]

SaveEvent ==
    /\ engine.pc = "recordSave"
    /\ saved' = StepCheckpoint(Head(engine.events))
    /\ LET e == [engine EXCEPT !.events = Tail(engine.events)]
       IN  engine' = IF Len(engine.events) > 1 THEN [e EXCEPT !.pc = "record"]
                     ELSE IF e.last THEN [e EXCEPT !.pc = "output"]
                     ELSE NextStep(e)
    /\ UNCHANGED <<log, observed, runs>>

AppendOutput ==
    /\ engine.pc = "output"
    /\ log' = Append(log, NewRow("assistant.output"))
    /\ engine' = [engine EXCEPT !.pc = "general"]
    /\ UNCHANGED <<saved, observed, runs>>

GeneralSave ==
    /\ engine.pc = "general"
    /\ saved' = GeneralCheckpoint
    /\ engine' = [engine EXCEPT !.pc = "observe"]
    /\ UNCHANGED <<log, observed, runs>>

\* persistLatestTurnObservation with inferLatestTurnResumeHint: after max-steps
\* the last completed step ended with its tool results.
Observe ==
    /\ engine.pc = "observe"
    /\ observed' = IF ~engine.last /\ engine.step > engine.first
                   THEN [turn |-> engine.turn, action |-> "start-next-step",
                         next |-> engine.step]
                   ELSE [NoHint EXCEPT !.turn = engine.turn]
    /\ engine' = Idle
    /\ UNCHANGED <<log, saved, runs>>

\* The process dies and its memory is lost.
Crash ==
    /\ engine.pc # "idle"
    /\ engine' = Idle
    /\ UNCHANGED <<log, saved, observed, runs>>

\* Between turns the task plane applies an accepted todo proposal.
ExternalTodoWrite(todos) ==
    /\ engine.pc = "idle"
    /\ Cardinality(OfTurn(DOMAIN log, NoTurn)) < MaxExternal
    /\ log' = Append(log, [type |-> "tasks.todo_write", turn |-> NoTurn, step |-> 0,
                           todos |-> todos, text |-> NoText])
    /\ UNCHANGED <<saved, observed, engine, runs>>

Plans == UNION {[1..n -> Calls] : n \in 1..MaxCalls}

EngineStep ==
    \/ AppendUserInput
    \/ ContextBuilt
    \/ ContextSave
    \/ \E text \in Texts : ModelFinal(text)
    \/ \E text \in Texts, plan \in Plans : ModelCallsTools(text, plan)
    \/ ModelFails
    \/ \E outcome \in Outcomes : Dispatch(outcome)
    \/ AppendToolResult
    \/ AppendTodoWrite
    \/ RecordEvent
    \/ SaveEvent
    \/ AppendOutput
    \/ GeneralSave
    \/ Observe

Next ==
    \/ \E t \in Turns : Run(t)
    \/ Resume
    \/ EngineStep
    \/ Crash
    \/ \E todos \in Todos : ExternalTodoWrite(todos)

Spec == Init /\ [][Next]_vars

\* Nothing in runTurn waits for anybody but the model and the tools, which
\* answer or throw.
FairSpec == Spec /\ WF_vars(EngineStep)

-----------------------------------------------------------------------------
(* Properties.                                                              *)

TypeOK ==
    /\ log \in Seq(Row)
    /\ saved \in Checkpoint
    /\ observed \in Hint
    /\ engine \in EngineRecord
    /\ runs \in 0..MaxRuns

\* The todo list that recovery rebuilds from the latest checkpoint and the rows
\* after it is always the one last journaled, wherever the engine crashed:
\* checkpoints never cover a todo row with another list.
TodosDurable ==
    LET writes == OfType(DOMAIN log, {"tasks.todo_write"})
    IN  RecoveredTodos = IF writes = {} THEN NoTodos ELSE log[Max(writes)].todos

\* When recoverStep says turn-complete, runTurn returns the recovered output
\* without calling the model: it is the text of the turn's final_output event.
CompleteTurnKeepsOutput ==
    \A t \in Turns : RecoverStep(t).action = "turn-complete" =>
        RecoveredText = log[Max(OfTurn(OfType(DOMAIN log, {"step.final_output"}), t))].text

\* A resumed turn neither skips nor invents steps: the context of step n > 0 is
\* built only after the tool results of step n - 1 were recorded.
StepsContiguous ==
    \A i \in OfType(DOMAIN log, {"step.context_built"}) :
        log[i].step > 0 =>
            \E j \in OfTurn(OfType(1..(i - 1), {"step.tool_result"}), log[i].turn) :
                log[j].step = log[i].step - 1

\* Tools run again after a crash only if the step's tool_result event was not
\* yet durable, unless the turn had already given its answer.
ToolsNotRepeated ==
    [][(engine.pc = "tools" /\ engine'.pc = "toolRow") =>
          LET rows == OfTurn(DOMAIN log, engine.turn)
          IN  \/ \A i \in OfType(rows, {"step.tool_result"}) : log[i].step # engine.step
              \/ OfType(rows, {"assistant.output"}) # {}]_vars

\* A turn ends, however often the model asks for tools (the step budget).
TurnEnds == engine.pc # "idle" ~> engine.pc = "idle"

-----------------------------------------------------------------------------
(* A claim of the code base that runTurn does not keep.                     *)

\* "Start step N and reuse the recovered tool results instead of replaying
\* them": `hotflow resume` starts the turn where it says it does.
ResumeStartsAtHint ==
    engine.hint.turn # NoTurn => engine.first = engine.hint.next
=============================================================================
