-------------------------- MODULE EngineTurnProofs --------------------------
(***************************************************************************)
(* A turn that is resumed after a crash at any point goes on where the     *)
(* journal ends: for every number of turns, steps, calls and crashes, with *)
(* todo lists that the task plane writes between turns.                    *)
(***************************************************************************)
EXTENDS EngineTurn, FiniteSetTheorems, SequenceTheorems, WellFoundedInduction, TLAPS

\* A step row or checkpoint of event `type`.
IsEvent(r, type, t, step) == r.type = type /\ r.turn = t /\ r.step = step

\* Where the loop has a step to do.
InStep == {"input", "context", "contextSave", "model", "tools", "toolRow", "todoRow",
           "record", "recordSave"}

\* The events of a step that remain to be recorded end as the step ends.
EventsEnd(e) ==
    LET n == Len(e.events)
    IN  /\ n > 0
        /\ e.events[n] = IF e.last THEN "step.final_output" ELSE "step.tool_result"
        /\ \A i \in 1..(n - 1) :
             /\ e.events[i] # "step.final_output"
             /\ e.events[i] = "step.tool_result" => i = n - 1 /\ e.last

\* What the loop still has to do, and that the checkpoint and the rows agree on
\* what it did.
Progress ==
    /\ engine.pc # "idle" => engine.turn # NoTurn
    /\ engine.pc \in InStep => engine.step < MaxSteps
    /\ engine.pc \in {"tools", "toolRow", "todoRow"} => engine.plan # << >>
    /\ engine.pc \in {"record", "recordSave"} => EventsEnd(engine)
    /\ saved.upto =< Len(log)
    /\ saved.event # "none" =>
        /\ saved.upto > 0
        /\ IsEvent(log[saved.upto], saved.event, saved.turn, saved.step)
        /\ saved.turn # NoTurn
    /\ \A i \in 1..Len(log) : log[i].type \in StepEvents => log[i].step < MaxSteps
    /\ engine.pc = "contextSave" =>
        Len(log) > 0 /\ IsEvent(log[Len(log)], "step.context_built", engine.turn, engine.step)
    /\ engine.pc = "recordSave" =>
        /\ Len(log) > 0
        /\ IsEvent(log[Len(log)], Head(engine.events), engine.turn, engine.step)

\* The last todo list in the first k rows of l is v.
LastList(l, k, v) ==
    \/ v = NoTodos /\ \A i \in 1..k : l[i].type # "tasks.todo_write"
    \/ \E i \in 1..k :
         /\ l[i].type = "tasks.todo_write"
         /\ l[i].todos = v
         /\ \A j \in (i + 1)..k : l[j].type # "tasks.todo_write"

\* The task board is ahead of the journal only between an executed todo_write
\* and its row, where no checkpoint is written.
ListsKept ==
    /\ LastList(log, saved.upto, saved.todos)
    /\ \/ engine.pc \in {"idle", "todoRow"}
       \/ engine.pc = "toolRow" /\ engine.outcome = "executed" /\ Head(engine.plan) \in Todos
       \/ LastList(log, Len(log), engine.board)

\* Of the first k rows of l one has the tool results of the step before.
StepBefore(l, k, t, step) ==
    step > 0 => \E j \in 1..k : IsEvent(l[j], "step.tool_result", t, step - 1)

\* Every step of a turn, and the one the engine is at, follows a recorded step.
StepsDone ==
    /\ \A i \in 1..Len(log) : log[i].type \in StepEvents =>
        StepBefore(log, i - 1, log[i].turn, log[i].step)
    /\ engine.pc # "idle" => StepBefore(log, Len(log), engine.turn, engine.step)

FinalRow(l, i) == l[i].type = "step.final_output"
OutputRow(l, i) == l[i].type = "assistant.output"
StepRow(l, i) == l[i].type \in StepEvents

\* A final answer ends its turn; until a later checkpoint replaces it, recovery
\* reads its text.
AnswersKept ==
    /\ \A i, j \in 1..Len(log) : FinalRow(log, i) /\ StepRow(log, j) /\ i < j =>
        log[i].turn # log[j].turn
    /\ \/ engine.pc \in {"idle", "output", "general", "observe"}
       \/ engine.pc = "recordSave" /\ Head(engine.events) = "step.final_output"
       \/ \A i \in 1..Len(log) : FinalRow(log, i) => log[i].turn # engine.turn
    /\ \A i \in (saved.upto + 1)..Len(log) : FinalRow(log, i) =>
        /\ saved.event # "none" /\ saved.turn = log[i].turn /\ saved.text = log[i].text
        /\ \A j \in (saved.upto + 1)..Len(log) : ~OutputRow(log, j)
    /\ engine.pc = "record" /\ Head(engine.events) = "step.final_output" =>
        /\ saved.event # "none" /\ saved.upto = Len(log)
        /\ saved.turn = engine.turn /\ saved.text = engine.text
    /\ engine.pc = "recordSave" /\ Head(engine.events) = "step.final_output" =>
        log[Len(log)].text = engine.text
    /\ saved.event = "step.final_output" =>
        /\ log[saved.upto].text = saved.text
        /\ \A i \in (saved.upto + 1)..Len(log) : OutputRow(log, i) => log[i].text = saved.text
    /\ engine.pc = "output" =>
        /\ \A i \in (saved.upto + 1)..Len(log) : ~FinalRow(log, i)
        /\ saved.event = "step.final_output" => engine.text = saved.text

\* The turn has given its answer.
Given(l, t) == \E i \in 1..Len(l) : OutputRow(l, i) /\ l[i].turn = t
Results(l, i, t) == l[i].type = "step.tool_result" /\ l[i].turn = t

\* Where the tool results of the engine's step may be recorded already.
AfterResults ==
    \/ engine.pc \in {"idle", "output", "general", "observe"}
    \/ engine.pc = "record" /\ Head(engine.events) = "step.final_output"
    \/ engine.pc = "recordSave" /\ Head(engine.events) \in {"step.tool_result", "step.final_output"}

\* Tool results are recorded behind the step they belong to only in a turn that
\* has given its answer and runs again.
ToolsOnce ==
    /\ engine.pc = "general" =>
        Len(log) > 0 /\ OutputRow(log, Len(log)) /\ log[Len(log)].turn = engine.turn
    /\ \A i \in 1..Len(log) : StepRow(log, i) =>
        \/ Given(log, log[i].turn)
        \/ \A j \in 1..(i - 1) : Results(log, j, log[i].turn) =>
            /\ log[j].step =< log[i].step
            /\ log[i].type \notin {"step.tool_result", "step.final_output"} =>
                 log[j].step < log[i].step
    /\ engine.pc # "idle" =>
        \/ Given(log, engine.turn)
        \/ \A j \in 1..Len(log) : Results(log, j, engine.turn) =>
            /\ log[j].step =< engine.step
            /\ ~AfterResults => log[j].step < engine.step
    /\ saved.event = "none" =>
        /\ saved.upto > 0 => OutputRow(log, saved.upto) /\ log[saved.upto].turn # NoTurn
        /\ \A i \in 1..saved.upto, j \in (saved.upto + 1)..Len(log) :
             log[i].turn = log[j].turn /\ log[i].turn # NoTurn => Given(log, log[i].turn)
        /\ engine.pc # "idle" =>
             \/ Given(log, engine.turn)
             \/ \A i \in 1..saved.upto : log[i].turn # engine.turn

\* The inductive invariant.
IInv == TypeOK /\ Progress /\ ListsKept /\ StepsDone /\ AnswersKept /\ ToolsOnce

-----------------------------------------------------------------------------
(* What recovery reads.                                                     *)

\* Max of a set of rows is one of them, and the last.
LEMMA MaxIn ==
  ASSUME NEW N \in Nat, NEW S, S \subseteq 1..N, S # {}
  PROVE Max(S) \in S /\ \A x \in S : x =< Max(S)
<1> DEFINE T == {N - s : s \in S}
<1>0. \A x \in S : x \in Int /\ 1 =< x /\ x =< N  OBVIOUS
<1>1. T \subseteq Nat /\ T # {}
  <2>1. \A x \in S : N - x \in Nat  BY <1>0
  <2>2. PICK x \in S : TRUE  OBVIOUS
  <2>3. N - x \in T  OBVIOUS
  <2> QED BY <2>1, <2>3
<1>2. PICK m \in T : \A y \in T : <<y, m>> \notin OpToRel(<, Nat)
  BY <1>1, NatLessThanWellFounded, WFMin
<1>3. \A y \in T : ~(y < m)  BY <1>1, <1>2 DEF OpToRel
<1>4. PICK s \in S : m = N - s  OBVIOUS
<1>5. \A x \in S : x =< s
  <2> SUFFICES ASSUME NEW x \in S PROVE x =< s  OBVIOUS
  <2>1. ~(N - x < N - s)  BY <1>3, <1>4
  <2> QED BY <2>1, <1>0
<1>6. \E x \in S : \A y \in S : x >= y  BY <1>0, <1>5
<1> QED BY <1>0, <1>6 DEF Max

\* A row is appended: the others stay.
LEMMA Appended ==
  ASSUME log \in Seq(Row), NEW r \in Row, log' = Append(log, r)
  PROVE /\ log' \in Seq(Row)
        /\ Len(log) \in Nat /\ Len(log') = Len(log) + 1
        /\ \A i \in 1..Len(log) : log'[i] = log[i]
        /\ log'[Len(log')] = r
BY AppendProperties

\* A sequence has a head if it has a length.
LEMMA NonEmpty ==
  ASSUME NEW S, NEW s \in Seq(S)
  PROVE s # << >> <=> Len(s) > 0
BY EmptySeq, LenProperties

\* The journal is a sequence of rows.
LEMMA RowsTyped ==
  ASSUME TypeOK
  PROVE /\ Len(log) \in Nat /\ DOMAIN log = 1..Len(log)
        /\ \A i \in 1..Len(log) : log[i] \in Row
BY LenProperties, ElementOfSeq DEF TypeOK

\* An engine at rest, and the hint of a fresh run, have their types.
LEMMA IdleTyped == Idle \in EngineRecord /\ NoHint \in Hint
<1>1. NoHint \in Hint  BY StepsAssumption DEF NoHint, Hint, MaybeTurn, Actions
<1>2. << >> \in Seq(Calls) /\ << >> \in Seq(StepEvents)  OBVIOUS
<1>3. 0 \in 0..MaxSteps  BY StepsAssumption
<1> QED BY <1>1, <1>2, <1>3
  DEF Idle, EngineRecord, MaybeTurn, Actions, MaybeTodos, MaybeText, Outcomes

\* What the engine appends is a row.
LEMMA NewRowTyped ==
  ASSUME TypeOK, NEW type \in RowTypes
  PROVE NewRow(type) \in Row
BY StepsAssumption DEF TypeOK, NewRow, Row, RowTypes, StepEvents, EngineRecord, MaybeTodos, MaybeText

\* The last step row after the checkpoint, or the checkpoint's own, is what
\* recoverStepState answers from.
LEMMA RecoverStepFrom ==
  ASSUME TypeOK, Progress, NEW t \in MaybeTurn
  PROVE \/ \E i \in 1..Len(log) :
             /\ StepRow(log, i) /\ log[i].turn = t
             /\ i > saved.upto \/ (i = saved.upto /\ saved.turn = t /\ saved.event = log[i].type)
             /\ \A j \in 1..Len(log) : StepRow(log, j) /\ log[j].turn = t /\ j > saved.upto => j =< i
             /\ RecoverStep(t) = HintAt(t, log[i].type, log[i].step)
        \/ /\ \A j \in 1..Len(log) : StepRow(log, j) /\ log[j].turn = t => j =< saved.upto
           /\ saved.event = "none" \/ saved.turn # t
           /\ RecoverStep(t) = HintAt(t, "none", 0) \/ RecoverStep(t) = HintAt(t, "none", saved.step)
<1> DEFINE rows == OfTurn(OfType(RowsAfter(saved.upto), StepEvents), t)
<1>1. rows = {i \in 1..Len(log) : i > saved.upto /\ StepRow(log, i) /\ log[i].turn = t}
  BY RowsTyped DEF OfTurn, OfType, RowsAfter, StepRow
<1>2. CASE rows # {}
  <2>1. Max(rows) \in rows /\ \A x \in rows : x =< Max(rows)
    BY <1>1, <1>2, MaxIn, RowsTyped
  <2>2. RecoverStep(t) = HintAt(t, log[Max(rows)].type, log[Max(rows)].step)
    BY <1>2 DEF RecoverStep
  <2>3. Max(rows) \in 1..Len(log) /\ Max(rows) > saved.upto /\ StepRow(log, Max(rows))
        /\ log[Max(rows)].turn = t
    BY <2>1, <1>1
  <2>4. \A j \in 1..Len(log) : StepRow(log, j) /\ log[j].turn = t /\ j > saved.upto => j =< Max(rows)
    BY <2>1, <1>1
  <2>5. PICK i \in 1..Len(log) : i = Max(rows)  BY <2>3
  <2> QED BY <2>2, <2>3, <2>4, <2>5
<1>3. CASE rows = {} /\ saved.turn = t /\ saved.event # "none"
  <2>1. saved.upto \in 1..Len(log) /\ IsEvent(log[saved.upto], saved.event, t, saved.step)
    BY <1>3, RowsTyped DEF Progress, TypeOK, Checkpoint
  <2>2. saved.event \in StepEvents  BY <1>3 DEF TypeOK, Checkpoint
  <2>3. RecoverStep(t) = HintAt(t, saved.event, saved.step)
    BY <1>3 DEF RecoverStep
  <2>4. \A j \in 1..Len(log) : StepRow(log, j) /\ log[j].turn = t /\ j > saved.upto => j =< saved.upto
    BY <1>1, <1>3
  <2>5. PICK i \in 1..Len(log) : i = saved.upto  BY <2>1
  <2>6. log[i].type = saved.event /\ log[i].turn = t /\ log[i].step = saved.step /\ StepRow(log, i)
    BY <2>1, <2>2, <2>5 DEF IsEvent, StepRow
  <2> QED BY <2>3, <2>4, <2>5, <2>6, <1>3
<1>4. CASE rows = {} /\ (saved.turn # t \/ saved.event = "none")
  <2>1. \A j \in 1..Len(log) : StepRow(log, j) /\ log[j].turn = t => j =< saved.upto
    BY <1>1, <1>4, RowsTyped DEF TypeOK, Checkpoint
  <2>2. RecoverStep(t) = HintAt(t, "none", 0) \/ RecoverStep(t) = HintAt(t, "none", saved.step)
    BY <1>4 DEF RecoverStep
  <2> QED BY <2>1, <2>2, <1>4
<1> QED BY <1>2, <1>3, <1>4

\* What runTurn is told: where it resumes, the step before it is recorded and
\* its own tool results are not.
LEMMA RecoverStepSound ==
  ASSUME TypeOK, Progress, StepsDone, ToolsOnce, NEW t \in MaybeTurn
  PROVE LET r == RecoverStep(t)
        IN  /\ r \in Hint
            /\ r.turn = t
            /\ r.action \in {"continue-current-step", "start-next-step"} =>
                 /\ StepBefore(log, Len(log), t, r.next)
                 /\ \/ Given(log, t)
                    \/ \A j \in 1..Len(log) : Results(log, j, t) => log[j].step < r.next
<1> DEFINE r == RecoverStep(t)
<1>0. MaxSteps \in Nat  BY StepsAssumption
<1>1. ASSUME NEW i \in 1..Len(log),
             StepRow(log, i), log[i].turn = t,
             i > saved.upto \/ (i = saved.upto /\ saved.turn = t /\ saved.event = log[i].type),
             \A j \in 1..Len(log) : StepRow(log, j) /\ log[j].turn = t /\ j > saved.upto => j =< i,
             r = HintAt(t, log[i].type, log[i].step)
      PROVE /\ r \in Hint /\ r.turn = t
            /\ r.action \in {"continue-current-step", "start-next-step"} =>
                 /\ StepBefore(log, Len(log), t, r.next)
                 /\ Given(log, t) \/ \A j \in 1..Len(log) : Results(log, j, t) => log[j].step < r.next
  <2>1. log[i] \in Row /\ log[i].step \in 0..(MaxSteps - 1) /\ log[i].type \in StepEvents
    BY <1>1, <1>0, RowsTyped DEF Progress, StepRow, Row
  <2>2. r.turn = t /\ r.action = ResumeAction(log[i].type) /\ r.next = NextStepIndex(log[i].type, log[i].step)
        /\ r = [turn |-> t, action |-> r.action, next |-> r.next]
    BY <1>1 DEF HintAt
  <2>3. r.next \in 0..MaxSteps /\ r.action \in Actions
    BY <2>1, <2>2, <1>0 DEF ResumeAction, NextStepIndex, Actions, StepEvents
  <2>4. r \in Hint  BY <2>2, <2>3 DEF Hint
  <2>5. ASSUME r.action \in {"continue-current-step", "start-next-step"}
        PROVE \/ log[i].type = "step.tool_result" /\ r.next = log[i].step + 1
              \/ log[i].type \notin {"step.tool_result", "step.final_output"} /\ r.next = log[i].step
    BY <2>1, <2>2, <2>5 DEF ResumeAction, NextStepIndex, StepEvents
  <2>6. ASSUME r.action \in {"continue-current-step", "start-next-step"}
        PROVE StepBefore(log, Len(log), t, r.next)
    <3>1. CASE log[i].type = "step.tool_result" /\ r.next = log[i].step + 1
      BY <3>1, <2>1, <1>1 DEF StepBefore, IsEvent
    <3>2. CASE log[i].type \notin {"step.tool_result", "step.final_output"} /\ r.next = log[i].step
      <4>1. StepBefore(log, i - 1, t, r.next)
        BY <3>2, <2>1, <1>1 DEF StepsDone, StepRow
      <4> QED BY <4>1, RowsTyped DEF StepBefore
    <3> QED BY <2>5, <2>6, <3>1, <3>2
  <2>7. ASSUME r.action \in {"continue-current-step", "start-next-step"}, ~Given(log, t),
               NEW j \in 1..Len(log), Results(log, j, t)
        PROVE log[j].step < r.next
    <3>1. j =< i
      <4>1. StepRow(log, j) /\ log[j].turn = t  BY <2>7 DEF Results, StepRow, StepEvents
      <4>2. saved.upto \in Nat /\ Len(log) \in Nat  BY RowsTyped DEF TypeOK, Checkpoint
      <4>3. CASE j > saved.upto  BY <4>1, <4>3, <1>1
      <4>4. CASE ~(j > saved.upto)  BY <4>2, <4>4, <1>1
      <4> QED BY <4>3, <4>4
    <3>2. log[j].step \in Nat  BY RowsTyped, <1>0 DEF Row
    <3>3. CASE j = i
      BY <3>3, <2>1, <2>5, <2>7 DEF Results
    <3>4. CASE j < i
      <4>1. j \in 1..(i - 1)  BY <3>4, RowsTyped
      <4>2. log[j].step =< log[i].step
            /\ (log[i].type \notin {"step.tool_result", "step.final_output"} => log[j].step < log[i].step)
        BY <4>1, <2>7, <1>1 DEF ToolsOnce
      <4> QED BY <4>2, <3>2, <2>1, <2>5, <2>7
    <3> QED BY <3>1, <3>3, <3>4, RowsTyped
  <2> QED BY <2>2, <2>4, <2>6, <2>7
<1>2. ASSUME r = HintAt(t, "none", 0) \/ r = HintAt(t, "none", saved.step)
      PROVE r \in Hint /\ r.turn = t /\ r.action = "no-progress"
  BY <1>2, <1>0 DEF HintAt, ResumeAction, NextStepIndex, Hint, Actions
<1> QED BY <1>1, <1>2, RecoverStepFrom

\* The hint of `hotflow resume` is for a turn without a final answer, and for
\* the turn of the checkpoint if that is a step's.
LEMMA RecoverLatestSound ==
  ASSUME TypeOK, Progress, AnswersKept, ToolsOnce,
         RecoverLatestStep.action \in {"continue-current-step", "start-next-step"}
  PROVE LET t == RecoverLatestStep.turn
        IN  /\ t \in MaybeTurn /\ t # NoTurn
            /\ RecoverLatestStep \in Hint
            /\ \A k \in 1..Len(log) : FinalRow(log, k) => log[k].turn # t
            /\ saved.event # "none" => saved.turn = t
            /\ saved.event = "none" =>
                 Given(log, t) \/ \A k \in 1..saved.upto : log[k].turn # t
<1> DEFINE t == LatestTurnId
           turned == DOMAIN log \ OfTurn(DOMAIN log, NoTurn)
           steps == OfTurn(OfType(DOMAIN log, StepEvents), t)
           h == RecoverLatestStep
<1>0. MaxSteps \in Nat /\ saved.upto \in Nat /\ Len(log) \in Nat
  BY StepsAssumption, RowsTyped DEF TypeOK, Checkpoint
<1>1. turned = {i \in 1..Len(log) : log[i].turn # NoTurn}
  BY RowsTyped DEF OfTurn
<1>2. steps = {i \in 1..Len(log) : StepRow(log, i) /\ log[i].turn = t}
  BY RowsTyped DEF OfTurn, OfType, StepRow
<1>3. t # NoTurn
  <2>1. CASE t = NoTurn
    <3>1. h = NoHint  BY <2>1 DEF RecoverLatestStep
    <3>2. h.action = "no-progress"  BY <3>1 DEF NoHint
    <3> QED BY <3>2
  <2> QED BY <2>1
<1>4. /\ t \in MaybeTurn
      /\ saved.event # "none" => saved.turn = t
      /\ saved.event = "none" => Given(log, t) \/ \A k \in 1..saved.upto : log[k].turn # t
  <2>1. CASE saved.event # "none"
    BY <2>1 DEF LatestTurnId, TypeOK, Checkpoint
  <2>2. CASE saved.event = "none"
    <3>1. turned # {} /\ t = log[Max(turned)].turn
      BY <2>2, <1>3 DEF LatestTurnId
    <3>2. PICK m \in 1..Len(log) : m = Max(turned)
      BY <3>1, <1>0, <1>1, MaxIn
    <3>3. log[m].turn = t /\ \A x \in 1..Len(log) : log[x].turn # NoTurn => x =< m
      BY <3>1, <3>2, <1>0, <1>1, MaxIn
    <3>4. t \in MaybeTurn  BY <3>3, RowsTyped DEF Row
    <3>5. CASE m > saved.upto
      <4>1. \A i \in 1..saved.upto : log[i].turn = t => Given(log, t)
        BY <3>3, <3>5, <2>2, <1>0, <1>3 DEF ToolsOnce
      <4> QED BY <4>1, <3>4, <2>2
    <3>6. CASE m =< saved.upto
      <4>1. saved.upto \in 1..Len(log) /\ OutputRow(log, saved.upto) /\ log[saved.upto].turn # NoTurn
        BY <3>6, <2>2, <1>0 DEF ToolsOnce, Progress
      <4>2. saved.upto = m  BY <4>1, <3>3, <3>6, <1>0
      <4>3. Given(log, t)  BY <4>1, <4>2, <3>3 DEF Given
      <4> QED BY <4>3, <3>4, <2>2
    <3> QED BY <3>5, <3>6, <1>0
  <2> QED BY <2>1, <2>2
<1>5. ASSUME NEW i \in 1..Len(log), StepRow(log, i), log[i].turn = t, ~FinalRow(log, i),
             \A j \in 1..Len(log) : StepRow(log, j) /\ log[j].turn = t => j =< i
      PROVE \A k \in 1..Len(log) : FinalRow(log, k) => log[k].turn # t
  <2> SUFFICES ASSUME NEW k \in 1..Len(log), FinalRow(log, k), log[k].turn = t PROVE FALSE
    OBVIOUS
  <2>1. StepRow(log, k)  BY DEF FinalRow, StepRow, StepEvents
  <2>2. k =< i /\ k # i  BY <2>1, <1>5
  <2> QED BY <2>2, <1>5, <1>0 DEF AnswersKept
<1>6. CASE steps # {} /\ h = HintAt(t, log[Max(steps)].type, log[Max(steps)].step)
  <2>1. PICK i \in 1..Len(log) : i = Max(steps)
    BY <1>6, <1>0, <1>2, MaxIn
  <2>2. StepRow(log, i) /\ log[i].turn = t
        /\ \A j \in 1..Len(log) : StepRow(log, j) /\ log[j].turn = t => j =< i
    BY <1>6, <2>1, <1>0, <1>2, MaxIn
  <2>3. h = HintAt(t, log[i].type, log[i].step)  BY <1>6, <2>1
  <2>4. ResumeAction(log[i].type) \in {"continue-current-step", "start-next-step"}
        /\ h.turn = t
    BY <2>3 DEF HintAt
  <2>5. ~FinalRow(log, i)  BY <2>4 DEF FinalRow, ResumeAction
  <2>6. h \in Hint
    <3>1. log[i].type \in StepEvents /\ log[i].step \in 0..(MaxSteps - 1)
      BY <2>2, <1>0, RowsTyped DEF Progress, StepRow, Row
    <3>2. NextStepIndex(log[i].type, log[i].step) \in 0..MaxSteps
      BY <3>1, <1>0 DEF NextStepIndex, StepEvents
    <3>3. ResumeAction(log[i].type) \in Actions  BY <2>4 DEF Actions
    <3> QED BY <2>3, <3>2, <3>3, <1>4 DEF HintAt, Hint
  <2> QED BY <2>2, <2>4, <2>5, <2>6, <1>3, <1>4, <1>5
<1>7. CASE h = RecoverStep(t)
  <2>1. ASSUME NEW i \in 1..Len(log), StepRow(log, i), log[i].turn = t,
               i > saved.upto \/ (i = saved.upto /\ saved.turn = t /\ saved.event = log[i].type),
               \A j \in 1..Len(log) : StepRow(log, j) /\ log[j].turn = t /\ j > saved.upto => j =< i,
               RecoverStep(t) = HintAt(t, log[i].type, log[i].step)
        PROVE /\ h.turn = t /\ h \in Hint
              /\ \A k \in 1..Len(log) : FinalRow(log, k) => log[k].turn # t
    <3>1. ResumeAction(log[i].type) \in {"continue-current-step", "start-next-step"} /\ h.turn = t
      BY <1>7, <2>1 DEF HintAt
    <3>2. ~FinalRow(log, i)  BY <3>1 DEF FinalRow, ResumeAction
    <3>3. \A j \in 1..Len(log) : StepRow(log, j) /\ log[j].turn = t => j =< i
      <4> SUFFICES ASSUME NEW j \in 1..Len(log), StepRow(log, j), log[j].turn = t PROVE j =< i
        OBVIOUS
      <4>1. CASE j > saved.upto  BY <4>1, <2>1
      <4>2. CASE ~(j > saved.upto)  BY <4>2, <2>1, <1>0
      <4> QED BY <4>1, <4>2
    <3>4. log[i].type \in StepEvents /\ log[i].step \in 0..(MaxSteps - 1)
      BY <2>1, <1>0, RowsTyped DEF Progress, StepRow, Row
    <3>5. NextStepIndex(log[i].type, log[i].step) \in 0..MaxSteps
      BY <3>4, <1>0 DEF NextStepIndex, StepEvents
    <3>6. ResumeAction(log[i].type) \in Actions  BY <3>1 DEF Actions
    <3>7. h \in Hint  BY <1>7, <2>1, <3>5, <3>6, <1>4 DEF HintAt, Hint
    <3> QED BY <3>1, <3>2, <3>3, <3>7, <2>1, <1>5
  <2>2. ASSUME RecoverStep(t) = HintAt(t, "none", 0) \/ RecoverStep(t) = HintAt(t, "none", saved.step)
        PROVE FALSE
    <3>1. h.action = ResumeAction("none")  BY <1>7, <2>2 DEF HintAt
    <3>2. ResumeAction("none") = "no-progress"  BY DEF ResumeAction
    <3> QED BY <3>1, <3>2
  <2> QED BY <2>1, <2>2, RecoverStepFrom, <1>3, <1>4
<1>8. \/ steps # {} /\ h = HintAt(t, log[Max(steps)].type, log[Max(steps)].step)
      \/ h = RecoverStep(t)
  BY <1>3 DEF RecoverLatestStep
<1> QED BY <1>6, <1>7, <1>8

-----------------------------------------------------------------------------
(* Todo lists.                                                              *)

\* The list of the rows after the checkpoint, or else the checkpoint's.
LEMMA RecoveredIsLast ==
  ASSUME TypeOK, Progress, LastList(log, saved.upto, saved.todos)
  PROVE RecoveredTodos \in MaybeTodos /\ LastList(log, Len(log), RecoveredTodos)
<1> DEFINE new == OfType(RowsAfter(saved.upto), {"tasks.todo_write"})
<1>0. saved.upto \in Nat /\ Len(log) \in Nat /\ saved.upto =< Len(log) /\ saved.todos \in MaybeTodos
  BY RowsTyped DEF TypeOK, Checkpoint, Progress
<1>1. new = {i \in 1..Len(log) : i > saved.upto /\ log[i].type = "tasks.todo_write"}
  BY RowsTyped DEF OfType, RowsAfter
<1>2. CASE new = {}
  <2>1. \A i \in 1..Len(log) : i > saved.upto => log[i].type # "tasks.todo_write"
    BY <1>1, <1>2
  <2>2. RecoveredTodos = saved.todos  BY <1>2 DEF RecoveredTodos
  <2> QED BY <2>1, <2>2, <1>0 DEF LastList
<1>3. CASE new # {}
  <2>1. PICK m \in 1..Len(log) : m = Max(new)  BY <1>0, <1>1, <1>3, MaxIn
  <2>2. m \in new /\ \A x \in new : x =< m  BY <1>0, <1>1, <1>3, <2>1, MaxIn
  <2>3. RecoveredTodos = log[m].todos  BY <1>3, <2>1 DEF RecoveredTodos
  <2>4. \A j \in (m + 1)..Len(log) : log[j].type # "tasks.todo_write"
    BY <2>2, <1>0, <1>1
  <2>5. log[m].todos \in MaybeTodos  BY RowsTyped DEF Row
  <2> QED BY <2>2, <2>3, <2>4, <2>5, <1>1 DEF LastList
<1> QED BY <1>2, <1>3

\* Recovery yields an output text.
LEMMA RecoveredTextTyped ==
  ASSUME TypeOK
  PROVE RecoveredText \in MaybeText
<1> DEFINE new == OfType(RowsAfter(saved.upto), {"assistant.output"})
<1>1. new \subseteq 1..Len(log)  BY RowsTyped DEF OfType, RowsAfter
<1>2. CASE new = {}  BY <1>2 DEF RecoveredText, TypeOK, Checkpoint
<1>3. CASE new # {}
  <2>1. PICK m \in 1..Len(log) : m = Max(new)  BY <1>1, <1>3, MaxIn, RowsTyped
  <2> QED BY <1>3, <2>1, RowsTyped DEF RecoveredText, Row
<1> QED BY <1>2, <1>3

\* Recovery counts the tool results.
LEMMA RecoveredToolResultsTyped ==
  ASSUME TypeOK, NEW t
  PROVE RecoveredToolResults(t) \in Nat
<1> DEFINE rows == OfTurn(OfType(RowsAfter(saved.upto), {"tool.result"}), t)
<1>1. rows \subseteq 1..Len(log)  BY RowsTyped DEF OfTurn, OfType, RowsAfter
<1>2. IsFiniteSet(1..Len(log))  BY FS_Interval, RowsTyped
<1>3. IsFiniteSet(rows)  BY <1>1, <1>2, FS_Subset
<1> QED BY <1>3, FS_CardinalityType DEF RecoveredToolResults

-----------------------------------------------------------------------------
(* runTurn up to the step loop, and the loop after a tool call.             *)

\* A turn may be run or resumed if it is new, or if recovery finds its steps, and
\* it has no final answer.
Startable(t) ==
    /\ \A k \in 1..Len(log) : FinalRow(log, k) => log[k].turn # t
    /\ \/ \A k \in 1..Len(log) : log[k].turn # t
       \/ /\ saved.event # "none" => saved.turn = t
          /\ saved.event = "none" =>
               Given(log, t) \/ \A k \in 1..saved.upto : log[k].turn # t

\* A run or a resumption begins at the step that is next by the journal.
LEMMA RunTurnBegins ==
  ASSUME IInv, NEW t \in MaybeTurn, t # NoTurn, NEW hint \in Hint, RunTurn(t, hint),
         Startable(t)
  PROVE /\ engine' \in EngineRecord
        /\ \/ engine' = Idle
           \/ /\ engine'.turn = t
              /\ engine'.board = RecoveredTodos
              /\ \/ engine'.pc = "input" /\ engine'.step = 0
                 \/ engine'.pc = LoopHead(engine'.step) /\ saved.event = "none"
                 \/ engine'.pc = LoopHead(engine'.step) /\ saved.turn = t
              /\ StepBefore(log, Len(log), t, engine'.step)
              /\ \/ Given(log, t)
                 \/ \A j \in 1..Len(log) : Results(log, j, t) => log[j].step < engine'.step
              /\ saved.event = "none" =>
                   Given(log, t) \/ \A i \in 1..saved.upto : log[i].turn # t
<1> DEFINE r == RecoverStep(t)
           resumed == r.action \in {"continue-current-step", "start-next-step"}
           first == IF resumed THEN r.next ELSE 0
<1>0. MaxSteps \in Nat /\ Len(log) \in Nat /\ saved.upto \in Nat
  BY StepsAssumption, RowsTyped DEF IInv, TypeOK, Checkpoint
<1>1. /\ r \in Hint
      /\ resumed => /\ StepBefore(log, Len(log), t, r.next)
                    /\ Given(log, t) \/ \A j \in 1..Len(log) : Results(log, j, t) => log[j].step < r.next
  BY RecoverStepSound DEF IInv
<1>2. RecoveredTodos \in MaybeTodos /\ RecoveredText \in MaybeText /\ RecoveredToolResults(t) \in Nat
  BY RecoveredIsLast, RecoveredTextTyped, RecoveredToolResultsTyped DEF IInv, ListsKept
<1>3. CASE r.action = "turn-complete"
  <2>1. engine' = Idle  BY <1>3 DEF RunTurn
  <2> QED BY <2>1, IdleTyped
<1>4. CASE r.action # "turn-complete"
  <2>1. engine' = [Idle EXCEPT
                    !.pc = IF resumed THEN LoopHead(first) ELSE "input",
                    !.turn = t, !.hint = hint, !.action = r.action, !.first = first,
                    !.step = first, !.board = RecoveredTodos, !.text = RecoveredText,
                    !.results = IF resumed THEN RecoveredToolResults(t) ELSE 0]
    BY <1>4 DEF RunTurn
  <2>2. first \in 0..MaxSteps  BY <1>0, <1>1 DEF Hint
  <2>3. engine' \in EngineRecord
    <3>1. (IF resumed THEN LoopHead(first) ELSE "input") \in {"input", "context", "output"}
      BY DEF LoopHead
    <3>2. (IF resumed THEN RecoveredToolResults(t) ELSE 0) \in Nat  BY <1>2
    <3>3. r.action \in Actions  BY <1>1 DEF Hint
    <3> HIDE DEF r, resumed, first
    <3> QED BY <2>1, <2>2, <3>1, <3>2, <3>3, <1>2, IdleTyped DEF EngineRecord
  <2>4. engine'.turn = t /\ engine'.board = RecoveredTodos /\ engine'.step = first
        /\ engine'.pc = IF resumed THEN LoopHead(first) ELSE "input"
    BY <2>1 DEF Idle
  <2>5. saved.event = "none" => Given(log, t) \/ \A i \in 1..saved.upto : log[i].turn # t
    BY <1>0 DEF Startable, IInv, Progress
  <2>6. CASE resumed
    <3>1. engine'.pc = LoopHead(engine'.step) /\ (saved.event = "none" \/ saved.turn = t)
      <4>1. CASE \A k \in 1..Len(log) : log[k].turn # t
        <5>1. \E x \in {0, saved.step} : RecoverStep(t) = HintAt(t, "none", x)
          BY <4>1, RecoverStepFrom DEF IInv
        <5>2. r.action = ResumeAction("none")  BY <5>1 DEF HintAt
        <5>3. ResumeAction("none") = "no-progress"  BY DEF ResumeAction
        <5> QED BY <5>2, <5>3, <2>6
      <4> QED BY <4>1, <2>4, <2>6 DEF Startable
    <3>2. StepBefore(log, Len(log), t, engine'.step)
          /\ \/ Given(log, t)
             \/ \A j \in 1..Len(log) : Results(log, j, t) => log[j].step < engine'.step
      BY <1>1, <2>4, <2>6
    <3> QED BY <2>3, <2>4, <2>5, <3>1, <3>2
  <2>7. CASE ~resumed
    <3>1. engine'.pc = "input" /\ engine'.step = 0  BY <2>4, <2>7
    <3>2. StepBefore(log, Len(log), t, engine'.step)  BY <3>1 DEF StepBefore
    <3>3. Given(log, t) \/ \A j \in 1..Len(log) : Results(log, j, t) => log[j].step < engine'.step
      <4>1. CASE \A k \in 1..Len(log) : log[k].turn # t
        BY <4>1 DEF Results
      <4>2. CASE /\ saved.event # "none" => saved.turn = t
                 /\ saved.event = "none" => Given(log, t) \/ \A k \in 1..saved.upto : log[k].turn # t
        <5>1. ASSUME NEW i \in 1..Len(log), StepRow(log, i), log[i].turn = t, ~FinalRow(log, i),
                     RecoverStep(t) = HintAt(t, log[i].type, log[i].step)
              PROVE FALSE
          <6>1. r.action = ResumeAction(log[i].type)  BY <5>1 DEF HintAt
          <6>2. ResumeAction(log[i].type) \in {"continue-current-step", "start-next-step"}
            BY <5>1 DEF ResumeAction, StepRow, FinalRow, StepEvents
          <6> QED BY <6>1, <6>2, <2>7
        <5>2. \A j \in 1..Len(log) : StepRow(log, j) /\ log[j].turn = t => j =< saved.upto
              /\ (saved.event = "none" \/ saved.turn # t)
          BY <5>1, RecoverStepFrom DEF IInv, Startable
        <5>3. ASSUME NEW j \in 1..Len(log), Results(log, j, t) PROVE Given(log, t)
          <6>1. StepRow(log, j) /\ log[j].turn = t  BY <5>3 DEF Results, StepRow, StepEvents
          <6> QED BY <6>1, <5>2, <4>2, <1>0
        <5> QED BY <5>3
      <4> QED BY <4>1, <4>2 DEF Startable
    <3> QED BY <2>3, <2>4, <2>5, <3>1, <3>2, <3>3
  <2> QED BY <2>6, <2>7
<1> QED BY <1>3, <1>4

\* After a call's rows comes the next call, or the record of the step.
LEMMA AfterCallEffect ==
  ASSUME NEW e \in EngineRecord, e.plan # << >>
  PROVE /\ AfterCall(e) \in EngineRecord
        /\ AfterCall(e).turn = e.turn /\ AfterCall(e).step = e.step /\ AfterCall(e).board = e.board
        /\ \/ AfterCall(e).pc = "tools" /\ AfterCall(e).plan # << >>
           \/ /\ AfterCall(e).pc = "record"
              /\ EventsEnd(AfterCall(e))
              /\ Head(AfterCall(e).events) = "step.model_output"
<1>0. e.plan \in Seq(Calls) /\ Len(e.plan) > 0
  BY LenProperties, EmptySeq DEF EngineRecord
<1>1. CASE Len(e.plan) > 1
  <2>1. Tail(e.plan) \in Seq(Calls) /\ Len(Tail(e.plan)) > 0
    BY <1>0, <1>1, HeadTailProperties
  <2>2. Tail(e.plan) # << >>  BY <2>1, NonEmpty
  <2>3. AfterCall(e) = [e EXCEPT !.pc = "tools", !.plan = Tail(e.plan)]
    BY <1>1 DEF AfterCall
  <2> QED BY <2>1, <2>2, <2>3 DEF EngineRecord
<1>2. CASE ~(Len(e.plan) > 1)
  <2> DEFINE done == <<"step.model_output", "step.tools_planned", "step.tool_result">>
             all == done \o (IF e.stop THEN <<"step.final_output">> ELSE << >>)
  <2>1. AfterCall(e) = [e EXCEPT !.pc = "record", !.plan = << >>,
                          !.text = IF e.stop THEN Stopped ELSE e.text,
                          !.events = all, !.last = e.stop]
    BY <1>2 DEF AfterCall
  <2>2. e.stop \in BOOLEAN  BY DEF EngineRecord
  <2>3. done \in Seq(StepEvents) /\ Len(done) = 3 /\ done[1] = "step.model_output"
        /\ done[2] = "step.tools_planned" /\ done[3] = "step.tool_result"
    BY DEF StepEvents
  <2>4. ASSUME NEW tail \in Seq(StepEvents), NEW last \in BOOLEAN,
               tail = IF last THEN <<"step.final_output">> ELSE << >>
        PROVE LET s == done \o tail
              IN  /\ s \in Seq(StepEvents) /\ Head(s) = "step.model_output"
                  /\ Len(s) = IF last THEN 4 ELSE 3
                  /\ s[Len(s)] = IF last THEN "step.final_output" ELSE "step.tool_result"
                  /\ \A k \in 1..(Len(s) - 1) :
                       s[k] # "step.final_output" /\ (s[k] = "step.tool_result" => k = Len(s) - 1 /\ last)
    <3> HIDE DEF done
    <3>1. /\ done \o tail \in Seq(StepEvents)
          /\ Len(done \o tail) = 3 + Len(tail)
          /\ \A k \in 1..(3 + Len(tail)) : (done \o tail)[k] = IF k =< 3 THEN done[k] ELSE tail[k - 3]
      <4>1. tail \in Seq(StepEvents)  BY <2>4
      <4>2. /\ done \o tail \in Seq(StepEvents)
            /\ Len(done \o tail) = Len(done) + Len(tail)
            /\ \A k \in 1..(Len(done) + Len(tail)) :
                 (done \o tail)[k] = IF k =< Len(done) THEN done[k] ELSE tail[k - Len(done)]
        BY <2>3, <4>1, ConcatProperties
      <4> QED BY <2>3, <4>2
    <3>2. Len(tail) = (IF last THEN 1 ELSE 0) /\ (last => tail[1] = "step.final_output")
      BY <2>4
    <3>3. Len(done \o tail) = IF last THEN 4 ELSE 3  BY <3>1, <3>2
    <3>4. done \o tail # << >>  BY <3>3
    <3>5. Head(done \o tail) = (done \o tail)[1]  BY <3>1, <3>4
    <3>6. (done \o tail)[1] = "step.model_output" /\ (done \o tail)[2] = "step.tools_planned"
          /\ (done \o tail)[3] = "step.tool_result" /\ (last => (done \o tail)[4] = "step.final_output")
      BY <2>3, <3>1, <3>2
    <3> QED BY <3>1, <3>3, <3>5, <3>6
  <2>5. (IF e.stop THEN <<"step.final_output">> ELSE << >>) \in Seq(StepEvents)
    <3>1. <<"step.final_output">> \in Seq(StepEvents)  BY DEF StepEvents
    <3>2. << >> \in Seq(StepEvents)  OBVIOUS
    <3> QED BY <3>1, <3>2
  <2>6. /\ all \in Seq(StepEvents) /\ Head(all) = "step.model_output"
        /\ Len(all) = IF e.stop THEN 4 ELSE 3
        /\ all[Len(all)] = IF e.stop THEN "step.final_output" ELSE "step.tool_result"
        /\ \A k \in 1..(Len(all) - 1) :
             all[k] # "step.final_output" /\ (all[k] = "step.tool_result" => k = Len(all) - 1 /\ e.stop)
    <3> HIDE DEF done
    <3> QED BY <2>2, <2>4, <2>5
  <2> HIDE DEF done, all
  <2>7. << >> \in Seq(Calls)  OBVIOUS
  <2>8. (IF e.stop THEN Stopped ELSE e.text) \in MaybeText
    BY DEF EngineRecord, MaybeText
  <2>9. AfterCall(e) \in EngineRecord
    <3>1. ASSUME NEW text \in MaybeText, NEW events \in Seq(StepEvents),
                 NEW plan \in Seq(Calls), NEW last \in BOOLEAN
          PROVE [e EXCEPT !.pc = "record", !.plan = plan, !.text = text, !.events = events,
                          !.last = last] \in EngineRecord
      BY DEF EngineRecord
    <3> DEFINE text == IF e.stop THEN Stopped ELSE e.text
               plan == << >>
    <3>2. text \in MaybeText /\ plan \in Seq(Calls) /\ all \in Seq(StepEvents)
      BY <2>6, <2>7, <2>8
    <3>3. AfterCall(e) = [e EXCEPT !.pc = "record", !.plan = plan, !.text = text,
                                   !.events = all, !.last = e.stop]
      BY <2>1
    <3> HIDE DEF text, plan
    <3>4. [e EXCEPT !.pc = "record", !.plan = plan, !.text = text, !.events = all,
                    !.last = e.stop] \in EngineRecord
      BY <2>2, <3>1, <3>2
    <3> QED BY <3>3, <3>4
  <2>10. /\ AfterCall(e).events = all /\ (AfterCall(e).last <=> e.stop) /\ AfterCall(e).pc = "record"
         /\ AfterCall(e).turn = e.turn /\ AfterCall(e).step = e.step /\ AfterCall(e).board = e.board
    BY <2>1 DEF EngineRecord
  <2>11. EventsEnd(AfterCall(e)) /\ Head(AfterCall(e).events) = "step.model_output"
    <3>1. (IF e.stop THEN "step.final_output" ELSE "step.tool_result")
          = (IF AfterCall(e).last THEN "step.final_output" ELSE "step.tool_result")
      BY <2>10
    <3>2. Len(all) > 0  BY <2>6
    <3> QED BY <2>6, <2>10, <3>1, <3>2 DEF EventsEnd
  <2> QED BY <2>9, <2>10, <2>11
<1> QED BY <1>1, <1>2

\* After an event's checkpoint comes the next event, the output or the next step.
LEMMA SaveEventEffect ==
  ASSUME TypeOK, Progress, SaveEvent
  PROVE /\ engine' \in EngineRecord
        /\ engine'.turn = engine.turn /\ engine'.board = engine.board /\ engine'.text = engine.text
        /\ Head(engine.events) \in StepEvents
        /\ \/ /\ engine'.pc = "record" /\ engine'.step = engine.step
              /\ EventsEnd(engine') /\ Head(engine.events) # "step.final_output"
              /\ Head(engine.events) = "step.tool_result" => Head(engine'.events) = "step.final_output"
           \/ /\ engine'.pc = "output" /\ engine'.step = engine.step
              /\ Head(engine.events) = "step.final_output"
           \/ /\ engine'.pc = LoopHead(engine'.step) /\ engine'.step = engine.step + 1
              /\ engine'.step \in 0..MaxSteps
              /\ Head(engine.events) = "step.tool_result"
<1> DEFINE s == engine.events
           n == Len(s)
<1>1. s \in Seq(StepEvents) /\ n \in Nat /\ n > 0 /\ engine \in EngineRecord
      /\ engine.last \in BOOLEAN /\ engine.step \in 0..MaxSteps /\ MaxSteps \in Nat /\ engine.step < MaxSteps
  BY LenProperties, StepsAssumption DEF TypeOK, EngineRecord, Progress, SaveEvent, InStep, EventsEnd
<1>2. /\ s[n] = IF engine.last THEN "step.final_output" ELSE "step.tool_result"
      /\ \A i \in 1..(n - 1) :
           s[i] # "step.final_output" /\ (s[i] = "step.tool_result" => i = n - 1 /\ engine.last)
  BY DEF Progress, SaveEvent, EventsEnd
<1>3. Head(s) = s[1] /\ Head(s) \in StepEvents /\ Tail(s) \in Seq(StepEvents)
      /\ Len(Tail(s)) = n - 1 /\ \A i \in 1..(n - 1) : Tail(s)[i] = s[i + 1]
  <2>1. s # << >>  BY <1>1
  <2> QED BY <1>1, <2>1, HeadTailProperties
<1>4. CASE n > 1
  <2>1. engine' = [engine EXCEPT !.events = Tail(s), !.pc = "record"]
    BY <1>4 DEF SaveEvent
  <2>2. engine' \in EngineRecord  BY <2>1, <1>1, <1>3 DEF EngineRecord
  <2>3. engine'.events = Tail(s) /\ engine'.last = engine.last /\ engine'.pc = "record"
        /\ engine'.step = engine.step /\ engine'.turn = engine.turn /\ engine'.board = engine.board
        /\ engine'.text = engine.text
    BY <2>1, <1>1 DEF EngineRecord
  <2>4. EventsEnd(engine')
    <3>1. Tail(s)[n - 1] = s[n]  BY <1>1, <1>3, <1>4
    <3>2. \A i \in 1..(n - 2) :
            /\ Tail(s)[i] # "step.final_output"
            /\ Tail(s)[i] = "step.tool_result" => i = n - 2 /\ engine.last
      BY <1>1, <1>2, <1>3
    <3>3. (n - 1) - 1 = n - 2 /\ n - 1 > 0 /\ Len(Tail(s)) = n - 1  BY <1>1, <1>3, <1>4
    <3>4. Tail(s)[n - 1] = IF engine.last THEN "step.final_output" ELSE "step.tool_result"
      BY <3>1, <1>2
    <3> HIDE DEF s, n
    <3> QED BY <3>2, <3>3, <3>4, <2>3 DEF EventsEnd
  <2>5. Head(s) # "step.final_output"  BY <1>1, <1>2, <1>3, <1>4
  <2>6. Head(s) = "step.tool_result" => Head(engine'.events) = "step.final_output"
    <3> SUFFICES ASSUME Head(s) = "step.tool_result"
                 PROVE Head(engine'.events) = "step.final_output"
      OBVIOUS
    <3>1. 1 \in 1..(n - 1) /\ s[1] = "step.tool_result"  BY <1>1, <1>3, <1>4
    <3>2. 1 = n - 1 /\ engine.last  BY <1>2, <3>1, Zenon
    <3>3. n = 2  BY <1>1, <3>2
    <3>4. s[n] = "step.final_output"  BY <1>2, <3>2, Zenon
    <3>5. Tail(s) \in Seq(StepEvents) /\ Len(Tail(s)) = 1 /\ Tail(s)[1] = "step.final_output"
      BY <1>3, <3>3, <3>4
    <3>6. Head(Tail(s)) = Tail(s)[1]  BY <3>5
    <3> QED BY <2>3, <3>5, <3>6
  <2> QED BY <2>2, <2>3, <2>4, <2>5, <2>6, <1>3
<1>5. CASE n = 1 /\ engine.last
  <2>1. engine' = [[engine EXCEPT !.events = Tail(s)] EXCEPT !.pc = "output"]
    BY <1>5, <1>1 DEF SaveEvent, EngineRecord
  <2>2. engine' \in EngineRecord  BY <2>1, <1>1, <1>3 DEF EngineRecord
  <2>3. engine'.pc = "output" /\ engine'.step = engine.step /\ engine'.turn = engine.turn
        /\ engine'.board = engine.board /\ engine'.text = engine.text
    BY <2>1, <1>1 DEF EngineRecord
  <2> QED BY <2>2, <2>3, <1>2, <1>3, <1>5
<1>6. CASE n = 1 /\ ~engine.last
  <2> DEFINE e == [engine EXCEPT !.events = Tail(s)]
  <2>0. e \in EngineRecord /\ e.last = engine.last /\ e.step = engine.step
        /\ e.turn = engine.turn /\ e.board = engine.board /\ e.text = engine.text
    BY <1>1, <1>3 DEF EngineRecord
  <2>1. engine' = NextStep(e)
    BY <1>6, <2>0 DEF SaveEvent
  <2> HIDE DEF e
  <2>2. engine' = [e EXCEPT !.pc = LoopHead(engine.step + 1), !.step = engine.step + 1, !.stop = FALSE]
    BY <2>0, <2>1 DEF NextStep
  <2>3. LoopHead(engine.step + 1) \in {"context", "output"}  BY DEF LoopHead
  <2>4. engine.step + 1 \in 0..MaxSteps  BY <1>1
  <2>5. engine' \in EngineRecord  BY <2>0, <2>2, <2>3, <2>4 DEF EngineRecord
  <2>6. engine'.pc = LoopHead(engine.step + 1) /\ engine'.step = engine.step + 1
        /\ engine'.turn = engine.turn /\ engine'.board = engine.board /\ engine'.text = engine.text
    BY <2>0, <2>2 DEF EngineRecord
  <2>7. Head(s) = "step.tool_result"  BY <1>2, <1>3, <1>6
  <2> QED BY <2>4, <2>5, <2>6, <2>7, <1>3
<1>7. n > 1 \/ n = 1
  <2>1. n \in Nat /\ n > 0  BY <1>1
  <2> HIDE DEF s, n
  <2> QED BY <2>1
<1> HIDE DEF s, n
<1> QED BY <1>4, <1>5, <1>6, <1>7

-----------------------------------------------------------------------------
(* Types.                                                                   *)

\* A plan is a sequence of calls, and not empty.
LEMMA PlansTyped == ASSUME NEW plan \in Plans PROVE plan \in Seq(Calls) /\ plan # << >>
<1>1. PICK n \in 1..MaxCalls : plan \in [1..n -> Calls]  BY DEF Plans
<1>2. n \in Nat /\ n > 0  BY <1>1, StepsAssumption
<1>3. plan \in Seq(Calls)  BY <1>1, <1>2, IsASeq
<1>4. Len(plan) = n  BY <1>1, <1>2, <1>3, LenProperties
<1> QED BY <1>2, <1>3, <1>4, NonEmpty

\* A run or a resumption, whichever turn it is for.
LEMMA StartsRun ==
  ASSUME IInv, (\E t \in Turns : Run(t)) \/ Resume
  PROVE /\ engine.pc = "idle" /\ UNCHANGED <<log, saved, observed>> /\ runs' = runs + 1 /\ runs < MaxRuns
        /\ \E t \in MaybeTurn, hint \in Hint : t # NoTurn /\ RunTurn(t, hint) /\ Startable(t)
<1>1. CASE \E t \in Turns : Run(t)
  <2>1. PICK t \in Turns : Run(t)  BY <1>1
  <2>2. \A k \in 1..Len(log) : log[k].turn # t
    BY <2>1, RowsTyped DEF Run, OfTurn, IInv
  <2>3. t \in MaybeTurn /\ t # NoTurn  BY TurnsAssumption DEF MaybeTurn
  <2> QED BY <2>1, <2>2, <2>3, IdleTyped DEF Run, Startable
<1>2. CASE Resume
  <2>1. RecoverLatestStep.action \in {"continue-current-step", "start-next-step"}
    BY <1>2 DEF Resume
  <2>2. RunTurn(RecoverLatestStep.turn, RecoverLatestStep)  BY <1>2 DEF Resume
  <2> QED BY <1>2, <2>1, <2>2, RecoverLatestSound DEF Resume, Startable, IInv
<1> QED BY <1>1, <1>2

\* What the engine saves is a checkpoint.
LEMMA CheckpointsTyped ==
  ASSUME TypeOK
  PROVE /\ GeneralCheckpoint \in Checkpoint
        /\ \A event \in StepEvents : StepCheckpoint(event) \in Checkpoint
BY RowsTyped, StepsAssumption
DEF TypeOK, EngineRecord, GeneralCheckpoint, StepCheckpoint, Checkpoint, MaybeTurn

\* Every step keeps the types.
LEMMA TypeStep == IInv /\ [Next]_vars => TypeOK'
<1> SUFFICES ASSUME IInv, [Next]_vars PROVE TypeOK'  OBVIOUS
<1>0. /\ TypeOK /\ Progress
      /\ log \in Seq(Row) /\ saved \in Checkpoint /\ observed \in Hint
      /\ engine \in EngineRecord /\ runs \in 0..MaxRuns
      /\ MaxSteps \in Nat /\ MaxRuns \in Nat
  BY StepsAssumption, TurnsAssumption DEF IInv, TypeOK
<1>a. ASSUME NEW type \in RowTypes, log' = Append(log, NewRow(type)) PROVE log' \in Seq(Row)
  BY <1>0, <1>a, NewRowTyped, Appended
<1>1. CASE UNCHANGED vars  BY <1>0, <1>1 DEF vars, TypeOK
<1>2. CASE (\E t \in Turns : Run(t)) \/ Resume
  <2>1. PICK t \in MaybeTurn, hint \in Hint : t # NoTurn /\ RunTurn(t, hint) /\ Startable(t)
    BY <1>2, StartsRun
  <2>2. engine' \in EngineRecord  BY <2>1, RunTurnBegins
  <2> QED BY <1>0, <1>2, <2>2, StartsRun DEF TypeOK
<1>3. CASE AppendUserInput
  <2>1. engine' \in EngineRecord  BY <1>0, <1>3 DEF AppendUserInput, EngineRecord, LoopHead
  <2>2. log' \in Seq(Row)  BY <1>3, <1>a DEF AppendUserInput, RowTypes
  <2> QED BY <1>0, <1>3, <2>1, <2>2 DEF AppendUserInput, TypeOK
<1>4. CASE ContextBuilt
  <2>1. engine' \in EngineRecord  BY <1>0, <1>4 DEF ContextBuilt, EngineRecord
  <2>2. log' \in Seq(Row)  BY <1>4, <1>a DEF ContextBuilt, RowTypes, StepEvents
  <2> QED BY <1>0, <1>4, <2>1, <2>2 DEF ContextBuilt, TypeOK
<1>5. CASE ContextSave
  <2>1. engine' \in EngineRecord  BY <1>0, <1>5 DEF ContextSave, EngineRecord
  <2>2. saved' \in Checkpoint  BY <1>0, <1>5, CheckpointsTyped DEF ContextSave, StepEvents
  <2> QED BY <1>0, <1>5, <2>1, <2>2 DEF ContextSave, TypeOK
<1>6. CASE \E text \in Texts : ModelFinal(text)
  <2>1. PICK text \in Texts : ModelFinal(text)  BY <1>6
  <2>2. <<"step.model_output", "step.final_output">> \in Seq(StepEvents)  BY DEF StepEvents
  <2>3. engine' \in EngineRecord
    BY <1>0, <2>1, <2>2 DEF ModelFinal, EngineRecord, MaybeText
  <2> QED BY <1>0, <2>1, <2>3 DEF ModelFinal, TypeOK
<1>7. CASE \E text \in Texts, plan \in Plans : ModelCallsTools(text, plan)
  <2>1. PICK text \in Texts, plan \in Plans : ModelCallsTools(text, plan)  BY <1>7
  <2>2. engine' \in EngineRecord
    BY <1>0, <2>1, PlansTyped DEF ModelCallsTools, EngineRecord, MaybeText
  <2> QED BY <1>0, <2>1, <2>2 DEF ModelCallsTools, TypeOK
<1>8. CASE ModelFails
  <2>1. observed' \in Hint  BY <1>0, <1>8 DEF ModelFails, Hint, EngineRecord, Actions
  <2> QED BY <1>0, <1>8, <2>1, IdleTyped DEF ModelFails, TypeOK
<1>9. CASE \E outcome \in Outcomes : Dispatch(outcome)
  <2>1. PICK outcome \in Outcomes : Dispatch(outcome)  BY <1>9
  <2> DEFINE board == IF outcome = "executed" /\ Head(engine.plan) \in Todos
                      THEN Head(engine.plan) ELSE engine.board
             stop == engine.stop \/ outcome # "executed"
  <2>2. board \in MaybeTodos /\ stop \in BOOLEAN
    BY <1>0 DEF EngineRecord, MaybeTodos
  <2>3. engine' = [engine EXCEPT !.pc = "toolRow", !.outcome = outcome, !.board = board, !.stop = stop]
    BY <2>1 DEF Dispatch
  <2> HIDE DEF board, stop
  <2>4. engine' \in EngineRecord  BY <1>0, <2>2, <2>3 DEF EngineRecord
  <2> QED BY <1>0, <2>1, <2>4 DEF Dispatch, TypeOK
<1>10. CASE AppendToolResult
  <2> DEFINE e == [engine EXCEPT !.results = engine.results + 1]
  <2>0. engine.results + 1 \in Nat  BY <1>0 DEF EngineRecord
  <2>1. e \in EngineRecord /\ e.plan = engine.plan  BY <1>0, <2>0 DEF EngineRecord
  <2>2. engine.plan # << >>  BY <1>0, <1>10 DEF Progress, AppendToolResult
  <2>3. [e EXCEPT !.pc = "todoRow"] \in EngineRecord  BY <2>1 DEF EngineRecord
  <2>4. AfterCall(e) \in EngineRecord  BY <2>1, <2>2, AfterCallEffect
  <2>5. engine' = [e EXCEPT !.pc = "todoRow"] \/ engine' = AfterCall(e)
    BY <1>10 DEF AppendToolResult
  <2>6. log' \in Seq(Row)  BY <1>10, <1>a DEF AppendToolResult, RowTypes
  <2> QED BY <1>0, <1>10, <2>3, <2>4, <2>5, <2>6 DEF AppendToolResult, TypeOK
<1>11. CASE AppendTodoWrite
  <2>1. engine' \in EngineRecord
    BY <1>0, <1>11, AfterCallEffect DEF AppendTodoWrite, Progress
  <2>2. log' \in Seq(Row)  BY <1>11, <1>a DEF AppendTodoWrite, RowTypes
  <2> QED BY <1>0, <1>11, <2>1, <2>2 DEF AppendTodoWrite, TypeOK
<1>12. CASE RecordEvent
  <2>1. engine' \in EngineRecord  BY <1>0, <1>12 DEF RecordEvent, EngineRecord
  <2>2. Head(engine.events) \in StepEvents
    <3>1. engine.events \in Seq(StepEvents) /\ engine.events # << >>
      BY <1>0, <1>12, NonEmpty DEF RecordEvent, EngineRecord, Progress, EventsEnd
    <3> QED BY <3>1, HeadTailProperties
  <2>3. log' \in Seq(Row)  BY <1>12, <2>2, <1>a DEF RecordEvent, RowTypes
  <2> QED BY <1>0, <1>12, <2>1, <2>3 DEF RecordEvent, TypeOK
<1>13. CASE SaveEvent
  <2>1. engine' \in EngineRecord /\ Head(engine.events) \in StepEvents
    BY <1>0, <1>13, SaveEventEffect
  <2>2. saved' \in Checkpoint  BY <1>0, <1>13, <2>1, CheckpointsTyped DEF SaveEvent
  <2> QED BY <1>0, <1>13, <2>1, <2>2 DEF SaveEvent, TypeOK
<1>14. CASE AppendOutput
  <2>1. engine' \in EngineRecord  BY <1>0, <1>14 DEF AppendOutput, EngineRecord
  <2>2. log' \in Seq(Row)  BY <1>14, <1>a DEF AppendOutput, RowTypes
  <2> QED BY <1>0, <1>14, <2>1, <2>2 DEF AppendOutput, TypeOK
<1>15. CASE GeneralSave
  <2>1. engine' \in EngineRecord  BY <1>0, <1>15 DEF GeneralSave, EngineRecord
  <2>2. saved' \in Checkpoint  BY <1>0, <1>15, CheckpointsTyped DEF GeneralSave
  <2> QED BY <1>0, <1>15, <2>1, <2>2 DEF GeneralSave, TypeOK
<1>16. CASE Observe
  <2>1. observed' \in Hint
    BY <1>0, <1>16 DEF Observe, Hint, EngineRecord, Actions, NoHint
  <2> QED BY <1>0, <1>16, <2>1, IdleTyped DEF Observe, TypeOK
<1>17. CASE Crash
  BY <1>0, <1>17, IdleTyped DEF Crash, TypeOK
<1>18. CASE \E todos \in Todos : ExternalTodoWrite(todos)
  <2>1. PICK todos \in Todos : ExternalTodoWrite(todos)  BY <1>18
  <2> DEFINE r == [type |-> "tasks.todo_write", turn |-> NoTurn, step |-> 0,
                   todos |-> todos, text |-> NoText]
  <2>2. r \in Row  BY <1>0 DEF Row, RowTypes, MaybeTurn, MaybeTodos, MaybeText
  <2>3. log' = Append(log, r)  BY <2>1 DEF ExternalTodoWrite
  <2>4. log' \in Seq(Row)
    <3> HIDE DEF r
    <3> QED BY <1>0, <2>2, <2>3, Appended
  <2> QED BY <1>0, <2>1, <2>4 DEF ExternalTodoWrite, TypeOK
<1> QED BY <1>1, <1>2, <1>3, <1>4, <1>5, <1>6, <1>7, <1>8, <1>9, <1>10, <1>11, <1>12,
           <1>13, <1>14, <1>15, <1>16, <1>17, <1>18 DEF Next, EngineStep

-----------------------------------------------------------------------------
(* The step loop and the journal.                                           *)

\* A row that is no step row, or the row of a step to do, is appended.
LEMMA ProgressAppend ==
  ASSUME TypeOK, Progress, NEW r \in Row, log' = Append(log, r), saved' = saved,
         r.type \in StepEvents => r.step < MaxSteps
  PROVE /\ saved'.upto =< Len(log')
        /\ saved'.event # "none" =>
            /\ saved'.upto > 0
            /\ IsEvent(log'[saved'.upto], saved'.event, saved'.turn, saved'.step)
            /\ saved'.turn # NoTurn
        /\ \A i \in 1..Len(log') : log'[i].type \in StepEvents => log'[i].step < MaxSteps
<1>1. /\ Len(log) \in Nat /\ Len(log') = Len(log) + 1 /\ log'[Len(log')] = r
      /\ \A i \in 1..Len(log) : log'[i] = log[i]
      /\ saved.upto \in Nat /\ saved.upto =< Len(log)
  BY Appended DEF TypeOK, Checkpoint, Progress
<1>2. ASSUME NEW i \in 1..Len(log'), log'[i].type \in StepEvents PROVE log'[i].step < MaxSteps
  <2>1. CASE i = Len(log')  BY <1>1, <1>2, <2>1
  <2>2. CASE i \in 1..Len(log)  BY <1>1, <1>2, <2>2 DEF Progress
  <2> QED BY <1>1, <2>1, <2>2
<1>3. ASSUME saved.event # "none"
      PROVE saved.upto > 0 /\ IsEvent(log'[saved.upto], saved.event, saved.turn, saved.step)
            /\ saved.turn # NoTurn
  <2>1. saved.upto \in 1..Len(log)  BY <1>1, <1>3 DEF Progress
  <2> QED BY <1>1, <1>3, <2>1 DEF Progress
<1> QED BY <1>1, <1>2, <1>3

\* Every step keeps the loop, the checkpoint and the rows in agreement.
LEMMA ProgressStep == IInv /\ [Next]_vars => Progress'
<1> SUFFICES ASSUME IInv, [Next]_vars PROVE Progress'  OBVIOUS
<1>0. /\ TypeOK /\ Progress
      /\ engine \in EngineRecord /\ log \in Seq(Row) /\ Len(log) \in Nat
      /\ MaxSteps \in Nat /\ MaxSteps > 0
  BY StepsAssumption, RowsTyped DEF IInv, TypeOK
\* A step that changes neither the journal nor the checkpoint.
<1>a. ASSUME UNCHANGED <<log, saved>>,
             engine'.pc \notin {"contextSave", "record", "recordSave"},
             engine'.pc # "idle" => engine'.turn # NoTurn,
             engine'.pc \in InStep => engine'.step < MaxSteps,
             engine'.pc \in {"tools", "toolRow", "todoRow"} => engine'.plan # << >>
      PROVE Progress'
  BY <1>0, <1>a DEF Progress
\* A step that appends a row.
<1>b. ASSUME NEW r \in Row, log' = Append(log, r), saved' = saved,
             r.type \in StepEvents => r.step < MaxSteps,
             engine'.pc # "idle" => engine'.turn # NoTurn,
             engine'.pc \in InStep => engine'.step < MaxSteps,
             engine'.pc \in {"tools", "toolRow", "todoRow"} => engine'.plan # << >>,
             engine'.pc \in {"record", "recordSave"} => EventsEnd(engine'),
             engine'.pc = "contextSave" => IsEvent(r, "step.context_built", engine'.turn, engine'.step),
             engine'.pc = "recordSave" => IsEvent(r, Head(engine'.events), engine'.turn, engine'.step)
      PROVE Progress'
  <2>1. Len(log') = Len(log) + 1 /\ log'[Len(log')] = r  BY <1>0, <1>b, Appended
  <2>2. /\ saved'.upto =< Len(log')
        /\ saved'.event # "none" =>
            /\ saved'.upto > 0
            /\ IsEvent(log'[saved'.upto], saved'.event, saved'.turn, saved'.step)
            /\ saved'.turn # NoTurn
        /\ \A i \in 1..Len(log') : log'[i].type \in StepEvents => log'[i].step < MaxSteps
    BY <1>0, <1>b, ProgressAppend
  <2>3. engine'.pc = "contextSave" =>
          Len(log') > 0 /\ IsEvent(log'[Len(log')], "step.context_built", engine'.turn, engine'.step)
    BY <1>0, <1>b, <2>1
  <2>4. engine'.pc = "recordSave" =>
          Len(log') > 0 /\ IsEvent(log'[Len(log')], Head(engine'.events), engine'.turn, engine'.step)
    BY <1>0, <1>b, <2>1
  <2> QED BY <1>b, <2>2, <2>3, <2>4 DEF Progress
\* A step that saves the checkpoint of the row before.
<1>c. ASSUME UNCHANGED log, NEW event, saved' = StepCheckpoint(event), Len(log) > 0,
             IsEvent(log[Len(log)], event, engine.turn, engine.step), engine.turn # NoTurn,
             engine'.pc \notin {"contextSave", "recordSave"},
             engine'.pc # "idle" => engine'.turn # NoTurn,
             engine'.pc \in InStep => engine'.step < MaxSteps,
             engine'.pc \in {"tools", "toolRow", "todoRow"} => engine'.plan # << >>,
             engine'.pc = "record" => EventsEnd(engine')
      PROVE Progress'
  <2>1. saved'.upto = Len(log) /\ saved'.event = event /\ saved'.turn = engine.turn
        /\ saved'.step = engine.step
    BY <1>c DEF StepCheckpoint
  <2> QED BY <1>0, <1>c, <2>1 DEF Progress
<1>1. CASE UNCHANGED vars  BY <1>0, <1>1 DEF vars, Progress
<1>2. CASE (\E t \in Turns : Run(t)) \/ Resume
  <2>1. PICK t \in MaybeTurn, hint \in Hint : t # NoTurn /\ RunTurn(t, hint) /\ Startable(t)
    BY <1>2, StartsRun
  <2>2. UNCHANGED <<log, saved>>  BY <1>2, StartsRun
  <2>3. engine' \in EngineRecord
        /\ \/ engine' = Idle
           \/ /\ engine'.turn = t
              /\ \/ engine'.pc = "input" /\ engine'.step = 0
                 \/ engine'.pc = LoopHead(engine'.step)
    BY <2>1, RunTurnBegins
  <2>4. CASE engine' = Idle
    BY <1>a, <2>2, <2>4 DEF Idle, InStep
  <2>5. CASE /\ engine'.turn = t
             /\ (engine'.pc = "input" /\ engine'.step = 0) \/ engine'.pc = LoopHead(engine'.step)
    <3>1. engine'.step \in 0..MaxSteps  BY <2>3 DEF EngineRecord
    <3>2. engine'.pc \in {"input", "context", "output"}
          /\ (engine'.pc \in InStep => engine'.step < MaxSteps)
      BY <1>0, <2>5, <3>1 DEF LoopHead, InStep
    <3> QED BY <1>a, <2>1, <2>2, <2>5, <3>2 DEF InStep
  <2> QED BY <2>3, <2>4, <2>5
<1>3. CASE AppendUserInput
  <2>1. NewRow("user.input") \in Row /\ NewRow("user.input").type = "user.input"
    BY <1>0, NewRowTyped DEF RowTypes, NewRow
  <2>2. engine'.pc = LoopHead(engine.step) /\ engine'.step = engine.step /\ engine'.turn = engine.turn
        /\ engine.turn # NoTurn /\ engine.step \in 0..MaxSteps
    BY <1>0, <1>3 DEF AppendUserInput, EngineRecord, Progress
  <2>3. log' = Append(log, NewRow("user.input")) /\ saved' = saved  BY <1>3 DEF AppendUserInput
  <2>4. engine'.pc \in {"context", "output"} /\ (engine'.pc = "context" => engine'.step < MaxSteps)
    BY <2>2 DEF LoopHead
  <2> QED BY <1>b, <2>1, <2>2, <2>3, <2>4 DEF InStep, StepEvents
<1>4. CASE ContextBuilt
  <2> DEFINE r == NewRow("step.context_built")
  <2>1. r \in Row /\ IsEvent(r, "step.context_built", engine.turn, engine.step)
    BY <1>0, NewRowTyped DEF RowTypes, NewRow, StepEvents, IsEvent
  <2>2. engine'.pc = "contextSave" /\ engine'.step = engine.step /\ engine'.turn = engine.turn
        /\ engine.turn # NoTurn /\ engine.step < MaxSteps
    BY <1>0, <1>4 DEF ContextBuilt, EngineRecord, Progress, InStep
  <2>3. log' = Append(log, r) /\ saved' = saved  BY <1>4 DEF ContextBuilt
  <2> HIDE DEF r
  <2> QED BY <1>b, <2>1, <2>2, <2>3 DEF IsEvent
<1>5. CASE ContextSave
  <2>1. engine'.pc = "model" /\ engine'.step = engine.step /\ engine'.turn = engine.turn
        /\ engine.turn # NoTurn /\ engine.step < MaxSteps
    BY <1>0, <1>5 DEF ContextSave, EngineRecord, Progress, InStep
  <2>2. Len(log) > 0 /\ IsEvent(log[Len(log)], "step.context_built", engine.turn, engine.step)
    BY <1>0, <1>5 DEF ContextSave, Progress
  <2>3. log' = log /\ saved' = StepCheckpoint("step.context_built")  BY <1>5 DEF ContextSave
  <2> QED BY <1>c, <2>1, <2>2, <2>3
<1>6. CASE \E text \in Texts : ModelFinal(text)
  <2>1. PICK text \in Texts : ModelFinal(text)  BY <1>6
  <2>2. /\ engine'.pc = "record" /\ engine'.step = engine.step /\ engine'.turn = engine.turn
        /\ engine'.events = <<"step.model_output", "step.final_output">> /\ engine'.last = TRUE
        /\ engine.turn # NoTurn /\ engine.step < MaxSteps
    BY <1>0, <2>1 DEF ModelFinal, EngineRecord, Progress, InStep
  <2>3. EventsEnd(engine')  BY <2>2 DEF EventsEnd
  <2> QED BY <1>0, <2>1, <2>2, <2>3 DEF ModelFinal, Progress
<1>7. CASE \E text \in Texts, plan \in Plans : ModelCallsTools(text, plan)
  <2>1. PICK text \in Texts, plan \in Plans : ModelCallsTools(text, plan)  BY <1>7
  <2>2. /\ engine'.pc = "tools" /\ engine'.step = engine.step /\ engine'.turn = engine.turn
        /\ engine'.plan = plan /\ engine.turn # NoTurn /\ engine.step < MaxSteps
    BY <1>0, <2>1 DEF ModelCallsTools, EngineRecord, Progress, InStep
  <2> QED BY <1>a, <2>1, <2>2, PlansTyped DEF ModelCallsTools
<1>8. CASE ModelFails
  BY <1>a, <1>8 DEF ModelFails, Idle, InStep
<1>9. CASE \E outcome \in Outcomes : Dispatch(outcome)
  <2>1. PICK outcome \in Outcomes : Dispatch(outcome)  BY <1>9
  <2>2. /\ engine'.pc = "toolRow" /\ engine'.step = engine.step /\ engine'.turn = engine.turn
        /\ engine'.plan = engine.plan /\ engine.turn # NoTurn /\ engine.step < MaxSteps
        /\ engine.plan # << >>
    BY <1>0, <2>1 DEF Dispatch, EngineRecord, Progress, InStep
  <2> QED BY <1>a, <2>1, <2>2 DEF Dispatch
<1>10. CASE AppendToolResult
  <2> DEFINE e == [engine EXCEPT !.results = engine.results + 1]
             r == NewRow("tool.result")
  <2>0. engine.results + 1 \in Nat  BY <1>0 DEF EngineRecord
  <2>1. e \in EngineRecord /\ e.plan = engine.plan /\ e.turn = engine.turn /\ e.step = engine.step
    BY <1>0, <2>0 DEF EngineRecord
  <2>2. engine.plan # << >> /\ engine.turn # NoTurn /\ engine.step < MaxSteps
    BY <1>0, <1>10 DEF Progress, AppendToolResult, InStep
  <2>3. r \in Row /\ r.type = "tool.result"
    BY <1>0, NewRowTyped DEF RowTypes, NewRow
  <2>4. log' = Append(log, r) /\ saved' = saved  BY <1>10 DEF AppendToolResult
  <2>5. engine' = [e EXCEPT !.pc = "todoRow"] \/ engine' = AfterCall(e)
    BY <1>10 DEF AppendToolResult
  <2> HIDE DEF e, r
  <2>6. CASE engine' = [e EXCEPT !.pc = "todoRow"]
    <3>1. engine'.pc = "todoRow" /\ engine'.plan = e.plan /\ engine'.turn = e.turn /\ engine'.step = e.step
      BY <2>1, <2>6 DEF EngineRecord
    <3> QED BY <1>b, <2>1, <2>2, <2>3, <2>4, <3>1 DEF StepEvents
  <2>7. CASE engine' = AfterCall(e)
    BY <1>b, <2>1, <2>2, <2>3, <2>4, <2>7, AfterCallEffect DEF StepEvents
  <2> QED BY <2>5, <2>6, <2>7
<1>11. CASE AppendTodoWrite
  <2> DEFINE r == NewRow("tasks.todo_write")
  <2>1. r \in Row /\ r.type = "tasks.todo_write"
    BY <1>0, NewRowTyped DEF RowTypes, NewRow
  <2>2. engine.plan # << >> /\ engine.turn # NoTurn /\ engine.step < MaxSteps
    BY <1>0, <1>11 DEF Progress, AppendTodoWrite, InStep
  <2>3. log' = Append(log, r) /\ saved' = saved /\ engine' = AfterCall(engine)
    BY <1>11 DEF AppendTodoWrite
  <2> HIDE DEF r
  <2> QED BY <1>0, <1>b, <2>1, <2>2, <2>3, AfterCallEffect DEF StepEvents
<1>12. CASE RecordEvent
  <2> DEFINE r == NewRow(Head(engine.events))
  <2>1. Head(engine.events) \in StepEvents
    <3>1. engine.events \in Seq(StepEvents) /\ engine.events # << >>
      BY <1>0, <1>12, NonEmpty DEF RecordEvent, EngineRecord, Progress, EventsEnd
    <3> QED BY <3>1, HeadTailProperties
  <2>2. r \in Row /\ IsEvent(r, Head(engine.events), engine.turn, engine.step)
    BY <1>0, <2>1, NewRowTyped DEF RowTypes, NewRow, IsEvent
  <2>3. /\ engine'.pc = "recordSave" /\ engine'.step = engine.step /\ engine'.turn = engine.turn
        /\ engine'.events = engine.events /\ engine'.last = engine.last
        /\ engine.turn # NoTurn /\ engine.step < MaxSteps /\ EventsEnd(engine)
    BY <1>0, <1>12 DEF RecordEvent, EngineRecord, Progress, InStep
  <2>4. EventsEnd(engine')  BY <2>3 DEF EventsEnd
  <2>5. log' = Append(log, r) /\ saved' = saved  BY <1>12 DEF RecordEvent
  <2> HIDE DEF r
  <2> QED BY <1>b, <2>2, <2>3, <2>4, <2>5 DEF IsEvent
<1>13. CASE SaveEvent
  <2>1. /\ Len(log) > 0 /\ engine.turn # NoTurn /\ engine.step < MaxSteps
        /\ IsEvent(log[Len(log)], Head(engine.events), engine.turn, engine.step)
    BY <1>0, <1>13 DEF SaveEvent, Progress, InStep
  <2>2. log' = log /\ saved' = StepCheckpoint(Head(engine.events))  BY <1>13 DEF SaveEvent
  <2>3. /\ engine'.turn = engine.turn
        /\ \/ engine'.pc = "record" /\ engine'.step = engine.step /\ EventsEnd(engine')
           \/ engine'.pc = "output"
           \/ engine'.pc = LoopHead(engine'.step) /\ engine'.step \in 0..MaxSteps
    BY <1>0, <1>13, SaveEventEffect
  <2>4. engine'.pc \in {"record", "output", "context"}
        /\ (engine'.pc = "record" => EventsEnd(engine'))
        /\ (engine'.pc \in InStep => engine'.step < MaxSteps)
    BY <2>1, <2>3 DEF InStep, LoopHead
  <2> QED BY <1>c, <2>1, <2>2, <2>3, <2>4
<1>14. CASE AppendOutput
  <2> DEFINE r == NewRow("assistant.output")
  <2>1. r \in Row /\ r.type = "assistant.output"
    BY <1>0, NewRowTyped DEF RowTypes, NewRow
  <2>2. engine'.pc = "general" /\ engine'.turn = engine.turn /\ engine.turn # NoTurn
    BY <1>0, <1>14 DEF AppendOutput, EngineRecord, Progress
  <2>3. log' = Append(log, r) /\ saved' = saved  BY <1>14 DEF AppendOutput
  <2> HIDE DEF r
  <2> QED BY <1>b, <2>1, <2>2, <2>3 DEF InStep, StepEvents
<1>15. CASE GeneralSave
  <2>1. engine'.pc = "observe" /\ engine'.turn = engine.turn /\ engine.turn # NoTurn
    BY <1>0, <1>15 DEF GeneralSave, EngineRecord, Progress
  <2>2. saved'.upto = Len(log) /\ saved'.event = "none" /\ log' = log
    BY <1>15 DEF GeneralSave, GeneralCheckpoint
  <2> QED BY <1>0, <2>1, <2>2 DEF Progress, InStep
<1>16. CASE Observe
  BY <1>a, <1>16 DEF Observe, Idle, InStep
<1>17. CASE Crash
  BY <1>a, <1>17 DEF Crash, Idle, InStep
<1>18. CASE \E todos \in Todos : ExternalTodoWrite(todos)
  <2>1. PICK todos \in Todos : ExternalTodoWrite(todos)  BY <1>18
  <2> DEFINE r == [type |-> "tasks.todo_write", turn |-> NoTurn, step |-> 0,
                   todos |-> todos, text |-> NoText]
  <2>2. r \in Row /\ r.type = "tasks.todo_write"
    BY <1>0 DEF Row, RowTypes, MaybeTurn, MaybeTodos, MaybeText
  <2>3. log' = Append(log, r) /\ saved' = saved /\ engine' = engine /\ engine.pc = "idle"
    BY <2>1 DEF ExternalTodoWrite
  <2> HIDE DEF r
  <2> QED BY <1>b, <2>2, <2>3 DEF InStep, StepEvents
<1> QED BY <1>1, <1>2, <1>3, <1>4, <1>5, <1>6, <1>7, <1>8, <1>9, <1>10, <1>11, <1>12,
           <1>13, <1>14, <1>15, <1>16, <1>17, <1>18 DEF Next, EngineStep

-----------------------------------------------------------------------------
(* The todo list.                                                           *)

\* A row leaves the last todo list as it is, or is the last todo list.
LEMMA ListsAppend ==
  ASSUME log \in Seq(Row), NEW r \in Row, log' = Append(log, r)
  PROVE /\ \A k \in 0..Len(log) : \A v : LastList(log, k, v) => LastList(log', k, v)
        /\ r.type # "tasks.todo_write" =>
             \A v : LastList(log, Len(log), v) => LastList(log', Len(log'), v)
        /\ r.type = "tasks.todo_write" => LastList(log', Len(log'), r.todos)
<1>1. /\ Len(log) \in Nat /\ Len(log') = Len(log) + 1 /\ log'[Len(log')] = r
      /\ \A i \in 1..Len(log) : log'[i] = log[i]
  BY Appended
<1>2. ASSUME NEW k \in 0..Len(log), NEW v, LastList(log, k, v) PROVE LastList(log', k, v)
  <2>1. \A i \in 1..k : log'[i] = log[i]  BY <1>1
  <2>2. \A i \in 1..k : \A j \in (i + 1)..k : log'[j] = log[j]  BY <1>1
  <2> QED BY <1>2, <2>1, <2>2 DEF LastList
<1>3. ASSUME r.type # "tasks.todo_write", NEW v, LastList(log, Len(log), v)
      PROVE LastList(log', Len(log'), v)
  <2>1. \A i \in 1..Len(log') : i \in 1..Len(log) \/ log'[i] = r  BY <1>1
  <2>2. CASE v = NoTodos /\ \A i \in 1..Len(log) : log[i].type # "tasks.todo_write"
    BY <1>1, <1>3, <2>1, <2>2 DEF LastList
  <2>3. CASE \E i \in 1..Len(log) :
               /\ log[i].type = "tasks.todo_write" /\ log[i].todos = v
               /\ \A j \in (i + 1)..Len(log) : log[j].type # "tasks.todo_write"
    <3>1. PICK i \in 1..Len(log) :
            /\ log[i].type = "tasks.todo_write" /\ log[i].todos = v
            /\ \A j \in (i + 1)..Len(log) : log[j].type # "tasks.todo_write"
      BY <2>3
    <3>2. i \in 1..Len(log') /\ log'[i].type = "tasks.todo_write" /\ log'[i].todos = v
      BY <1>1, <3>1
    <3>3. ASSUME NEW j \in (i + 1)..Len(log') PROVE log'[j].type # "tasks.todo_write"
      <4>1. CASE j \in (i + 1)..Len(log)
        <5>1. log'[j] = log[j]  BY <1>1, <4>1
        <5> QED BY <3>1, <4>1, <5>1
      <4>2. CASE j = Len(log')  BY <1>1, <1>3, <4>2
      <4> QED BY <1>1, <4>1, <4>2
    <3> QED BY <3>2, <3>3 DEF LastList
  <2> QED BY <1>3, <2>2, <2>3 DEF LastList
<1>4. ASSUME r.type = "tasks.todo_write" PROVE LastList(log', Len(log'), r.todos)
  <2>1. Len(log') \in 1..Len(log') /\ (Len(log') + 1)..Len(log') = {}  BY <1>1
  <2> QED BY <1>1, <1>4, <2>1 DEF LastList
<1> QED BY <1>2, <1>3, <1>4

\* Every step keeps the todo list recoverable.
LEMMA ListsStep == IInv /\ [Next]_vars => ListsKept'
<1> SUFFICES ASSUME IInv, [Next]_vars PROVE ListsKept'  OBVIOUS
<1>0. /\ TypeOK /\ Progress /\ ListsKept
      /\ engine \in EngineRecord /\ log \in Seq(Row) /\ saved.upto \in 0..Len(log)
      /\ LastList(log, saved.upto, saved.todos)
  BY RowsTyped DEF IInv, TypeOK, Checkpoint, Progress, ListsKept
\* A step that leaves the journal, the checkpoint and the board as they are.
<1>a. ASSUME UNCHANGED <<log, saved>>, engine.pc \notin {"idle", "toolRow", "todoRow"},
             engine'.pc = "idle" \/ engine'.board = engine.board
      PROVE ListsKept'
  BY <1>0, <1>a DEF ListsKept
\* A step that appends a row but that of a todo list.
<1>b. ASSUME NEW r \in Row, log' = Append(log, r), saved' = saved, r.type # "tasks.todo_write",
             engine'.pc = "todoRow" \/ (LastList(log, Len(log), engine.board) /\ engine'.board = engine.board)
      PROVE ListsKept'
  BY <1>0, <1>b, ListsAppend DEF ListsKept
\* A step that saves a checkpoint.
<1>c. ASSUME UNCHANGED log, saved'.upto = Len(log), saved'.todos = engine.board,
             LastList(log, Len(log), engine.board), engine'.board = engine.board
      PROVE ListsKept'
  BY <1>0, <1>c DEF ListsKept
<1>1. CASE UNCHANGED vars  BY <1>0, <1>1 DEF vars, ListsKept
<1>2. CASE (\E t \in Turns : Run(t)) \/ Resume
  <2>1. PICK t \in MaybeTurn, hint \in Hint : t # NoTurn /\ RunTurn(t, hint) /\ Startable(t)
    BY <1>2, StartsRun
  <2>2. UNCHANGED <<log, saved>>  BY <1>2, StartsRun
  <2>3. engine' = Idle \/ engine'.board = RecoveredTodos  BY <2>1, RunTurnBegins
  <2>4. LastList(log, Len(log), RecoveredTodos)  BY <1>0, RecoveredIsLast
  <2> QED BY <1>0, <2>2, <2>3, <2>4 DEF ListsKept, Idle
<1>3. CASE AppendUserInput
  <2>1. NewRow("user.input") \in Row /\ NewRow("user.input").type = "user.input"
    BY <1>0, NewRowTyped DEF RowTypes, NewRow
  <2>2. engine'.board = engine.board /\ LastList(log, Len(log), engine.board)
    BY <1>0, <1>3 DEF AppendUserInput, EngineRecord, ListsKept
  <2> QED BY <1>b, <1>3, <2>1, <2>2 DEF AppendUserInput
<1>4. CASE ContextBuilt
  <2>1. NewRow("step.context_built") \in Row /\ NewRow("step.context_built").type = "step.context_built"
    BY <1>0, NewRowTyped DEF RowTypes, StepEvents, NewRow
  <2>2. engine'.board = engine.board /\ LastList(log, Len(log), engine.board)
    BY <1>0, <1>4 DEF ContextBuilt, EngineRecord, ListsKept
  <2> QED BY <1>b, <1>4, <2>1, <2>2 DEF ContextBuilt
<1>5. CASE ContextSave
  <2>1. engine'.board = engine.board /\ LastList(log, Len(log), engine.board)
    BY <1>0, <1>5 DEF ContextSave, EngineRecord, ListsKept
  <2> QED BY <1>c, <1>5, <2>1 DEF ContextSave, StepCheckpoint
<1>6. CASE \E text \in Texts : ModelFinal(text)
  BY <1>0, <1>a, <1>6 DEF ModelFinal, EngineRecord
<1>7. CASE \E text \in Texts, plan \in Plans : ModelCallsTools(text, plan)
  BY <1>0, <1>a, <1>7 DEF ModelCallsTools, EngineRecord
<1>8. CASE ModelFails
  BY <1>a, <1>8 DEF ModelFails, Idle
<1>9. CASE \E outcome \in Outcomes : Dispatch(outcome)
  <2>1. PICK outcome \in Outcomes : Dispatch(outcome)  BY <1>9
  <2>2. /\ engine'.pc = "toolRow" /\ engine'.outcome = outcome /\ engine'.plan = engine.plan
        /\ LastList(log, Len(log), engine.board) /\ UNCHANGED <<log, saved>>
        /\ engine'.board = IF outcome = "executed" /\ Head(engine.plan) \in Todos
                           THEN Head(engine.plan) ELSE engine.board
    BY <1>0, <2>1 DEF Dispatch, EngineRecord, ListsKept
  <2> QED BY <1>0, <2>2 DEF ListsKept
<1>10. CASE AppendToolResult
  <2> DEFINE e == [engine EXCEPT !.results = engine.results + 1]
             r == NewRow("tool.result")
  <2>0. engine.results + 1 \in Nat  BY <1>0 DEF EngineRecord
  <2>1. e \in EngineRecord /\ e.plan = engine.plan /\ e.board = engine.board
    BY <1>0, <2>0 DEF EngineRecord
  <2>2. engine.plan # << >> /\ engine.pc = "toolRow"  BY <1>0, <1>10 DEF Progress, AppendToolResult
  <2>3. r \in Row /\ r.type = "tool.result"  BY <1>0, NewRowTyped DEF RowTypes, NewRow
  <2>4. log' = Append(log, r) /\ saved' = saved  BY <1>10 DEF AppendToolResult
  <2>5. \/ engine' = [e EXCEPT !.pc = "todoRow"]
        \/ ~(engine.outcome = "executed" /\ Head(engine.plan) \in Todos) /\ engine' = AfterCall(e)
    BY <1>10 DEF AppendToolResult
  <2> HIDE DEF e, r
  <2>6. CASE engine' = [e EXCEPT !.pc = "todoRow"]
    <3>1. engine'.pc = "todoRow"  BY <2>1, <2>6 DEF EngineRecord
    <3> QED BY <1>b, <2>3, <2>4, <3>1
  <2>7. CASE ~(engine.outcome = "executed" /\ Head(engine.plan) \in Todos) /\ engine' = AfterCall(e)
    <3>1. LastList(log, Len(log), engine.board)  BY <1>0, <2>2, <2>7 DEF ListsKept
    <3>2. engine'.board = engine.board  BY <2>1, <2>2, <2>7, AfterCallEffect
    <3> QED BY <1>b, <2>3, <2>4, <3>1, <3>2
  <2> QED BY <2>5, <2>6, <2>7
<1>11. CASE AppendTodoWrite
  <2> DEFINE r == NewRow("tasks.todo_write")
  <2>1. r \in Row /\ r.type = "tasks.todo_write" /\ r.todos = engine.board
    BY <1>0, NewRowTyped DEF RowTypes, NewRow
  <2>2. engine'.board = engine.board
    BY <1>0, <1>11, AfterCallEffect DEF AppendTodoWrite, Progress
  <2>3. log' = Append(log, r) /\ saved' = saved  BY <1>11 DEF AppendTodoWrite
  <2> HIDE DEF r
  <2> QED BY <1>0, <2>1, <2>2, <2>3, ListsAppend DEF ListsKept
<1>12. CASE RecordEvent
  <2> DEFINE r == NewRow(Head(engine.events))
  <2>1. Head(engine.events) \in StepEvents
    <3>1. engine.events \in Seq(StepEvents) /\ engine.events # << >>
      BY <1>0, <1>12, NonEmpty DEF RecordEvent, EngineRecord, Progress, EventsEnd
    <3> QED BY <3>1, HeadTailProperties
  <2>2. r \in Row /\ r.type # "tasks.todo_write"
    BY <1>0, <2>1, NewRowTyped DEF RowTypes, NewRow, StepEvents
  <2>3. engine'.board = engine.board /\ LastList(log, Len(log), engine.board)
    BY <1>0, <1>12 DEF RecordEvent, EngineRecord, ListsKept
  <2>4. log' = Append(log, r) /\ saved' = saved  BY <1>12 DEF RecordEvent
  <2> HIDE DEF r
  <2> QED BY <1>b, <2>2, <2>3, <2>4
<1>13. CASE SaveEvent
  <2>1. engine'.board = engine.board  BY <1>0, <1>13, SaveEventEffect
  <2>2. LastList(log, Len(log), engine.board)  BY <1>0, <1>13 DEF SaveEvent, ListsKept
  <2> QED BY <1>c, <1>13, <2>1, <2>2 DEF SaveEvent, StepCheckpoint
<1>14. CASE AppendOutput
  <2>1. NewRow("assistant.output") \in Row /\ NewRow("assistant.output").type = "assistant.output"
    BY <1>0, NewRowTyped DEF RowTypes, NewRow
  <2>2. engine'.board = engine.board /\ LastList(log, Len(log), engine.board)
    BY <1>0, <1>14 DEF AppendOutput, EngineRecord, ListsKept
  <2> QED BY <1>b, <1>14, <2>1, <2>2 DEF AppendOutput
<1>15. CASE GeneralSave
  <2>1. engine'.board = engine.board /\ LastList(log, Len(log), engine.board)
    BY <1>0, <1>15 DEF GeneralSave, EngineRecord, ListsKept
  <2> QED BY <1>c, <1>15, <2>1 DEF GeneralSave, GeneralCheckpoint
<1>16. CASE Observe
  BY <1>a, <1>16 DEF Observe, Idle
<1>17. CASE Crash
  BY <1>0, <1>17 DEF Crash, Idle, ListsKept
<1>18. CASE \E todos \in Todos : ExternalTodoWrite(todos)
  <2>1. PICK todos \in Todos : ExternalTodoWrite(todos)  BY <1>18
  <2> DEFINE r == [type |-> "tasks.todo_write", turn |-> NoTurn, step |-> 0,
                   todos |-> todos, text |-> NoText]
  <2>2. r \in Row
    BY StepsAssumption DEF Row, RowTypes, MaybeTurn, MaybeTodos, MaybeText
  <2>3. log' = Append(log, r) /\ saved' = saved /\ engine' = engine /\ engine.pc = "idle"
    BY <2>1 DEF ExternalTodoWrite
  <2> HIDE DEF r
  <2> QED BY <1>0, <2>2, <2>3, ListsAppend DEF ListsKept
<1> QED BY <1>1, <1>2, <1>3, <1>4, <1>5, <1>6, <1>7, <1>8, <1>9, <1>10, <1>11, <1>12,
           <1>13, <1>14, <1>15, <1>16, <1>17, <1>18 DEF Next, EngineStep

-----------------------------------------------------------------------------
(* The steps.                                                               *)

\* What the steps of Next do, as far as steps and rows tell them apart.
StaysAtStep == engine'.turn = engine.turn /\ engine'.step = engine.step

Ends == engine' = Idle /\ UNCHANGED <<log, saved>>

GoesOn ==
    /\ UNCHANGED <<log, saved>>
    /\ engine.pc \in {"model", "tools"}
    /\ StaysAtStep
    /\ \/ engine'.pc \in {"tools", "toolRow"}
       \/ engine'.pc = "record" /\ Head(engine'.events) = "step.model_output"

AppendsOther(r) ==
    /\ log' = Append(log, r) /\ saved' = saved
    /\ r.type \in {"user.input", "tool.result", "tasks.todo_write"}
    /\ \/ engine.pc = "idle" /\ engine' = engine /\ r.turn = NoTurn
       \/ /\ engine.pc \in {"input", "toolRow", "todoRow"}
          /\ r.turn = engine.turn
          /\ StaysAtStep
          /\ \/ engine'.pc \in {"context", "tools", "todoRow"}
             \/ engine'.pc = "record" /\ Head(engine'.events) = "step.model_output"

AppendsEvent(r) ==
    /\ log' = Append(log, r) /\ saved' = saved
    /\ r.turn = engine.turn /\ r.step = engine.step /\ r.type \in StepEvents
    /\ StaysAtStep
    /\ engine'.text = engine.text
    /\ \/ /\ engine.pc = "context" /\ r.type = "step.context_built"
          /\ engine'.pc = "contextSave"
       \/ /\ engine.pc = "record" /\ r.type = Head(engine.events)
          /\ engine'.pc = "recordSave" /\ engine'.events = engine.events
          /\ r.type = "step.final_output" => r.text = engine.text

SavesContext ==
    /\ engine.pc = "contextSave" /\ engine'.pc = "model"
    /\ log' = log /\ saved' = StepCheckpoint("step.context_built")
    /\ StaysAtStep

AppendsAnswer(r) ==
    /\ log' = Append(log, r) /\ saved' = saved
    /\ engine.pc = "output" /\ engine'.pc = "general"
    /\ r.type = "assistant.output" /\ r.turn = engine.turn /\ r.text = engine.text
    /\ StaysAtStep

SavesTurn ==
    /\ engine.pc = "general" /\ engine'.pc = "observe"
    /\ log' = log /\ saved' = GeneralCheckpoint
    /\ StaysAtStep

\* Every step of Next is of one of these kinds.
LEMMA Kinds ==
  ASSUME IInv, [Next]_vars
  PROVE \/ UNCHANGED vars
        \/ (\E t \in Turns : Run(t)) \/ Resume
        \/ Ends
        \/ GoesOn
        \/ \E r \in Row : AppendsOther(r)
        \/ \E r \in Row : AppendsEvent(r)
        \/ SavesContext
        \/ SaveEvent
        \/ \E r \in Row : AppendsAnswer(r)
        \/ SavesTurn
<1>0. /\ TypeOK /\ Progress
      /\ engine \in EngineRecord /\ log \in Seq(Row) /\ MaxSteps \in Nat /\ MaxSteps > 0
  BY StepsAssumption DEF IInv, TypeOK
<1>1. CASE AppendUserInput
  <2>1. NewRow("user.input") \in Row /\ NewRow("user.input").type = "user.input"
        /\ NewRow("user.input").turn = engine.turn
    BY <1>0, NewRowTyped DEF RowTypes, NewRow
  <2>2. engine'.pc = LoopHead(engine.step) /\ engine'.turn = engine.turn /\ engine'.step = engine.step
        /\ engine.pc = "input"
    BY <1>0, <1>1 DEF AppendUserInput, EngineRecord
  <2>3. engine'.pc = "context"  BY <1>0, <2>2 DEF LoopHead, Progress, InStep
  <2>4. AppendsOther(NewRow("user.input"))
    BY <1>1, <2>1, <2>2, <2>3 DEF AppendUserInput, AppendsOther, StaysAtStep
  <2> QED BY <2>1, <2>4
<1>2. CASE ContextBuilt
  <2>1. /\ NewRow("step.context_built") \in Row
        /\ NewRow("step.context_built").type = "step.context_built"
        /\ NewRow("step.context_built").turn = engine.turn
        /\ NewRow("step.context_built").step = engine.step
    BY <1>0, NewRowTyped DEF RowTypes, StepEvents, NewRow
  <2>2. engine'.pc = "contextSave" /\ engine'.turn = engine.turn /\ engine'.step = engine.step
        /\ engine'.text = engine.text /\ engine.pc = "context"
    BY <1>0, <1>2 DEF ContextBuilt, EngineRecord
  <2>3. AppendsEvent(NewRow("step.context_built"))
    BY <1>2, <2>1, <2>2 DEF ContextBuilt, StepEvents, AppendsEvent, StaysAtStep
  <2> QED BY <2>1, <2>3
<1>3. CASE ContextSave
  BY <1>0, <1>3 DEF ContextSave, EngineRecord, SavesContext, StaysAtStep
<1>4. CASE \E text \in Texts : ModelFinal(text)
  <2>1. PICK text \in Texts : ModelFinal(text)  BY <1>4
  <2>2. /\ engine'.pc = "record" /\ engine'.step = engine.step /\ engine'.turn = engine.turn
        /\ engine'.events = <<"step.model_output", "step.final_output">>
        /\ engine.pc = "model" /\ UNCHANGED <<log, saved>>
    BY <1>0, <2>1 DEF ModelFinal, EngineRecord
  <2>3. Head(engine'.events) = "step.model_output"  BY <2>2
  <2> QED BY <2>2, <2>3 DEF GoesOn, StaysAtStep
<1>5. CASE \E text \in Texts, plan \in Plans : ModelCallsTools(text, plan)
  BY <1>0, <1>5 DEF ModelCallsTools, EngineRecord, GoesOn, StaysAtStep
<1>6. CASE ModelFails  BY <1>6 DEF ModelFails, Ends
<1>7. CASE \E outcome \in Outcomes : Dispatch(outcome)
  BY <1>0, <1>7 DEF Dispatch, EngineRecord, GoesOn, StaysAtStep
<1>8. CASE AppendToolResult
  <2> DEFINE e == [engine EXCEPT !.results = engine.results + 1]
             r == NewRow("tool.result")
  <2>0. engine.results + 1 \in Nat  BY <1>0 DEF EngineRecord
  <2>1. e \in EngineRecord /\ e.plan = engine.plan /\ e.turn = engine.turn /\ e.step = engine.step
    BY <1>0, <2>0 DEF EngineRecord
  <2>2. engine.plan # << >> /\ engine.pc = "toolRow"  BY <1>0, <1>8 DEF Progress, AppendToolResult
  <2>3. r \in Row /\ r.type = "tool.result" /\ r.turn = engine.turn
    BY <1>0, NewRowTyped DEF RowTypes, NewRow
  <2>4. log' = Append(log, r) /\ saved' = saved  BY <1>8 DEF AppendToolResult
  <2>5. engine' = [e EXCEPT !.pc = "todoRow"] \/ engine' = AfterCall(e)
    BY <1>8 DEF AppendToolResult
  <2> HIDE DEF e, r
  <2>6. /\ engine'.turn = engine.turn /\ engine'.step = engine.step
        /\ \/ engine'.pc \in {"tools", "todoRow"}
           \/ engine'.pc = "record" /\ Head(engine'.events) = "step.model_output"
    <3>1. CASE engine' = [e EXCEPT !.pc = "todoRow"]
      BY <2>1, <3>1 DEF EngineRecord
    <3>2. CASE engine' = AfterCall(e)
      BY <2>1, <2>2, <3>2, AfterCallEffect
    <3> QED BY <2>5, <3>1, <3>2
  <2>7. AppendsOther(r)  BY <2>2, <2>3, <2>4, <2>6 DEF AppendsOther, StaysAtStep
  <2> QED BY <2>3, <2>7
<1>9. CASE AppendTodoWrite
  <2> DEFINE r == NewRow("tasks.todo_write")
  <2>1. r \in Row /\ r.type = "tasks.todo_write" /\ r.turn = engine.turn
    BY <1>0, NewRowTyped DEF RowTypes, NewRow
  <2>2. engine.plan # << >> /\ engine.pc = "todoRow"  BY <1>0, <1>9 DEF Progress, AppendTodoWrite
  <2>3. log' = Append(log, r) /\ saved' = saved /\ engine' = AfterCall(engine)
    BY <1>9 DEF AppendTodoWrite
  <2> HIDE DEF r
  <2>4. /\ engine'.turn = engine.turn /\ engine'.step = engine.step
        /\ \/ engine'.pc \in {"tools", "todoRow"}
           \/ engine'.pc = "record" /\ Head(engine'.events) = "step.model_output"
    BY <1>0, <2>2, <2>3, AfterCallEffect
  <2>5. AppendsOther(r)  BY <2>1, <2>2, <2>3, <2>4 DEF AppendsOther, StaysAtStep
  <2> QED BY <2>1, <2>5
<1>10. CASE RecordEvent
  <2> DEFINE r == NewRow(Head(engine.events))
  <2>1. Head(engine.events) \in StepEvents
    <3>1. engine.events \in Seq(StepEvents) /\ engine.events # << >>
      BY <1>0, <1>10, NonEmpty DEF RecordEvent, EngineRecord, Progress, EventsEnd
    <3> QED BY <3>1, HeadTailProperties
  <2>2. r \in Row /\ r.turn = engine.turn /\ r.step = engine.step /\ r.type = Head(engine.events)
        /\ (r.type = "step.final_output" => r.text = engine.text)
    BY <1>0, <2>1, NewRowTyped DEF RowTypes, NewRow
  <2>3. /\ engine'.pc = "recordSave" /\ engine'.step = engine.step /\ engine'.turn = engine.turn
        /\ engine'.events = engine.events /\ engine'.text = engine.text /\ engine.pc = "record"
    BY <1>0, <1>10 DEF RecordEvent, EngineRecord
  <2>4. log' = Append(log, r) /\ saved' = saved  BY <1>10 DEF RecordEvent
  <2> HIDE DEF r
  <2>5. AppendsEvent(r)  BY <2>1, <2>2, <2>3, <2>4 DEF AppendsEvent, StaysAtStep
  <2> QED BY <2>2, <2>5
<1>11. CASE AppendOutput
  <2> DEFINE r == NewRow("assistant.output")
  <2>1. r \in Row /\ r.type = "assistant.output" /\ r.turn = engine.turn /\ r.text = engine.text
    BY <1>0, NewRowTyped DEF RowTypes, NewRow
  <2>2. /\ engine.pc = "output" /\ engine'.pc = "general"
        /\ engine'.turn = engine.turn /\ engine'.step = engine.step
        /\ log' = Append(log, r) /\ saved' = saved
    BY <1>0, <1>11 DEF AppendOutput, EngineRecord
  <2> HIDE DEF r
  <2>3. AppendsAnswer(r)  BY <2>1, <2>2 DEF AppendsAnswer, StaysAtStep
  <2> QED BY <2>1, <2>3
<1>12. CASE GeneralSave
  BY <1>0, <1>12 DEF GeneralSave, EngineRecord, SavesTurn, StaysAtStep
<1>13. CASE Observe  BY <1>13 DEF Observe, Ends
<1>14. CASE Crash  BY <1>14 DEF Crash, Ends
<1>15. CASE \E todos \in Todos : ExternalTodoWrite(todos)
  <2>1. PICK todos \in Todos : ExternalTodoWrite(todos)  BY <1>15
  <2> DEFINE r == [type |-> "tasks.todo_write", turn |-> NoTurn, step |-> 0,
                   todos |-> todos, text |-> NoText]
  <2>2. r \in Row /\ r.type = "tasks.todo_write" /\ r.turn = NoTurn
    BY <1>0 DEF Row, RowTypes, MaybeTurn, MaybeTodos, MaybeText
  <2>3. log' = Append(log, r) /\ saved' = saved /\ engine' = engine /\ engine.pc = "idle"
    BY <2>1 DEF ExternalTodoWrite
  <2> HIDE DEF r
  <2>4. AppendsOther(r)  BY <2>2, <2>3 DEF AppendsOther
  <2> QED BY <2>2, <2>4
<1> QED BY <1>1, <1>2, <1>3, <1>4, <1>5, <1>6, <1>7, <1>8, <1>9, <1>10, <1>11, <1>12,
           <1>13, <1>14, <1>15 DEF Next, EngineStep

\* A step row is appended by an engine whose step before is recorded.
LEMMA StepsAppend ==
  ASSUME TypeOK, StepsDone, NEW r \in Row, log' = Append(log, r),
         r.type \in StepEvents => StepBefore(log, Len(log), r.turn, r.step)
  PROVE /\ \A t, step : StepBefore(log, Len(log), t, step) => StepBefore(log', Len(log'), t, step)
        /\ \A i \in 1..Len(log') : log'[i].type \in StepEvents =>
             StepBefore(log', i - 1, log'[i].turn, log'[i].step)
<1>1. /\ Len(log) \in Nat /\ Len(log') = Len(log) + 1 /\ log'[Len(log')] = r
      /\ \A i \in 1..Len(log) : log'[i] = log[i]
  BY Appended DEF TypeOK
<1>2. ASSUME NEW k \in 0..Len(log), NEW t, NEW step, StepBefore(log, k, t, step)
      PROVE StepBefore(log', k, t, step)
  <2>1. \A j \in 1..k : log'[j] = log[j]  BY <1>1
  <2> QED BY <1>2, <2>1 DEF StepBefore, IsEvent
<1>3. ASSUME NEW t, NEW step, StepBefore(log, Len(log), t, step)
      PROVE StepBefore(log', Len(log'), t, step)
  <2>1. StepBefore(log', Len(log), t, step)  BY <1>1, <1>2, <1>3
  <2> QED BY <1>1, <2>1 DEF StepBefore
<1>4. ASSUME NEW i \in 1..Len(log'), log'[i].type \in StepEvents
      PROVE StepBefore(log', i - 1, log'[i].turn, log'[i].step)
  <2>1. CASE i \in 1..Len(log)
    <3>1. log'[i] = log[i] /\ i - 1 \in 0..Len(log)  BY <1>1, <2>1
    <3>2. StepBefore(log, i - 1, log[i].turn, log[i].step)  BY <1>4, <2>1, <3>1 DEF StepsDone
    <3> QED BY <1>2, <3>1, <3>2
  <2>2. CASE i = Len(log')
    <3>1. log'[i] = r /\ i - 1 = Len(log)  BY <1>1, <2>2
    <3>2. StepBefore(log, Len(log), r.turn, r.step)  BY <1>4, <3>1
    <3>3. Len(log) \in 0..Len(log)  BY <1>1
    <3> QED BY <1>2, <3>1, <3>2, <3>3
  <2> QED BY <1>1, <2>1, <2>2
<1> QED BY <1>3, <1>4

\* Every step keeps the steps of a turn contiguous.
LEMMA StepsStep == IInv /\ [Next]_vars => StepsDone'
<1> SUFFICES ASSUME IInv, [Next]_vars PROVE StepsDone'  OBVIOUS
<1>0. TypeOK /\ Progress /\ StepsDone /\ Len(log) \in Nat  BY RowsTyped DEF IInv
<1>a. ASSUME log' = log, engine'.pc = "idle" \/ (StaysAtStep /\ engine.pc # "idle") PROVE StepsDone'
  BY <1>0, <1>a DEF StepsDone, StaysAtStep
<1>b. ASSUME NEW r \in Row, log' = Append(log, r),
             r.type \in StepEvents => StepBefore(log, Len(log), r.turn, r.step),
             engine'.pc = "idle" \/ (StaysAtStep /\ engine.pc # "idle")
      PROVE StepsDone'
  <2>1. /\ \A t, step : StepBefore(log, Len(log), t, step) => StepBefore(log', Len(log'), t, step)
        /\ \A i \in 1..Len(log') : log'[i].type \in StepEvents =>
             StepBefore(log', i - 1, log'[i].turn, log'[i].step)
    BY <1>0, <1>b, StepsAppend
  <2> QED BY <1>0, <1>b, <2>1 DEF StepsDone, StaysAtStep
<1>1. CASE UNCHANGED vars  BY <1>0, <1>1 DEF vars, StepsDone
<1>2. CASE (\E t \in Turns : Run(t)) \/ Resume
  <2>1. PICK t \in MaybeTurn, hint \in Hint : t # NoTurn /\ RunTurn(t, hint) /\ Startable(t)
    BY <1>2, StartsRun
  <2>2. log' = log  BY <1>2, StartsRun
  <2>3. engine' = Idle \/ (engine'.turn = t /\ StepBefore(log, Len(log), t, engine'.step))
    BY <2>1, RunTurnBegins
  <2> QED BY <1>0, <2>2, <2>3 DEF StepsDone, Idle
<1>3. CASE Ends  BY <1>a, <1>3 DEF Ends, Idle
<1>4. CASE GoesOn  BY <1>a, <1>4 DEF GoesOn
<1>5. CASE \E r \in Row : AppendsOther(r)
  BY <1>b, <1>5 DEF AppendsOther, StepEvents
<1>6. CASE \E r \in Row : AppendsEvent(r)
  <2>1. PICK r \in Row : AppendsEvent(r)  BY <1>6
  <2>2. engine.pc # "idle" /\ r.turn = engine.turn /\ r.step = engine.step
    BY <2>1 DEF AppendsEvent
  <2>3. StepBefore(log, Len(log), r.turn, r.step)  BY <1>0, <2>2 DEF StepsDone
  <2> QED BY <1>b, <2>1, <2>2, <2>3 DEF AppendsEvent
<1>7. CASE SavesContext  BY <1>a, <1>7 DEF SavesContext
<1>8. CASE SaveEvent
  <2>1. log' = log /\ engine.pc = "recordSave"  BY <1>8 DEF SaveEvent
  <2>2. /\ engine'.turn = engine.turn
        /\ \/ engine'.step = engine.step
           \/ engine'.step = engine.step + 1 /\ Head(engine.events) = "step.tool_result"
    BY <1>0, <1>8, SaveEventEffect
  <2>3. CASE engine'.step = engine.step
    BY <1>a, <2>1, <2>2, <2>3 DEF StaysAtStep
  <2>4. CASE engine'.step = engine.step + 1 /\ Head(engine.events) = "step.tool_result"
    <3>1. Len(log) > 0 /\ IsEvent(log[Len(log)], "step.tool_result", engine.turn, engine.step)
      BY <1>0, <2>1, <2>4 DEF Progress
    <3>2. engine.step \in Nat  BY <1>0, StepsAssumption DEF TypeOK, EngineRecord
    <3>3. StepBefore(log, Len(log), engine'.turn, engine'.step)
      BY <1>0, <2>2, <2>4, <3>1, <3>2 DEF StepBefore
    <3> QED BY <1>0, <2>1, <3>3 DEF StepsDone
  <2> QED BY <2>2, <2>3, <2>4
<1>9. CASE \E r \in Row : AppendsAnswer(r)
  BY <1>b, <1>9 DEF AppendsAnswer, StepEvents
<1>10. CASE SavesTurn  BY <1>a, <1>10 DEF SavesTurn
<1> QED BY <1>1, <1>2, <1>3, <1>4, <1>5, <1>6, <1>7, <1>8, <1>9, <1>10, Kinds

-----------------------------------------------------------------------------
(* The answers.                                                             *)

\* Every step keeps the answer of a turn recoverable.
LEMMA AnswersStep == IInv /\ [Next]_vars => AnswersKept'
<1> SUFFICES ASSUME IInv, [Next]_vars PROVE AnswersKept'  OBVIOUS
<1>0. /\ TypeOK /\ Progress /\ AnswersKept /\ Len(log) \in Nat /\ log \in Seq(Row)
      /\ saved.upto \in Nat /\ saved.upto =< Len(log)
  BY RowsTyped DEF IInv, TypeOK, Checkpoint, Progress
\* A step that changes neither the journal nor the checkpoint.
<1>a. ASSUME UNCHANGED <<log, saved>>,
             \/ engine'.pc = "idle"
             \/ engine'.pc \in {"input", "context", "tools", "toolRow"}
             \/ engine'.pc = "record" /\ Head(engine'.events) = "step.model_output",
             engine'.pc # "idle" =>
               \A i \in 1..Len(log) : FinalRow(log, i) => log[i].turn # engine'.turn
      PROVE AnswersKept'
  BY <1>0, <1>a DEF AnswersKept
<1>b. ASSUME NEW r \in Row, log' = Append(log, r)
      PROVE /\ Len(log') = Len(log) + 1 /\ log'[Len(log')] = r
            /\ \A i \in 1..Len(log) : log'[i] = log[i]
            /\ \A i \in 1..Len(log') : i \in 1..Len(log) \/ i = Len(log')
  BY <1>0, <1>b, Appended
<1>1. CASE UNCHANGED vars  BY <1>0, <1>1 DEF vars, AnswersKept
<1>2. CASE (\E t \in Turns : Run(t)) \/ Resume
  <2>1. PICK t \in MaybeTurn, hint \in Hint : t # NoTurn /\ RunTurn(t, hint) /\ Startable(t)
    BY <1>2, StartsRun
  <2>2. UNCHANGED <<log, saved>>  BY <1>2, StartsRun
  <2>3. \/ engine' = Idle
        \/ /\ engine'.turn = t
           /\ \/ engine'.pc = "input"
              \/ engine'.pc \in {"context", "output"} /\ (saved.event = "none" \/ saved.turn = t)
    BY <2>1, RunTurnBegins DEF LoopHead
  <2>4. \A i \in 1..Len(log) : FinalRow(log, i) => log[i].turn # t
    BY <2>1 DEF Startable
  <2>5. CASE engine' = Idle  BY <1>a, <2>2, <2>5 DEF Idle
  <2>6. CASE engine'.turn = t /\ engine'.pc \in {"input", "context"}
    BY <1>a, <2>2, <2>4, <2>6
  <2>7. CASE engine'.turn = t /\ engine'.pc = "output" /\ (saved.event = "none" \/ saved.turn = t)
    <3>1. \A i \in (saved.upto + 1)..Len(log) : ~FinalRow(log, i)
      BY <1>0, <2>4, <2>7 DEF AnswersKept
    <3>2. saved.event # "step.final_output"
      BY <1>0, <2>4, <2>7 DEF Progress, IsEvent, FinalRow
    <3> QED BY <1>0, <2>2, <2>4, <2>7, <3>1, <3>2 DEF AnswersKept
  <2> QED BY <2>3, <2>5, <2>6, <2>7
<1>3. CASE Ends  BY <1>a, <1>3 DEF Ends, Idle
<1>4. CASE GoesOn
  BY <1>0, <1>a, <1>4 DEF GoesOn, StaysAtStep, AnswersKept
\* A row is appended that is no answer and no final row; a step row only while
\* the turn has no final row.
<1>c. ASSUME NEW r \in Row, log' = Append(log, r), saved' = saved,
             r.type \notin {"step.final_output", "assistant.output"},
             r.type \in StepEvents =>
               \A i \in 1..Len(log) : FinalRow(log, i) => log[i].turn # r.turn
      PROVE /\ \A i, j \in 1..Len(log') : FinalRow(log', i) /\ StepRow(log', j) /\ i < j =>
                 log'[i].turn # log'[j].turn
            /\ \A i \in (saved'.upto + 1)..Len(log') : FinalRow(log', i) =>
                 /\ saved'.event # "none" /\ saved'.turn = log'[i].turn /\ saved'.text = log'[i].text
                 /\ \A j \in (saved'.upto + 1)..Len(log') : ~OutputRow(log', j)
            /\ saved'.event = "step.final_output" =>
                 /\ log'[saved'.upto].text = saved'.text
                 /\ \A i \in (saved'.upto + 1)..Len(log') : OutputRow(log', i) => log'[i].text = saved'.text
            /\ \A i \in 1..Len(log') : FinalRow(log', i) => i \in 1..Len(log) /\ FinalRow(log, i)
  <2>0. /\ Len(log') = Len(log) + 1 /\ log'[Len(log')] = r
        /\ \A i \in 1..Len(log) : log'[i] = log[i]
        /\ \A i \in 1..Len(log') : i \in 1..Len(log) \/ i = Len(log')
    BY <1>b, <1>c
  <2>1. \A i \in 1..Len(log') : /\ FinalRow(log', i) => i \in 1..Len(log) /\ FinalRow(log, i)
                                /\ OutputRow(log', i) => i \in 1..Len(log) /\ OutputRow(log, i)
    BY <1>c, <2>0 DEF FinalRow, OutputRow
  <2>2. ASSUME NEW i \in 1..Len(log'), NEW j \in 1..Len(log'),
               FinalRow(log', i), StepRow(log', j), i < j
        PROVE log'[i].turn # log'[j].turn
    <3>1. i \in 1..Len(log) /\ FinalRow(log, i) /\ log'[i] = log[i]  BY <2>0, <2>1, <2>2
    <3>2. CASE j \in 1..Len(log)
      BY <1>0, <2>0, <2>2, <3>1, <3>2 DEF AnswersKept, StepRow
    <3>3. CASE j = Len(log')
      BY <1>c, <2>0, <2>2, <3>1, <3>3 DEF StepRow
    <3> QED BY <2>0, <3>2, <3>3
  <2>3. ASSUME NEW i \in (saved.upto + 1)..Len(log'), FinalRow(log', i)
        PROVE /\ saved.event # "none" /\ saved.turn = log'[i].turn /\ saved.text = log'[i].text
              /\ \A j \in (saved.upto + 1)..Len(log') : ~OutputRow(log', j)
    <3>1. i \in (saved.upto + 1)..Len(log) /\ FinalRow(log, i) /\ log'[i] = log[i]
      BY <1>0, <2>0, <2>1, <2>3
    <3>2. /\ saved.event # "none" /\ saved.turn = log[i].turn /\ saved.text = log[i].text
          /\ \A j \in (saved.upto + 1)..Len(log) : ~OutputRow(log, j)
      BY <1>0, <3>1 DEF AnswersKept
    <3>3. \A j \in (saved.upto + 1)..Len(log') : ~OutputRow(log', j)
      BY <1>0, <2>1, <3>2
    <3> QED BY <3>1, <3>2, <3>3
  <2>4. ASSUME saved.event = "step.final_output"
        PROVE /\ log'[saved.upto].text = saved.text
              /\ \A i \in (saved.upto + 1)..Len(log') : OutputRow(log', i) => log'[i].text = saved.text
    <3>1. saved.upto \in 1..Len(log)  BY <1>0, <2>4 DEF Progress
    <3>2. log'[saved.upto].text = saved.text  BY <1>0, <2>0, <2>4, <3>1 DEF AnswersKept
    <3>3. ASSUME NEW i \in (saved.upto + 1)..Len(log'), OutputRow(log', i)
          PROVE log'[i].text = saved.text
      <4>1. i \in (saved.upto + 1)..Len(log) /\ OutputRow(log, i) /\ log'[i] = log[i]
        BY <1>0, <2>0, <2>1, <3>3
      <4> QED BY <1>0, <2>4, <4>1 DEF AnswersKept
    <3> QED BY <3>2, <3>3
  <2> QED BY <1>c, <2>1, <2>2, <2>3, <2>4
<1>5. CASE \E r \in Row : AppendsOther(r)
  <2>1. PICK r \in Row : AppendsOther(r)  BY <1>5
  <2>2. log' = Append(log, r) /\ saved' = saved /\ r.type \in {"user.input", "tool.result", "tasks.todo_write"}
    BY <2>1 DEF AppendsOther
  <2>3. /\ \A i, j \in 1..Len(log') : FinalRow(log', i) /\ StepRow(log', j) /\ i < j =>
             log'[i].turn # log'[j].turn
        /\ \A i \in (saved'.upto + 1)..Len(log') : FinalRow(log', i) =>
             /\ saved'.event # "none" /\ saved'.turn = log'[i].turn /\ saved'.text = log'[i].text
             /\ \A j \in (saved'.upto + 1)..Len(log') : ~OutputRow(log', j)
        /\ saved'.event = "step.final_output" =>
             /\ log'[saved'.upto].text = saved'.text
             /\ \A i \in (saved'.upto + 1)..Len(log') : OutputRow(log', i) => log'[i].text = saved'.text
        /\ \A i \in 1..Len(log') : FinalRow(log', i) => i \in 1..Len(log) /\ FinalRow(log, i)
    BY <1>c, <2>2 DEF StepEvents
  <2>4. CASE engine.pc = "idle" /\ engine' = engine
    BY <2>3, <2>4 DEF AnswersKept
  <2>5. CASE /\ engine.pc \in {"input", "toolRow", "todoRow"} /\ StaysAtStep
             /\ \/ engine'.pc \in {"context", "tools", "todoRow"}
                \/ engine'.pc = "record" /\ Head(engine'.events) = "step.model_output"
    <3>1. \A i \in 1..Len(log) : FinalRow(log, i) => log[i].turn # engine.turn
      BY <1>0, <2>5 DEF AnswersKept
    <3>2. \A i \in 1..Len(log') : FinalRow(log', i) => log'[i].turn # engine'.turn
      BY <1>b, <2>2, <2>3, <2>5, <3>1 DEF StaysAtStep
    <3> QED BY <2>3, <2>5, <3>2 DEF AnswersKept
  <2> QED BY <2>1, <2>4, <2>5 DEF AppendsOther
<1>6. CASE \E r \in Row : AppendsEvent(r)
  <2>1. PICK r \in Row : AppendsEvent(r)  BY <1>6
  <2>2. /\ log' = Append(log, r) /\ saved' = saved /\ r.turn = engine.turn /\ r.type \in StepEvents
        /\ engine'.turn = engine.turn /\ engine'.text = engine.text
        /\ engine.pc \in {"context", "record"} /\ engine'.pc \in {"contextSave", "recordSave"}
    BY <2>1 DEF AppendsEvent, StaysAtStep
  <2>3. \A i \in 1..Len(log) : FinalRow(log, i) => log[i].turn # engine.turn
    BY <1>0, <2>2 DEF AnswersKept
  <2>4. CASE r.type # "step.final_output"
    <3>1. /\ \A i, j \in 1..Len(log') : FinalRow(log', i) /\ StepRow(log', j) /\ i < j =>
               log'[i].turn # log'[j].turn
          /\ \A i \in (saved'.upto + 1)..Len(log') : FinalRow(log', i) =>
               /\ saved'.event # "none" /\ saved'.turn = log'[i].turn /\ saved'.text = log'[i].text
               /\ \A j \in (saved'.upto + 1)..Len(log') : ~OutputRow(log', j)
          /\ saved'.event = "step.final_output" =>
               /\ log'[saved'.upto].text = saved'.text
               /\ \A i \in (saved'.upto + 1)..Len(log') : OutputRow(log', i) => log'[i].text = saved'.text
          /\ \A i \in 1..Len(log') : FinalRow(log', i) => i \in 1..Len(log) /\ FinalRow(log, i)
      BY <1>c, <2>2, <2>3, <2>4 DEF StepEvents
    <3>2. \A i \in 1..Len(log') : FinalRow(log', i) => log'[i].turn # engine'.turn
      BY <1>b, <2>2, <2>3, <3>1
    <3>3. engine'.pc = "recordSave" => Head(engine'.events) # "step.final_output"
      BY <2>1, <2>4 DEF AppendsEvent
    <3> QED BY <2>2, <3>1, <3>2, <3>3 DEF AnswersKept
  <2>5. CASE r.type = "step.final_output"
    <3>1. engine.pc = "record" /\ Head(engine.events) = "step.final_output" /\ r.text = engine.text
          /\ engine'.pc = "recordSave" /\ engine'.events = engine.events
      BY <2>1, <2>5 DEF AppendsEvent
    <3>2. saved.event # "none" /\ saved.upto = Len(log) /\ saved.turn = engine.turn
          /\ saved.text = engine.text
      BY <1>0, <3>1 DEF AnswersKept
    <3>3. /\ Len(log') = Len(log) + 1 /\ log'[Len(log')] = r
          /\ \A i \in 1..Len(log) : log'[i] = log[i]
          /\ \A i \in 1..Len(log') : i \in 1..Len(log) \/ i = Len(log')
      BY <1>b, <2>2
    <3>4. \A i \in (saved.upto + 1)..Len(log') : i = Len(log') /\ ~OutputRow(log', i)
      BY <1>0, <2>5, <3>2, <3>3 DEF OutputRow
    <3>5. ASSUME NEW i \in 1..Len(log'), NEW j \in 1..Len(log'),
                 FinalRow(log', i), StepRow(log', j), i < j
          PROVE log'[i].turn # log'[j].turn
      <4>1. i \in 1..Len(log) /\ log'[i] = log[i]  BY <1>0, <3>3, <3>5
      <4>2. CASE j \in 1..Len(log)
        BY <1>0, <3>3, <3>5, <4>1, <4>2 DEF AnswersKept, StepRow, FinalRow
      <4>3. CASE j = Len(log')
        BY <2>2, <2>3, <3>3, <3>5, <4>1, <4>3 DEF FinalRow
      <4> QED BY <3>3, <4>2, <4>3
    <3>6. saved.event = "step.final_output" => log'[saved.upto].text = saved.text
      BY <1>0, <3>2, <3>3 DEF AnswersKept, Progress
    <3>7. \A i \in (saved'.upto + 1)..Len(log') : FinalRow(log', i) =>
             /\ saved'.event # "none" /\ saved'.turn = log'[i].turn /\ saved'.text = log'[i].text
             /\ \A j \in (saved'.upto + 1)..Len(log') : ~OutputRow(log', j)
      BY <2>2, <3>1, <3>2, <3>3, <3>4
    <3>8. log'[Len(log')].text = engine'.text  BY <2>2, <3>1, <3>3
    <3>9. \A i \in (saved'.upto + 1)..Len(log') : OutputRow(log', i) => log'[i].text = saved'.text
      BY <2>2, <3>4
    <3> QED BY <2>2, <3>1, <3>5, <3>6, <3>7, <3>8, <3>9 DEF AnswersKept
  <2> QED BY <2>4, <2>5
<1>7. CASE SavesContext
  <2>1. /\ saved'.upto = Len(log) /\ saved'.event = "step.context_built" /\ log' = log
        /\ engine.pc = "contextSave" /\ engine'.pc = "model" /\ engine'.turn = engine.turn
    BY <1>7 DEF SavesContext, StepCheckpoint, StaysAtStep
  <2>2. (saved'.upto + 1)..Len(log') = {}  BY <1>0, <2>1
  <2> QED BY <1>0, <2>1, <2>2 DEF AnswersKept
<1>8. CASE SaveEvent
  <2> DEFINE event == Head(engine.events)
  <2>1. /\ saved'.upto = Len(log) /\ saved'.event = event /\ saved'.turn = engine.turn
        /\ saved'.text = engine.text /\ log' = log /\ engine.pc = "recordSave"
    BY <1>8 DEF SaveEvent, StepCheckpoint
  <2>2. (saved'.upto + 1)..Len(log') = {}  BY <1>0, <2>1
  <2>3. /\ engine'.turn = engine.turn /\ engine'.text = engine.text /\ event \in StepEvents
        /\ \/ engine'.pc = "record" /\ event # "step.final_output"
           \/ engine'.pc = "output" /\ event = "step.final_output"
           \/ engine'.pc \in {"context", "output"} /\ event = "step.tool_result"
    BY <1>0, <1>8, SaveEventEffect DEF LoopHead
  <2>4. event # "step.final_output" =>
          \A i \in 1..Len(log) : FinalRow(log, i) => log[i].turn # engine.turn
    BY <1>0, <2>1 DEF AnswersKept
  <2>5. event = "step.final_output" => log[Len(log)].text = engine.text
    BY <1>0, <2>1 DEF AnswersKept
  <2>6. event # "none"  BY <2>3 DEF StepEvents
  <2> HIDE DEF event
  <2> QED BY <1>0, <2>1, <2>2, <2>3, <2>4, <2>5, <2>6 DEF AnswersKept
<1>9. CASE \E r \in Row : AppendsAnswer(r)
  <2>1. PICK r \in Row : AppendsAnswer(r)  BY <1>9
  <2>2. /\ log' = Append(log, r) /\ saved' = saved /\ r.type = "assistant.output"
        /\ r.text = engine.text /\ engine.pc = "output" /\ engine'.pc = "general"
    BY <2>1 DEF AppendsAnswer
  <2>3. /\ Len(log') = Len(log) + 1 /\ log'[Len(log')] = r
        /\ \A i \in 1..Len(log) : log'[i] = log[i]
        /\ \A i \in 1..Len(log') : i \in 1..Len(log) \/ i = Len(log')
    BY <1>b, <2>2
  <2>4. ~FinalRow(log', Len(log')) /\ ~StepRow(log', Len(log'))
    BY <2>2, <2>3 DEF FinalRow, StepRow, StepEvents
  <2>5. ASSUME NEW i \in 1..Len(log'), NEW j \in 1..Len(log'),
               FinalRow(log', i), StepRow(log', j), i < j
        PROVE log'[i].turn # log'[j].turn
    <3>1. i \in 1..Len(log) /\ j \in 1..Len(log)  BY <2>3, <2>4, <2>5
    <3> QED BY <1>0, <2>3, <2>5, <3>1 DEF AnswersKept, FinalRow, StepRow
  <2>6. \A i \in (saved.upto + 1)..Len(log') : ~FinalRow(log', i)
    <3> SUFFICES ASSUME NEW i \in (saved.upto + 1)..Len(log'), FinalRow(log', i) PROVE FALSE
      OBVIOUS
    <3>1. i \in (saved.upto + 1)..Len(log) /\ log'[i] = log[i]  BY <1>0, <2>3, <2>4
    <3> QED BY <1>0, <2>2, <3>1 DEF AnswersKept, FinalRow
  <2>7. ASSUME saved.event = "step.final_output"
        PROVE /\ log'[saved.upto].text = saved.text
              /\ \A i \in (saved.upto + 1)..Len(log') : OutputRow(log', i) => log'[i].text = saved.text
    <3>1. saved.upto \in 1..Len(log)  BY <1>0, <2>7 DEF Progress
    <3>2. log'[saved.upto].text = saved.text  BY <1>0, <2>3, <2>7, <3>1 DEF AnswersKept
    <3>3. ASSUME NEW i \in (saved.upto + 1)..Len(log'), OutputRow(log', i)
          PROVE log'[i].text = saved.text
      <4>1. CASE i = Len(log')
        BY <1>0, <2>2, <2>3, <2>7, <4>1 DEF AnswersKept
      <4>2. CASE i \in 1..Len(log)
        <5>1. i \in (saved.upto + 1)..Len(log) /\ log'[i] = log[i]  BY <1>0, <2>3, <3>3, <4>2
        <5> QED BY <1>0, <2>7, <3>3, <5>1 DEF AnswersKept, OutputRow
      <4> QED BY <1>0, <2>3, <4>1, <4>2
    <3> QED BY <3>2, <3>3
  <2> QED BY <2>2, <2>5, <2>6, <2>7 DEF AnswersKept
<1>10. CASE SavesTurn
  <2>1. /\ saved'.upto = Len(log) /\ saved'.event = "none" /\ log' = log /\ engine'.pc = "observe"
    BY <1>10 DEF SavesTurn, GeneralCheckpoint
  <2>2. (saved'.upto + 1)..Len(log') = {}  BY <1>0, <2>1
  <2> QED BY <1>0, <2>1, <2>2 DEF AnswersKept
<1> QED BY <1>1, <1>2, <1>3, <1>4, <1>5, <1>6, <1>7, <1>8, <1>9, <1>10, Kinds

-----------------------------------------------------------------------------
(* The tools.                                                               *)

\* Every step keeps tool results from being recorded behind the loop.
LEMMA ToolsStep == IInv /\ [Next]_vars => ToolsOnce'
<1> SUFFICES ASSUME IInv, [Next]_vars PROVE ToolsOnce'  OBVIOUS
<1>0. /\ TypeOK /\ Progress /\ ToolsOnce /\ Len(log) \in Nat /\ log \in Seq(Row)
      /\ saved.upto \in Nat /\ saved.upto =< Len(log)
      /\ engine.step \in Int /\ \A i \in 1..Len(log) : log[i].step \in Int
  BY RowsTyped, StepsAssumption DEF IInv, TypeOK, Checkpoint, Progress, EngineRecord, Row
\* What was recorded stays recorded.
<1>a. ASSUME NEW r \in Row, log' = Append(log, r)
      PROVE /\ Len(log') = Len(log) + 1 /\ log'[Len(log')] = r
            /\ \A i \in 1..Len(log) : log'[i] = log[i]
            /\ \A i \in 1..Len(log') : i \in 1..Len(log) \/ i = Len(log')
            /\ \A t : Given(log, t) => Given(log', t)
  <2>1. /\ Len(log') = Len(log) + 1 /\ log'[Len(log')] = r
        /\ \A i \in 1..Len(log) : log'[i] = log[i]
        /\ \A i \in 1..Len(log') : i \in 1..Len(log) \/ i = Len(log')
    BY <1>0, <1>a, Appended
  <2>2. \A t : Given(log, t) => Given(log', t)
    BY <2>1, <1>0 DEF Given, OutputRow
  <2> QED BY <2>1, <2>2
\* A row of the engine's turn, or of no turn, is appended.
<1>b. ASSUME NEW r \in Row, log' = Append(log, r), saved' = saved,
             r.turn = NoTurn \/ (engine.pc # "idle" /\ r.turn = engine.turn)
      PROVE saved'.event = "none" =>
              /\ saved'.upto > 0 => OutputRow(log', saved'.upto) /\ log'[saved'.upto].turn # NoTurn
              /\ \A i \in 1..saved'.upto, j \in (saved'.upto + 1)..Len(log') :
                   log'[i].turn = log'[j].turn /\ log'[i].turn # NoTurn => Given(log', log'[i].turn)
              /\ engine.pc # "idle" =>
                   \/ Given(log', engine.turn)
                   \/ \A i \in 1..saved'.upto : log'[i].turn # engine.turn
  <2> SUFFICES ASSUME saved.event = "none"
               PROVE  /\ saved.upto > 0 => OutputRow(log', saved.upto) /\ log'[saved.upto].turn # NoTurn
                      /\ \A i \in 1..saved.upto, j \in (saved.upto + 1)..Len(log') :
                           log'[i].turn = log'[j].turn /\ log'[i].turn # NoTurn => Given(log', log'[i].turn)
                      /\ engine.pc # "idle" =>
                           \/ Given(log', engine.turn)
                           \/ \A i \in 1..saved.upto : log'[i].turn # engine.turn
    BY <1>b
  <2>0. /\ Len(log') = Len(log) + 1 /\ log'[Len(log')] = r
        /\ \A i \in 1..Len(log) : log'[i] = log[i]
        /\ \A i \in 1..Len(log') : i \in 1..Len(log) \/ i = Len(log')
        /\ \A t : Given(log, t) => Given(log', t)
    BY <1>a, <1>b
  <2>1. saved.upto > 0 => OutputRow(log', saved.upto) /\ log'[saved.upto].turn # NoTurn
    BY <1>0, <2>0 DEF ToolsOnce, OutputRow
  <2>2. engine.pc # "idle" =>
           \/ Given(log', engine.turn)
           \/ \A i \in 1..saved.upto : log'[i].turn # engine.turn
    BY <1>0, <2>0 DEF ToolsOnce
  <2>3. ASSUME NEW i \in 1..saved.upto, NEW j \in (saved.upto + 1)..Len(log'),
               log'[i].turn = log'[j].turn, log'[i].turn # NoTurn
        PROVE Given(log', log'[i].turn)
    <3>1. i \in 1..Len(log) /\ log'[i] = log[i]  BY <1>0, <2>0
    <3>2. CASE j \in 1..Len(log)
      <4>1. log'[j] = log[j] /\ j \in (saved.upto + 1)..Len(log)  BY <1>0, <2>0, <3>2
      <4>2. Given(log, log[i].turn)  BY <1>0, <2>3, <3>1, <4>1 DEF ToolsOnce
      <4> QED BY <2>0, <3>1, <4>2
    <3>3. CASE j = Len(log')
      <4>1. r.turn = log[i].turn /\ engine.pc # "idle" /\ engine.turn = log[i].turn
        BY <1>b, <2>0, <2>3, <3>1, <3>3
      <4> QED BY <2>2, <3>1, <4>1
    <3> QED BY <1>0, <2>0, <3>2, <3>3
  <2> QED BY <2>1, <2>2, <2>3
\* A row that is no step row is appended.
<1>c. ASSUME NEW r \in Row, log' = Append(log, r), r.type \notin StepEvents
      PROVE /\ \A i \in 1..Len(log') : StepRow(log', i) =>
                 \/ Given(log', log'[i].turn)
                 \/ \A j \in 1..(i - 1) : Results(log', j, log'[i].turn) =>
                     /\ log'[j].step =< log'[i].step
                     /\ log'[i].type \notin {"step.tool_result", "step.final_output"} =>
                          log'[j].step < log'[i].step
            /\ \A t : \A j \in 1..Len(log') : Results(log', j, t) =>
                 j \in 1..Len(log) /\ Results(log, j, t) /\ log'[j] = log[j]
  <2>0. /\ Len(log') = Len(log) + 1 /\ log'[Len(log')] = r
        /\ \A i \in 1..Len(log) : log'[i] = log[i]
        /\ \A i \in 1..Len(log') : i \in 1..Len(log) \/ i = Len(log')
        /\ \A t : Given(log, t) => Given(log', t)
    BY <1>a, <1>c
  <2>1. ASSUME NEW i \in 1..Len(log'), StepRow(log', i)
        PROVE \/ Given(log', log'[i].turn)
              \/ \A j \in 1..(i - 1) : Results(log', j, log'[i].turn) =>
                  /\ log'[j].step =< log'[i].step
                  /\ log'[i].type \notin {"step.tool_result", "step.final_output"} =>
                       log'[j].step < log'[i].step
    <3>1. i \in 1..Len(log) /\ log'[i] = log[i]  BY <1>c, <2>0, <2>1 DEF StepRow
    <3>2. \A j \in 1..(i - 1) : log'[j] = log[j]
      <4>1. \A j \in 1..(i - 1) : j \in 1..Len(log)  BY <1>0, <3>1
      <4> QED BY <2>0, <4>1
    <3>3. \/ Given(log, log[i].turn)
          \/ \A j \in 1..(i - 1) : Results(log, j, log[i].turn) =>
              /\ log[j].step =< log[i].step
              /\ log[i].type \notin {"step.tool_result", "step.final_output"} =>
                   log[j].step < log[i].step
      BY <1>0, <2>1, <3>1 DEF ToolsOnce, StepRow
    <3> QED BY <2>0, <3>1, <3>2, <3>3 DEF Results
  <2>2. \A t : \A j \in 1..Len(log') : Results(log', j, t) =>
             j \in 1..Len(log) /\ Results(log, j, t) /\ log'[j] = log[j]
    BY <1>c, <2>0 DEF Results, StepEvents
  <2> QED BY <2>1, <2>2
<1>1. CASE UNCHANGED vars
  BY <1>0, <1>1 DEF vars, ToolsOnce, AfterResults
<1>2. CASE (\E t \in Turns : Run(t)) \/ Resume
  <2>1. PICK t \in MaybeTurn, hint \in Hint : t # NoTurn /\ RunTurn(t, hint) /\ Startable(t)
    BY <1>2, StartsRun
  <2>2. UNCHANGED <<log, saved>>  BY <1>2, StartsRun
  <2>3. \/ engine' = Idle
        \/ /\ engine'.turn = t /\ engine'.pc \in {"input", "context", "output"}
           /\ \/ Given(log, t)
              \/ \A j \in 1..Len(log) : Results(log, j, t) => log[j].step < engine'.step
           /\ saved.event = "none" =>
                Given(log, t) \/ \A i \in 1..saved.upto : log[i].turn # t
    BY <2>1, RunTurnBegins DEF LoopHead
  <2>4. engine'.step \in Int  BY <2>1, RunTurnBegins, StepsAssumption DEF EngineRecord
  <2>5. CASE engine' = Idle  BY <1>0, <2>2, <2>5 DEF ToolsOnce, Idle
  <2>6. CASE engine' # Idle
    <3>1. \/ Given(log, t)
          \/ \A j \in 1..Len(log) : Results(log, j, t) =>
               log[j].step =< engine'.step /\ log[j].step < engine'.step
      BY <1>0, <2>3, <2>4, <2>6
    <3> QED BY <1>0, <2>2, <2>3, <2>6, <3>1 DEF ToolsOnce
  <2> QED BY <2>5, <2>6
<1>3. CASE Ends  BY <1>0, <1>3 DEF Ends, Idle, ToolsOnce
<1>4. CASE GoesOn
  BY <1>0, <1>4 DEF GoesOn, StaysAtStep, ToolsOnce, AfterResults
<1>5. CASE \E r \in Row : AppendsOther(r)
  <2>1. PICK r \in Row : AppendsOther(r)  BY <1>5
  <2>2. /\ log' = Append(log, r) /\ saved' = saved /\ r.type \notin StepEvents
        /\ r.turn = NoTurn \/ (engine.pc # "idle" /\ r.turn = engine.turn)
    BY <2>1 DEF AppendsOther, StepEvents
  <2>3. /\ engine'.pc # "idle" => engine.pc # "idle" /\ StaysAtStep /\ ~AfterResults
        /\ engine'.pc # "general"
    BY <2>1, <1>0 DEF AppendsOther, AfterResults, Progress
  <2> QED
    <3>1. engine'.pc # "idle" =>
            \/ Given(log', engine'.turn)
            \/ \A j \in 1..Len(log') : Results(log', j, engine'.turn) =>
                 log'[j].step =< engine'.step /\ log'[j].step < engine'.step
      <4> SUFFICES ASSUME engine'.pc # "idle", ~Given(log', engine'.turn),
                          NEW j \in 1..Len(log'), Results(log', j, engine'.turn)
                   PROVE log'[j].step =< engine'.step /\ log'[j].step < engine'.step
        OBVIOUS
      <4>1. j \in 1..Len(log) /\ Results(log, j, engine.turn) /\ log'[j] = log[j]
            /\ ~Given(log, engine.turn) /\ engine'.step = engine.step
        BY <1>a, <1>c, <2>2, <2>3 DEF StaysAtStep
      <4> QED BY <1>0, <2>3, <4>1 DEF ToolsOnce
    <3>2. engine'.pc # "idle" => engine.pc # "idle" /\ engine'.turn = engine.turn
      BY <2>3 DEF StaysAtStep
    <3> QED BY <1>b, <1>c, <2>2, <2>3, <3>1, <3>2 DEF ToolsOnce
<1>6. CASE \E r \in Row : AppendsEvent(r)
  <2>1. PICK r \in Row : AppendsEvent(r)  BY <1>6
  <2>2. /\ log' = Append(log, r) /\ saved' = saved /\ r.turn = engine.turn /\ r.type \in StepEvents
        /\ r.step = engine.step /\ engine'.turn = engine.turn /\ engine'.step = engine.step
        /\ engine.pc \in {"context", "record"} /\ engine'.pc \in {"contextSave", "recordSave"}
    BY <2>1 DEF AppendsEvent, StaysAtStep
  <2>3. /\ r.type # "step.final_output" => ~AfterResults
        /\ r.type \in {"step.tool_result", "step.final_output"} => AfterResults'
    BY <2>1 DEF AppendsEvent, AfterResults
  <2>4. /\ Len(log') = Len(log) + 1 /\ log'[Len(log')] = r
        /\ \A i \in 1..Len(log) : log'[i] = log[i]
        /\ \A i \in 1..Len(log') : i \in 1..Len(log) \/ i = Len(log')
        /\ \A t : Given(log, t) => Given(log', t)
    BY <1>a, <2>2
  <2>5. \/ Given(log, engine.turn)
        \/ \A j \in 1..Len(log) : Results(log, j, engine.turn) =>
             /\ log[j].step =< engine.step
             /\ r.type # "step.final_output" => log[j].step < engine.step
    BY <1>0, <2>2, <2>3 DEF ToolsOnce
  <2>6. ASSUME NEW i \in 1..Len(log'), StepRow(log', i), ~Given(log', log'[i].turn),
               NEW j \in 1..(i - 1), Results(log', j, log'[i].turn)
        PROVE /\ log'[j].step =< log'[i].step
              /\ log'[i].type \notin {"step.tool_result", "step.final_output"} =>
                   log'[j].step < log'[i].step
    <3>1. j \in 1..Len(log) /\ log'[j] = log[j] /\ ~Given(log, log'[i].turn)  BY <1>0, <2>4, <2>6
    <3>2. CASE i \in 1..Len(log)
      <4>1. log'[i] = log[i]  BY <2>4, <3>2
      <4> QED BY <1>0, <2>6, <3>1, <3>2, <4>1 DEF ToolsOnce, StepRow, Results
    <3>3. CASE i = Len(log')
      <4>1. log'[i] = r  BY <2>4, <3>3
      <4> QED BY <2>2, <2>5, <2>6, <3>1, <4>1 DEF Results
    <3> QED BY <2>4, <3>2, <3>3
  <2>7. ASSUME ~Given(log', engine.turn), NEW j \in 1..Len(log'), Results(log', j, engine.turn)
        PROVE /\ log'[j].step =< engine.step
              /\ ~AfterResults' => log'[j].step < engine.step
    <3>1. CASE j \in 1..Len(log)
      <4>1. log'[j] = log[j] /\ Results(log, j, engine.turn) /\ ~Given(log, engine.turn)
        BY <2>4, <2>7, <3>1 DEF Results
      <4> QED BY <2>3, <2>5, <3>1, <4>1
    <3>2. CASE j = Len(log')
      <4>1. log'[j] = r /\ r.type = "step.tool_result"  BY <2>4, <2>7, <3>2 DEF Results
      <4> QED BY <1>0, <2>2, <2>3, <4>1
    <3> QED BY <2>4, <3>1, <3>2
  <2> QED BY <1>b, <2>2, <2>6, <2>7 DEF ToolsOnce
<1>7. CASE SavesContext
  <2>1. /\ saved'.event = "step.context_built" /\ log' = log /\ StaysAtStep
        /\ engine.pc = "contextSave" /\ engine'.pc = "model"
    BY <1>7 DEF SavesContext, StepCheckpoint
  <2> QED BY <1>0, <2>1 DEF ToolsOnce, StaysAtStep, AfterResults
<1>8. CASE SaveEvent
  <2>1. saved'.event = Head(engine.events) /\ log' = log /\ engine.pc = "recordSave"
    BY <1>8 DEF SaveEvent, StepCheckpoint
  <2>2. /\ engine'.turn = engine.turn /\ Head(engine.events) \in StepEvents
        /\ \/ /\ engine'.pc = "record" /\ engine'.step = engine.step
              /\ Head(engine.events) # "step.final_output"
              /\ Head(engine.events) = "step.tool_result" => Head(engine'.events) = "step.final_output"
           \/ engine'.pc = "output" /\ engine'.step = engine.step
           \/ engine'.pc \in {"context", "output"} /\ engine'.step = engine.step + 1
    BY <1>0, <1>8, SaveEventEffect DEF LoopHead
  <2>3. saved'.event # "none"  BY <2>1, <2>2 DEF StepEvents
  <2>4. \/ Given(log, engine.turn)
        \/ \A j \in 1..Len(log) : Results(log, j, engine.turn) =>
             /\ log[j].step =< engine.step
             /\ ~AfterResults => log[j].step < engine.step
    BY <1>0, <2>1 DEF ToolsOnce
  <2>5. \/ engine'.step = engine.step /\ (AfterResults => AfterResults')
        \/ engine'.step = engine.step + 1
    BY <2>1, <2>2 DEF AfterResults
  <2>6. \/ Given(log, engine.turn)
        \/ \A j \in 1..Len(log) : Results(log, j, engine.turn) =>
             /\ log[j].step =< engine'.step
             /\ ~AfterResults' => log[j].step < engine'.step
    BY <1>0, <2>4, <2>5
  <2>7. engine'.pc # "general"  BY <2>2
  <2> QED BY <1>0, <2>1, <2>2, <2>3, <2>6, <2>7 DEF ToolsOnce
<1>9. CASE \E r \in Row : AppendsAnswer(r)
  <2>1. PICK r \in Row : AppendsAnswer(r)  BY <1>9
  <2>2. /\ log' = Append(log, r) /\ saved' = saved /\ r.type = "assistant.output"
        /\ r.turn = engine.turn /\ engine.pc = "output" /\ engine'.pc = "general"
        /\ engine'.turn = engine.turn
    BY <2>1 DEF AppendsAnswer, StaysAtStep
  <2>3. Len(log') > 0 /\ OutputRow(log', Len(log')) /\ log'[Len(log')].turn = engine'.turn
    BY <1>0, <1>a, <2>2 DEF OutputRow
  <2>4. Given(log', engine'.turn)
    <3>1. Len(log') \in 1..Len(log')  BY <1>0, <1>a, <2>2
    <3> QED BY <2>3, <3>1 DEF Given
  <2> QED BY <1>b, <1>c, <2>2, <2>3, <2>4 DEF ToolsOnce, StepEvents
<1>10. CASE SavesTurn
  <2>1. /\ saved'.upto = Len(log) /\ saved'.event = "none" /\ log' = log
        /\ engine.pc = "general" /\ engine'.pc = "observe" /\ engine'.turn = engine.turn
    BY <1>10 DEF SavesTurn, GeneralCheckpoint, StaysAtStep
  <2>2. Len(log) > 0 /\ OutputRow(log, Len(log)) /\ log[Len(log)].turn = engine.turn
        /\ engine.turn # NoTurn
    BY <1>0, <2>1 DEF ToolsOnce, Progress
  <2>3. Given(log, engine.turn)
    <3>1. Len(log) \in 1..Len(log)  BY <1>0, <2>2
    <3> QED BY <2>2, <3>1 DEF Given
  <2>4. (saved'.upto + 1)..Len(log') = {}  BY <1>0, <2>1
  <2> QED BY <1>0, <2>1, <2>2, <2>3, <2>4 DEF ToolsOnce
<1> QED BY <1>1, <1>2, <1>3, <1>4, <1>5, <1>6, <1>7, <1>8, <1>9, <1>10, Kinds

-----------------------------------------------------------------------------
(* The theorems.                                                            *)

\* A new session satisfies the invariant.
LEMMA InitHolds == Init => IInv
<1> SUFFICES ASSUME Init PROVE IInv  OBVIOUS
<1>1. /\ log = << >> /\ Len(log) = 0 /\ saved = NoCheckpoint /\ observed = NoHint
      /\ engine = Idle /\ runs = 0
  BY DEF Init
<1>2. saved \in Checkpoint
  BY <1>1, StepsAssumption DEF NoCheckpoint, Checkpoint, MaybeTodos, MaybeText, MaybeTurn
<1>3. TypeOK
  <2>1. << >> \in Seq(Row)  OBVIOUS
  <2>2. 0 \in 0..MaxRuns  BY TurnsAssumption
  <2> QED BY <1>1, <1>2, <2>1, <2>2, IdleTyped DEF TypeOK
<1>4. saved.event = "none" /\ saved.upto = 0 /\ saved.todos = NoTodos /\ engine.pc = "idle"
  BY <1>1 DEF NoCheckpoint, Idle
<1>5. Progress /\ StepsDone  BY <1>1, <1>4 DEF Progress, StepsDone, InStep
<1>6. ListsKept  BY <1>1, <1>4 DEF ListsKept, LastList
<1>7. AnswersKept /\ ToolsOnce  BY <1>1, <1>4 DEF AnswersKept, ToolsOnce
<1> QED BY <1>3, <1>5, <1>6, <1>7 DEF IInv

\* The inductive invariant of runTurn and its recovery.
THEOREM Invariance == Spec => []IInv
<1>1. IInv /\ [Next]_vars => IInv'
  BY TypeStep, ProgressStep, ListsStep, StepsStep, AnswersStep, ToolsStep DEF IInv
<1> QED BY InitHolds, <1>1, PTL DEF Spec

\* The rows, the checkpoint, the resume hint and the loop state of runTurn have
\* their types.
THEOREM TypeCorrect == Spec => []TypeOK
<1>1. IInv => TypeOK  BY DEF IInv
<1> QED BY Invariance, <1>1, PTL

\* Wherever the process dies, recoverSessionState rebuilds the todo list that
\* was journaled last.
THEOREM TodosRecovered == Spec => []TodosDurable
<1>1. IInv => TodosDurable
  <2> SUFFICES ASSUME IInv PROVE TodosDurable  OBVIOUS
  <2> DEFINE writes == OfType(DOMAIN log, {"tasks.todo_write"})
  <2>1. Len(log) \in Nat /\ writes = {i \in 1..Len(log) : log[i].type = "tasks.todo_write"}
    BY RowsTyped DEF OfType, IInv
  <2>2. LastList(log, Len(log), RecoveredTodos)
    BY RecoveredIsLast DEF IInv, ListsKept
  <2>3. CASE writes = {}
    <3>1. RecoveredTodos = NoTodos  BY <2>1, <2>2, <2>3 DEF LastList
    <3> QED BY <2>3, <3>1 DEF TodosDurable
  <2>4. CASE writes # {}
    <3>1. PICK m \in 1..Len(log) : m = Max(writes)  BY <2>1, <2>4, MaxIn
    <3>2. log[m].type = "tasks.todo_write" /\ \A x \in writes : x =< m
      BY <2>1, <2>4, <3>1, MaxIn
    <3>3. PICK i \in 1..Len(log) :
            /\ log[i].type = "tasks.todo_write"
            /\ log[i].todos = RecoveredTodos
            /\ \A j \in (i + 1)..Len(log) : log[j].type # "tasks.todo_write"
      BY <2>1, <2>2, <3>2 DEF LastList
    <3>4. i = m  BY <2>1, <3>2, <3>3
    <3> QED BY <2>4, <3>1, <3>3, <3>4 DEF TodosDurable
  <2> QED BY <2>3, <2>4
<1> QED BY Invariance, <1>1, PTL

\* runTurn does not lose the answer of a turn that recoverStep calls complete.
THEOREM AnswersRecovered == Spec => []CompleteTurnKeepsOutput
<1>1. IInv => CompleteTurnKeepsOutput
  <2> SUFFICES ASSUME IInv, NEW t \in Turns, RecoverStep(t).action = "turn-complete"
               PROVE RecoveredText =
                       log[Max(OfTurn(OfType(DOMAIN log, {"step.final_output"}), t))].text
    BY DEF CompleteTurnKeepsOutput
  <2> DEFINE finals == OfTurn(OfType(DOMAIN log, {"step.final_output"}), t)
             new == OfType(RowsAfter(saved.upto), {"assistant.output"})
  <2>0. /\ Len(log) \in Nat /\ t \in MaybeTurn /\ saved.upto \in Nat /\ saved.upto =< Len(log)
        /\ finals = {k \in 1..Len(log) : FinalRow(log, k) /\ log[k].turn = t}
        /\ new = {k \in 1..Len(log) : k > saved.upto /\ OutputRow(log, k)}
    BY RowsTyped
    DEF OfType, OfTurn, RowsAfter, IInv, TypeOK, Checkpoint, Progress, FinalRow, OutputRow, MaybeTurn
  <2>1. PICK i \in 1..Len(log) :
          /\ StepRow(log, i) /\ log[i].turn = t
          /\ i > saved.upto \/ (i = saved.upto /\ saved.turn = t /\ saved.event = log[i].type)
          /\ RecoverStep(t) = HintAt(t, log[i].type, log[i].step)
    <3>1. ASSUME NEW step, RecoverStep(t) = HintAt(t, "none", step) PROVE FALSE
      <4>1. RecoverStep(t).action = ResumeAction("none")  BY <3>1 DEF HintAt
      <4>2. ResumeAction("none") = "no-progress"  BY DEF ResumeAction
      <4> QED BY <4>1, <4>2
    <3> QED BY <2>0, <3>1, RecoverStepFrom DEF IInv
  <2>2. FinalRow(log, i)
    <3>1. ResumeAction(log[i].type) = "turn-complete"  BY <2>1 DEF HintAt
    <3> QED BY <2>1, <3>1 DEF ResumeAction, StepRow, StepEvents, FinalRow
  <2>3. Max(finals) = i
    <3>1. i \in finals  BY <2>0, <2>1, <2>2
    <3>2. PICK m \in 1..Len(log) : m = Max(finals)  BY <2>0, <3>1, MaxIn
    <3>3. m \in finals /\ i =< m  BY <2>0, <3>1, <3>2, MaxIn
    <3>4. ~(i < m)
      <4>1. StepRow(log, m) /\ log[m].turn = t
        BY <2>0, <3>3 DEF StepRow, FinalRow, StepEvents
      <4> QED BY <2>1, <2>2, <4>1 DEF IInv, AnswersKept
    <3> QED BY <2>0, <3>2, <3>3, <3>4
  <2>4. saved.text = log[i].text /\ \A k \in (saved.upto + 1)..Len(log) :
          OutputRow(log, k) => log[k].text = saved.text
    <3>1. CASE i > saved.upto
      <4>1. i \in (saved.upto + 1)..Len(log)  BY <2>0, <3>1
      <4> QED BY <2>2, <4>1 DEF IInv, AnswersKept
    <3>2. CASE i = saved.upto /\ saved.event = log[i].type
      BY <2>2, <3>2 DEF IInv, AnswersKept, FinalRow
    <3> QED BY <2>1, <3>1, <3>2
  <2>5. RecoveredText = saved.text
    <3>1. CASE new = {}  BY <3>1 DEF RecoveredText
    <3>2. CASE new # {}
      <4>1. PICK m \in 1..Len(log) : m = Max(new)  BY <2>0, <3>2, MaxIn
      <4>2. m \in new  BY <2>0, <3>2, <4>1, MaxIn
      <4>3. m \in (saved.upto + 1)..Len(log) /\ OutputRow(log, m)  BY <2>0, <4>2
      <4> QED BY <2>4, <3>2, <4>1, <4>3 DEF RecoveredText
    <3> QED BY <3>1, <3>2
  <2> QED BY <2>3, <2>4, <2>5
<1> QED BY Invariance, <1>1, PTL

\* A resumed turn skips no step and makes none up.
THEOREM StepsInOrder == Spec => []StepsContiguous
<1>1. IInv => StepsContiguous
  <2> SUFFICES ASSUME IInv, NEW i \in OfType(DOMAIN log, {"step.context_built"}), log[i].step > 0
               PROVE \E j \in OfTurn(OfType(1..(i - 1), {"step.tool_result"}), log[i].turn) :
                       log[j].step = log[i].step - 1
    BY DEF StepsContiguous
  <2>1. i \in 1..Len(log) /\ log[i].type \in StepEvents
    BY RowsTyped DEF OfType, IInv, StepEvents
  <2>2. StepBefore(log, i - 1, log[i].turn, log[i].step)  BY <2>1 DEF IInv, StepsDone
  <2> QED BY <2>2 DEF StepBefore, IsEvent, OfTurn, OfType
<1> QED BY Invariance, <1>1, PTL

\* The tools of a step do not run again once its results are durable, but in a
\* turn that had already given its answer.
THEOREM ToolsRunOnce == Spec => ToolsNotRepeated
<1> DEFINE A == (engine.pc = "tools" /\ engine'.pc = "toolRow") =>
                  LET rows == OfTurn(DOMAIN log, engine.turn)
                  IN  \/ \A i \in OfType(rows, {"step.tool_result"}) : log[i].step # engine.step
                      \/ OfType(rows, {"assistant.output"}) # {}
<1>1. IInv => A
  <2> SUFFICES ASSUME IInv, engine.pc = "tools",
                      OfType(OfTurn(DOMAIN log, engine.turn), {"assistant.output"}) = {},
                      NEW i \in OfType(OfTurn(DOMAIN log, engine.turn), {"step.tool_result"})
               PROVE log[i].step # engine.step
    BY DEF A
  <2>1. DOMAIN log = 1..Len(log) /\ Len(log) \in Nat  BY RowsTyped DEF IInv
  <2>2. ~Given(log, engine.turn)  BY <2>1 DEF Given, OutputRow, OfType, OfTurn
  <2>3. i \in 1..Len(log) /\ Results(log, i, engine.turn)  BY <2>1 DEF Results, OfType, OfTurn
  <2>4. ~AfterResults  BY DEF AfterResults
  <2>5. log[i].step < engine.step  BY <2>2, <2>3, <2>4 DEF IInv, ToolsOnce
  <2>6. log[i].step \in Int /\ engine.step \in Int
    BY <2>3, RowsTyped, StepsAssumption DEF IInv, TypeOK, Row, EngineRecord
  <2> QED BY <2>5, <2>6
<1> QED BY Invariance, <1>1, PTL DEF ToolsNotRepeated
=============================================================================
