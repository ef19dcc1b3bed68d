---------------------------- MODULE ExecutionRun ----------------------------
(***************************************************************************)
(* An execution run of packages/director-execution: one JSON document,     *)
(* run.json, that holds the run's status and its assignments.              *)
(*                                                                         *)
(* Every operation of ExecutionRunService loads the document, computes a   *)
(* new one and saves it, by a rename, with no lock and no version: between *)
(* the load and the save another process can save its own.  A call is     *)
(* therefore two steps here: Load computes the document to be saved from   *)
(* the one on disk and keeps it in call[p], Save replaces the one on disk. *)
(* The callers are director-worker processes, which apply the safety       *)
(* policy, claim, execute and complete in a loop, and the operator's       *)
(* requests to the host API.                                               *)
(***************************************************************************)
EXTENDS Naturals, FiniteSets

CONSTANTS
    Assignments,  \* assignmentId of every node of the action graph
    DependsOn,    \* assignment -> the assignments it waits for
    Gated,        \* assignments the blueprint marks operator_approve
    Timed,        \* assignments with a timeoutMs
    Adapters,     \* adapter ids
    Allowed,      \* assignment -> its allowedAdapters
    Policies,     \* safety policies the switch file can hold
    Workers,      \* director-worker processes
    Operators,    \* requests of the host API that can be in flight together
    NoAdapter,    \* selectedAdapter null
    MaxOps,       \* bound: operator requests
    MaxCrashes    \* bound: workers that die

VARIABLES
    run,      \* the document on disk
    call,     \* process -> the save it is about to do
    at,       \* worker -> where its loop is
    work,     \* worker -> the assignment it executes, and on which adapter
    ops,      \* operator requests made
    crashes,  \* workers that died
    overlapped, \* history: a save replaced a document its call had not read
    approved    \* history: assignments an operator request approved

vars == <<run, call, at, work, ops, crashes, overlapped, approved>>

AdapterIds == Adapters \cup {NoAdapter}
Processes == Workers \cup Operators

ASSUME GraphAssumption ==
    /\ DependsOn \in [Assignments -> SUBSET Assignments]
    /\ Allowed \in [Assignments -> SUBSET Adapters]
    /\ Gated \subseteq Assignments
    /\ NoAdapter \notin Adapters

ASSUME ProcessAssumption == Workers \cap Operators = {}

ASSUME BoundsAssumption == MaxOps \in Nat /\ MaxCrashes \in Nat

ASSUME PoliciesAssumption ==
    Policies \subseteq [pause : BOOLEAN, roles : SUBSET Assignments,
                        adapters : SUBSET Adapters]

RunStatuses == {"created", "running", "paused", "completed", "failed", "aborted"}
TerminalRun == {"completed", "failed", "aborted"}
Statuses == {"pending", "ready", "blocked", "running",
             "completed", "failed", "aborted", "skipped"}
TerminalAssignment == {"completed", "failed", "aborted", "skipped"}
Reopenable == {"failed", "aborted", "blocked", "skipped"}

\* What an execution reports: done, failed without a bridge (also a timeout),
\* a bridge failure worth a retry, a bridge failure that is not.
Outcomes == {"done", "failed", "retryable", "fatal"}
BridgeFailures == {"retryable", "fatal"}
RetryLimit == 1

(***************************************************************************)
(* One assignment.  notes is kept as the two facts the code reads from it: *)
(* how many retries were requested since the last reroute, and whether the *)
(* last request was a reroute.  bridgeFailures is a history field: bridge  *)
(* failures recorded since the last reroute.                               *)
(***************************************************************************)
AssignmentRun ==
    [status : Statuses, gate : BOOLEAN, adapter : AdapterIds,
     result : Outcomes \cup {"none"}, resultAdapter : AdapterIds,
     retries : Nat, rerouted : BOOLEAN, bridgeFailures : Nat]

Document == [status : RunStatuses, asg : [Assignments -> AssignmentRun]]

NoCall == [op |-> "none"]
NoWork == [asg |-> "none"]

(***************************************************************************)
(* Operators on documents.                                                 *)
(***************************************************************************)

Has(asg, S) == \E a \in Assignments : asg[a].status \in S
AllTerminal(asg) == \A a \in Assignments : asg[a].status \in TerminalAssignment

DependenciesSatisfied(asg, a) ==
    \A d \in DependsOn[a] : asg[d].status = "completed"

\* One pass over the pending assignments; it reads the statuses of before the pass.
Advance(asg) ==
    [a \in Assignments |->
        IF asg[a].status # "pending" THEN asg[a]
        ELSE IF \E d \in DependsOn[a] : asg[d].status \in {"failed", "aborted", "skipped"}
        THEN [asg[a] EXCEPT !.status = "blocked"]
        ELSE IF DependenciesSatisfied(asg, a) /\ ~asg[a].gate
        THEN [asg[a] EXCEPT !.status = "ready"]
        ELSE asg[a]]

\* Mutant: blocked work counts as over.
DeriveRunStatusIgnoringBlocked(status, asg) ==
    IF status \in {"aborted", "paused"} THEN status
    ELSE IF Has(asg, {"failed"}) THEN "failed"
    ELSE IF Has(asg, {"running", "ready", "pending"}) THEN "running" ELSE "completed"

DeriveRunStatus(status, asg) ==
    IF status = "aborted" THEN "aborted"
    ELSE IF status = "paused" THEN
        IF Has(asg, {"failed", "blocked"}) THEN "failed"
        ELSE IF AllTerminal(asg) THEN "completed" ELSE "paused"
    ELSE IF Has(asg, {"failed"}) THEN "failed"
    ELSE IF Has(asg, {"running", "ready", "pending"}) THEN "running"
    ELSE IF Has(asg, {"blocked"}) THEN "failed" ELSE "completed"

Settle(status, asg) == [status |-> DeriveRunStatus(status, asg), asg |-> asg]

NoResult(r) == [r EXCEPT !.result = "none", !.resultAdapter = NoAdapter]

Timeout(r) ==
    [r EXCEPT !.status = "failed", !.result = "failed", !.resultAdapter = r.adapter]

\* What the safety policy does to one assignment; T are those whose time is over.
Gate(asg, a, policy, T) ==
    IF asg[a].status = "running" /\ a \in T THEN Timeout(asg[a])
    ELSE IF asg[a].status \notin {"ready", "pending"} THEN asg[a]
    ELSE IF a \in policy.roles THEN [asg[a] EXCEPT !.status = "skipped"]
    ELSE IF ({asg[a].adapter} \cup Allowed[a]) \cap policy.adapters # {}
    THEN [NoResult(asg[a]) EXCEPT !.status = "blocked"]
    ELSE asg[a]

SafetyPolicy(doc, policy, T) ==
    LET gated == [a \in Assignments |-> Gate(doc.asg, a, policy, T)]
        next  == Settle(doc.status, Advance(gated))
    IN  IF policy.pause /\ doc.status = "running" /\ next.status = "running"
        THEN [next EXCEPT !.status = "paused"] ELSE next

Claim(doc, a) == [doc EXCEPT !.asg[a].status = "running"]

\* Mutant: the executor's word is taken for the status.
CompleteVerbatim(doc, a, outcome, adapter) ==
    Settle(doc.status, Advance([doc.asg EXCEPT ![a].status = outcome, ![a].result = outcome]))

WithResult(r, outcome, adapter) ==
    [r EXCEPT !.status = IF outcome = "done" THEN "completed" ELSE "failed",
              !.adapter = adapter, !.result = outcome, !.resultAdapter = adapter,
              !.bridgeFailures = r.bridgeFailures + IF outcome \in BridgeFailures THEN 1 ELSE 0]

Complete(doc, a, outcome, adapter) ==
    Settle(doc.status, Advance([doc.asg EXCEPT ![a] = WithResult(@, outcome, adapter)]))

Abort(doc) ==
    [status |-> "aborted",
     asg |-> [a \in Assignments |->
        IF doc.asg[a].status \in TerminalAssignment THEN doc.asg[a]
        ELSE [doc.asg[a] EXCEPT !.status = "aborted"]]]

\* Mutant: off by one.
RetryAllowedOnceMore(r) ==
    r.result \in BridgeFailures => r.result = "retryable" /\ r.retries =< RetryLimit

\* throwIfBridgeRetryIsDisallowed: only a bridge failure has a budget.
RetryAllowed(r) ==
    r.result \in BridgeFailures => r.result = "retryable" /\ r.retries < RetryLimit

\* Mutants: a retried assignment is ready at once, whatever it waits for, or
\* whoever has to approve it.
RetryAtOnce(doc, a) ==
    [status |-> IF doc.status = "paused" THEN "paused" ELSE "running",
     asg |-> [doc.asg EXCEPT ![a] =
        [NoResult(@) EXCEPT !.status = IF doc.asg[a].gate THEN "pending" ELSE "ready",
                            !.retries = @ + 1]]]

RetryUngated(doc, a) ==
    [status |-> IF doc.status = "paused" THEN "paused" ELSE "running",
     asg |-> [doc.asg EXCEPT ![a] =
        [NoResult(@) EXCEPT !.status = IF DependenciesSatisfied(doc.asg, a)
                                       THEN "ready" ELSE "pending",
                            !.retries = @ + 1]]]

Retry(doc, a) ==
    [status |-> IF doc.status = "paused" THEN "paused" ELSE "running",
     asg |-> [b \in Assignments |->
        IF b = a
        THEN [NoResult(doc.asg[a]) EXCEPT
                !.status = IF ~doc.asg[a].gate /\ DependenciesSatisfied(doc.asg, a)
                           THEN "ready" ELSE "pending",
                !.retries = @ + 1, !.rerouted = FALSE]
        ELSE IF doc.asg[b].status = "blocked" /\ a \in DependsOn[b]
        THEN [doc.asg[b] EXCEPT !.status = "pending"]
        ELSE doc.asg[b]]]

\* resolveConfiguredAdapterRoute
Route(r) ==
    IF r.adapter # NoAdapter /\ r.resultAdapter # NoAdapter /\ r.rerouted
    THEN r.adapter
    ELSE IF r.resultAdapter # NoAdapter THEN r.resultAdapter ELSE r.adapter

RerouteAllowed(r, a, adapter) ==
    /\ adapter \in Allowed[a]
    /\ adapter # Route(r)
    /\ Allowed[a] \ {Route(r), r.resultAdapter} # {}

Reroute(doc, a, adapter) ==
    [doc EXCEPT !.asg[a] = [doc.asg[a] EXCEPT !.adapter = adapter, !.retries = 0,
                                              !.rerouted = TRUE, !.bridgeFailures = 0]]

Approve(doc, a) ==
    LET asg == [doc.asg EXCEPT ![a] =
                  [@ EXCEPT !.gate = FALSE,
                            !.status = IF DependenciesSatisfied(doc.asg, a)
                                       THEN "ready" ELSE "pending"]]
    IN  IF doc.status = "created" THEN [doc EXCEPT !.asg = asg]
        ELSE Settle(doc.status, asg)

Start(doc) ==
    [doc EXCEPT !.status = IF Assignments = {} THEN "completed" ELSE "running"]

(***************************************************************************)
(* The initial document: buildFromBlueprint.  The planner gives an         *)
(* operator_approve node the status awaiting_approval (or blocked), and    *)
(* can give it to any other node when the review only warns.               *)
(***************************************************************************)

InitialStatuses(a) ==
    {"blocked", "pending"} \cup
    IF DependsOn[a] = {} /\ a \notin Gated THEN {"ready"} ELSE {}

FreshAssignment(a, status, adapter) ==
    [status |-> status, gate |-> a \in Gated, adapter |-> adapter, result |-> "none",
     resultAdapter |-> NoAdapter, retries |-> 0, rerouted |-> FALSE, bridgeFailures |-> 0]

Init ==
    /\ \E st \in [Assignments -> Statuses], ad \in [Assignments -> AdapterIds] :
        /\ \A a \in Assignments :
            /\ st[a] \in InitialStatuses(a)
            /\ ad[a] \in IF Allowed[a] = {} THEN {NoAdapter} ELSE Allowed[a]
        /\ run = [status |-> "created",
                  asg |-> [a \in Assignments |-> FreshAssignment(a, st[a], ad[a])]]
    /\ call = [p \in Processes |-> NoCall]
    /\ at = [w \in Workers |-> "idle"]
    /\ work = [w \in Workers |-> NoWork]
    /\ ops = 0
    /\ crashes = 0
    /\ overlapped = FALSE
    /\ approved = {}

(***************************************************************************)
(* Load and save.                                                          *)
(***************************************************************************)

\* stale is a history field: another save changed the document since the load.
Load(p, op, doc) ==
    /\ call[p] = NoCall
    /\ call' = [call EXCEPT ![p] = [op |-> op, doc |-> doc, stale |-> FALSE]]

\* The worker's loop goes on where the call it made returns.
AfterSave(w) ==
    CASE call[w].op = "start"    -> "started"
      [] call[w].op = "policy"   -> IF call[w].doc.status = "running" THEN "claim" ELSE "idle"
      [] call[w].op = "claim"    -> "execute"
      [] call[w].op = "complete" -> "policy"

Save(p) ==
    /\ call[p] # NoCall
    /\ run' = call[p].doc
    /\ overlapped' = (overlapped \/ call[p].stale)
    /\ call' = [q \in Processes |->
                  IF q = p \/ call[q] = NoCall THEN NoCall
                  ELSE [call[q] EXCEPT !.stale = @ \/ run' # run]]
    /\ IF p \in Workers
       THEN /\ at' = [at EXCEPT ![p] = AfterSave(p)]
            /\ work' = IF call[p].op = "complete" THEN [work EXCEPT ![p] = NoWork] ELSE work
       ELSE UNCHANGED <<at, work>>
    /\ UNCHANGED <<ops, crashes, approved>>

(***************************************************************************)
(* The worker: runOnce of apps/director-worker and runExecutionWorkerLoop. *)
(***************************************************************************)

\* reconcileRunWithSafetyPolicy, up to the policy: a created run is started
\* unless the switches stop executions.  On a terminal run the loop only reads.
WorkerBegins(w) ==
    /\ at[w] = "idle"
    /\ call[w] = NoCall
    /\ run.status \notin TerminalRun
    /\ IF run.status = "created"
       THEN /\ \E policy \in Policies : ~policy.pause
            /\ Load(w, "start", Start(run))
            /\ UNCHANGED at
       ELSE at' = [at EXCEPT ![w] = "policy"] /\ UNCHANGED call
    /\ UNCHANGED <<run, work, ops, crashes, overlapped, approved>>

\* A pass that changes nothing saves nothing.
WorkerAppliesPolicy(w) ==
    /\ at[w] \in {"started", "policy"}
    /\ call[w] = NoCall
    /\ \E policy \in Policies, T \in SUBSET Timed :
        /\ at[w] = "started" => ~policy.pause
        /\ LET doc == SafetyPolicy(run, policy, T)
           IN
           IF run.status \in TerminalRun \/ doc = run
           THEN /\ at' = [at EXCEPT ![w] = IF run.status = "running" THEN "claim" ELSE "idle"]
                /\ UNCHANGED call
           ELSE Load(w, "policy", doc) /\ UNCHANGED at
    /\ UNCHANGED <<run, work, ops, crashes, overlapped, approved>>

\* Mutant: work another worker executes is claimed too.
ClaimableAgain(a) ==
    run.asg[a].status \in {"ready", "running"} /\ DependenciesSatisfied(run.asg, a)

Claimable(a) == run.asg[a].status = "ready" /\ DependenciesSatisfied(run.asg, a)

WorkerClaims(w, a) ==
    /\ at[w] = "claim"
    /\ run.status = "running"
    /\ Claimable(a)
    /\ Load(w, "claim", Claim(run, a))
    /\ work' = [work EXCEPT ![w] = [asg |-> a, adapter |-> run.asg[a].adapter]]
    /\ UNCHANGED <<run, at, ops, crashes, overlapped, approved>>

\* Nothing is ready.  (The role a worker may be scoped to, which makes other roles'
\* work nothing to it, is left out.)
WorkerFindsNothing(w) ==
    /\ at[w] = "claim"
    /\ call[w] = NoCall
    /\ run.status # "running" \/ \A a \in Assignments : ~Claimable(a)
    /\ at' = [at EXCEPT ![w] = "idle"]
    /\ UNCHANGED <<run, call, work, ops, crashes, overlapped, approved>>

\* completeAssignment; it throws, and the loop ends, when the assignment is no
\* longer running.
WorkerReports(w, outcome) ==
    /\ at[w] = "execute"
    /\ call[w] = NoCall
    /\ LET a == work[w].asg IN
       IF run.asg[a].status = "running"
       THEN /\ Load(w, "complete", Complete(run, a, outcome, work[w].adapter))
            /\ UNCHANGED <<at, work>>
       ELSE /\ at' = [at EXCEPT ![w] = "idle"]
            /\ work' = [work EXCEPT ![w] = NoWork]
            /\ UNCHANGED call
    /\ UNCHANGED <<run, ops, crashes, overlapped, approved>>

\* The process dies, or runOnce lets the executor's error end the loop: a save
\* it had not done is lost, an assignment it had claimed stays running.
WorkerCrashes(w) ==
    /\ at[w] # "idle" \/ call[w] # NoCall
    /\ crashes < MaxCrashes
    /\ crashes' = crashes + 1
    /\ at' = [at EXCEPT ![w] = "idle"]
    /\ call' = [call EXCEPT ![w] = NoCall]
    /\ work' = [work EXCEPT ![w] = NoWork]
    /\ UNCHANGED <<run, ops, overlapped, approved>>

(***************************************************************************)
(* The operator's requests.                                                *)
(***************************************************************************)

Request(o, op, doc) ==
    /\ ops < MaxOps
    /\ ops' = ops + 1
    /\ Load(o, op, doc)
    /\ UNCHANGED <<run, at, work, crashes, overlapped>>

OperatorStarts(o) ==
    /\ run.status = "created"
    /\ Request(o, "start", Start(run))
    /\ UNCHANGED approved

OperatorPauses(o) ==
    /\ run.status = "running"
    /\ Request(o, "pause", [run EXCEPT !.status = "paused"])
    /\ UNCHANGED approved

OperatorResumes(o) ==
    /\ run.status = "paused"
    /\ Request(o, "resume", [run EXCEPT !.status = "running"])
    /\ UNCHANGED approved

\* Mutant: no look at the run's status.
OperatorAbortsAny(o) ==
    /\ Request(o, "abort", Abort(run))
    /\ UNCHANGED approved

OperatorAborts(o) ==
    /\ run.status \notin TerminalRun
    /\ Request(o, "abort", Abort(run))
    /\ UNCHANGED approved

OperatorRetries(o, a) ==
    /\ run.status \notin {"created", "completed", "aborted"}
    /\ run.asg[a].status \in Reopenable
    /\ RetryAllowed(run.asg[a])
    /\ Request(o, "retry", Retry(run, a))
    /\ UNCHANGED approved

OperatorReroutes(o, a, adapter) ==
    /\ run.status \notin {"created", "completed", "aborted"}
    /\ run.asg[a].status \in Reopenable
    /\ RerouteAllowed(run.asg[a], a, adapter)
    /\ Request(o, "reroute", Reroute(run, a, adapter))
    /\ UNCHANGED approved

OperatorApproves(o, a) ==
    /\ run.status \notin TerminalRun
    /\ run.asg[a].gate
    /\ run.asg[a].status = "pending"
    /\ Request(o, "approve", Approve(run, a))
    /\ approved' = approved \cup {a}

WorkerStep(w) ==
    \/ WorkerBegins(w)
    \/ WorkerAppliesPolicy(w)
    \/ \E a \in Assignments : WorkerClaims(w, a)
    \/ WorkerFindsNothing(w)
    \/ \E outcome \in Outcomes : WorkerReports(w, outcome)

OperatorStep(o) ==
    \/ OperatorStarts(o)
    \/ OperatorPauses(o)
    \/ OperatorResumes(o)
    \/ OperatorAborts(o)
    \/ \E a \in Assignments : OperatorRetries(o, a) \/ OperatorApproves(o, a)
    \/ \E a \in Assignments, adapter \in Adapters : OperatorReroutes(o, a, adapter)

Next ==
    \/ \E p \in Processes : Save(p)
    \/ \E w \in Workers : WorkerStep(w) \/ WorkerCrashes(w)
    \/ \E o \in Operators : OperatorStep(o)

Spec == Init /\ [][Next]_vars

-----------------------------------------------------------------------------
(***************************************************************************)
(* Properties.                                                             *)
(***************************************************************************)

Calls ==
    {NoCall} \cup
    [op : {"start", "policy", "claim", "complete", "pause", "resume", "abort",
           "retry", "reroute", "approve"},
     doc : Document, stale : BOOLEAN]

\* Every variable has its type.
TypeOK ==
    /\ run \in Document
    /\ call \in [Processes -> Calls]
    /\ at \in [Workers -> {"idle", "started", "policy", "claim", "execute"}]
    /\ work \in [Workers -> {NoWork} \cup [asg : Assignments, adapter : AdapterIds]]
    /\ ops \in 0..MaxOps
    /\ crashes \in 0..MaxCrashes
    /\ overlapped \in BOOLEAN
    /\ approved \subseteq Assignments

\* Work is offered, executed and finished only after everything it depends on,
\* through retries, reroutes, approvals and policy passes, and although saves
\* overwrite each other: no stale document can bring an assignment forward.
DependenciesFirst ==
    \A a \in Assignments : run.asg[a].status \in {"ready", "running", "completed"} =>
        DependenciesSatisfied(run.asg, a)

\* A run is reported over only when nothing in it can still go on: a completed
\* run has no failed, blocked or open assignment, an aborted one no open one.
OverMeansSettled ==
    /\ run.status = "completed" =>
        \A a \in Assignments : run.asg[a].status \in {"completed", "aborted", "skipped"}
    /\ run.status = "aborted" => AllTerminal(run.asg)

\* An operator_approve assignment is not offered or executed before an operator
\* request approved it: a retry, a policy pass and an overwritten approval
\* cannot stand in for one.
OperatorGate ==
    \A a \in Gated : run.asg[a].status \in {"ready", "running", "completed"} =>
        a \in approved

\* The retry budget: whatever mix of plain failures, retries and policy blocks
\* an assignment goes through, one route records at most two bridge failures.
RouteFailsAtMostTwice ==
    \A a \in Assignments : run.asg[a].bridgeFailures =< RetryLimit + 1

\* While saves have not overlapped, an executing worker owns its assignment: no
\* other worker executes it, and only an abort or a timeout takes it away.
ExecutorOwnsAssignment ==
    ~overlapped => \A w \in Workers : at[w] = "execute" /\ work[w].asg \notin Timed =>
        /\ run.asg[work[w].asg].status \in {"running", "aborted"}
        /\ \A v \in Workers \ {w} : at[v] = "execute" => work[v].asg # work[w].asg

\* Only a save over a document its call had not read takes a completed
\* assignment back, or brings a completed or aborted run back.
FinishedStands ==
    [][ ~overlapped' =>
          /\ run.status \in {"completed", "aborted"} => run' = run
          /\ \A a \in Assignments : run.asg[a].status = "completed" =>
                run'.asg[a].status = "completed" ]_vars

\* tests/ExecutionRunService.test.ts:1523, "skips disabled roles and blocks their
\* dependents under safety policy": what waits for blocked dependents of skipped
\* work is blocked too, so that the run can end.
DependentsOfSkippedBlock ==
    \A a \in Assignments : \A d \in DependsOn[a] : \A e \in DependsOn[d] :
        run.asg[e].status = "skipped" /\ run.asg[d].status = "blocked" =>
            run.asg[a].status # "pending"
=============================================================================
