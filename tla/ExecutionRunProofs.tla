------------------------- MODULE ExecutionRunProofs -------------------------
(***************************************************************************)
(* Every document that any interleaving of loads and saves puts on disk is *)
(* a document the service's operations can produce one after the other:    *)
(* the invariant speaks of single documents, each operation preserves it,  *)
(* and a stale save brings back a document that satisfied it.              *)
(***************************************************************************)
EXTENDS ExecutionRun, TLAPS

\* One assignment's fields agree with each other: only a finished assignment
\* has a result, and a bridge failure after the first one has used the retry.
RecordInv(r) ==
    /\ r.status \notin {"completed", "failed"} => r.result = "none"
    /\ r.gate => r.status \notin {"ready", "running", "completed"}
    /\ r.result \notin BridgeFailures =>
            r.bridgeFailures =< 1 /\ (r.bridgeFailures = 1 => r.retries >= 1)
    /\ r.result \in BridgeFailures =>
            r.bridgeFailures =< 2 /\ (r.bridgeFailures = 2 => r.retries >= 1)

\* S are the assignments an operator approved.
AsgInv(asg, S) ==
    /\ asg \in [Assignments -> AssignmentRun]
    /\ \A a \in Assignments :
        /\ RecordInv(asg[a])
        /\ a \in Gated /\ a \notin S => asg[a].gate
        /\ asg[a].status \in {"ready", "running", "completed"} =>
                \A d \in DependsOn[a] : asg[d].status = "completed"

Settled(doc) ==
    /\ doc.status = "completed" =>
        \A a \in Assignments : doc.asg[a].status \in {"completed", "aborted", "skipped"}
    /\ doc.status = "aborted" => AllTerminal(doc.asg)

DocInv(doc, S) == doc \in Document /\ AsgInv(doc.asg, S) /\ Settled(doc)

WorkerOps == {"start", "policy", "claim", "complete"}

IInv ==
    /\ TypeOK
    /\ DocInv(run, approved)
    /\ \A p \in Processes : call[p] # NoCall => DocInv(call[p].doc, approved)
    /\ \A w \in Workers : call[w] # NoCall => call[w].op \in WorkerOps
    /\ \A w \in Workers :
        at[w] = "execute" \/ call[w].op = "claim" =>
            work[w] \in [asg : Assignments, adapter : AdapterIds]

-----------------------------------------------------------------------------
(***************************************************************************)
(* The operators on documents.                                             *)
(***************************************************************************)

\* A pass of Advance only opens an assignment whose dependencies are completed
\* and which needs nobody's approval.
LEMMA AdvanceKeeps ==
    ASSUME NEW S, NEW asg, AsgInv(asg, S)
    PROVE  /\ AsgInv(Advance(asg), S)
           /\ AllTerminal(asg) => AllTerminal(Advance(asg))
<1> DEFINE new == Advance(asg)
<1>1. new \in [Assignments -> AssignmentRun]
      BY GraphAssumption DEF AsgInv, Advance, AssignmentRun, Statuses
<1>2. \A d \in Assignments : asg[d].status = "completed" => new[d].status = "completed"
      BY DEF Advance, AsgInv
<1>3. ASSUME NEW a \in Assignments
      PROVE  /\ RecordInv(new[a])
             /\ a \in Gated /\ a \notin S => new[a].gate
             /\ new[a].status \in {"ready", "running", "completed"} =>
                    \A d \in DependsOn[a] : new[d].status = "completed"
  <2>1. CASE asg[a].status # "pending"
        BY <2>1, <1>2, GraphAssumption DEF AsgInv, Advance
  <2>2. CASE asg[a].status = "pending"
    <3>1. new[a] \in {asg[a], [asg[a] EXCEPT !.status = "blocked"],
                      [asg[a] EXCEPT !.status = "ready"]}
          BY DEF Advance
    <3>2. asg[a] \in AssignmentRun  BY DEF AsgInv
    <3>3. new[a].status = "ready" =>
            ~asg[a].gate /\ \A d \in DependsOn[a] : asg[d].status = "completed"
          BY <2>2, <3>2 DEF Advance, DependenciesSatisfied, AssignmentRun
    <3>4. RecordInv(new[a]) /\ (a \in Gated /\ a \notin S => new[a].gate)
          BY <2>2, <3>1, <3>2, <3>3 DEF AsgInv, RecordInv, AssignmentRun
    <3>5. new[a].status \in {"pending", "blocked", "ready"}
          BY <2>2, <3>1, <3>2 DEF AssignmentRun
    <3> QED  BY <3>3, <3>4, <3>5, <1>2, GraphAssumption
  <2> QED  BY <2>1, <2>2
<1>4. AllTerminal(asg) => AllTerminal(new)
      BY DEF AllTerminal, Advance, TerminalAssignment
<1> QED  BY <1>1, <1>3, <1>4 DEF AsgInv

\* The status derived for a document never claims more than its assignments say.
LEMMA SettleKeeps ==
    ASSUME NEW S, NEW asg, NEW status \in RunStatuses, AsgInv(asg, S),
           status = "aborted" => AllTerminal(asg)
    PROVE  DocInv(Settle(status, asg), S)
<1>1. Settle(status, asg) \in Document
      BY DEF Settle, Document, AsgInv, DeriveRunStatus, RunStatuses
<1>2. \A a \in Assignments : asg[a].status \in Statuses
      BY DEF AsgInv, AssignmentRun
<1>3. DeriveRunStatus(status, asg) = "aborted" => AllTerminal(asg)
      BY DEF DeriveRunStatus
<1>4. DeriveRunStatus(status, asg) = "completed" =>
        \A a \in Assignments : asg[a].status \in {"completed", "aborted", "skipped"}
      BY <1>2 DEF DeriveRunStatus, Has, AllTerminal, TerminalAssignment, Statuses
<1> QED  BY <1>1, <1>3, <1>4 DEF DocInv, Settle, Settled

\* The policy opens nothing: it fails, skips and blocks, then Advance passes.
LEMMA SafetyPolicyKeeps ==
    ASSUME NEW S, NEW doc, DocInv(doc, S), doc.status \notin TerminalRun,
           NEW policy \in Policies, NEW T
    PROVE  DocInv(SafetyPolicy(doc, policy, T), S)
<1> DEFINE gated == [a \in Assignments |-> Gate(doc.asg, a, policy, T)]
           next == Settle(doc.status, Advance(gated))
<1>1. ASSUME NEW a \in Assignments
      PROVE  /\ gated[a] \in AssignmentRun
             /\ RecordInv(gated[a])
             /\ gated[a].gate = doc.asg[a].gate
             /\ gated[a].status \in {"ready", "running", "completed"} =>
                    gated[a].status = doc.asg[a].status
             /\ doc.asg[a].status = "completed" => gated[a].status = "completed"
  <2>1. doc.asg[a] \in AssignmentRun /\ RecordInv(doc.asg[a])
        BY DEF DocInv, AsgInv
  <2> DEFINE r == doc.asg[a]
  <2>2. \/ r.status = "running" /\ gated[a] = Timeout(r)
        \/ gated[a] = r
        \/ r.status \in {"ready", "pending"} /\ gated[a] = [r EXCEPT !.status = "skipped"]
        \/ /\ r.status \in {"ready", "pending"}
           /\ gated[a] = [NoResult(r) EXCEPT !.status = "blocked"]
        BY DEF Gate
  <2> HIDE DEF r, gated
  <2>3. CASE r.status = "running" /\ gated[a] = Timeout(r)
    <3>1. gated[a] = [r EXCEPT !.status = "failed", !.result = "failed",
                                !.resultAdapter = r.adapter]
          BY <2>3 DEF Timeout
    <3> QED  BY <2>1, <2>3, <3>1
             DEF r, AssignmentRun, RecordInv, Statuses, Outcomes, BridgeFailures
  <2>4. CASE gated[a] = r
        BY <2>1, <2>4 DEF r
  <2>5. CASE r.status \in {"ready", "pending"} /\ gated[a] = [r EXCEPT !.status = "skipped"]
        BY <2>1, <2>5 DEF r, AssignmentRun, RecordInv, Statuses
  <2>6. CASE /\ r.status \in {"ready", "pending"}
             /\ gated[a] = [NoResult(r) EXCEPT !.status = "blocked"]
    <3>1. gated[a] = [r EXCEPT !.status = "blocked", !.result = "none",
                                !.resultAdapter = NoAdapter]
          BY <2>1, <2>6 DEF r, NoResult, AssignmentRun
    <3> QED  BY <2>1, <2>6, <3>1
             DEF r, AssignmentRun, RecordInv, Statuses, BridgeFailures, AdapterIds
  <2> QED  BY <2>2, <2>3, <2>4, <2>5, <2>6
<1>2. AsgInv(gated, S)
  <2>1. gated \in [Assignments -> AssignmentRun]  BY <1>1
  <2>2. \A a \in Assignments : DependsOn[a] \subseteq Assignments  BY GraphAssumption
  <2> HIDE DEF gated
  <2> QED  BY <1>1, <2>1, <2>2 DEF AsgInv, DocInv
<1>3. DocInv(next, S)
  <2> HIDE DEF gated
  <2> QED  BY <1>2, AdvanceKeeps, SettleKeeps
           DEF DocInv, Document, TerminalRun, RunStatuses
<1>4. DocInv([next EXCEPT !.status = "paused"], S)
  <2> HIDE DEF next
  <2> QED  BY <1>3 DEF DocInv, Document, Settled, RunStatuses
<1> QED  BY <1>3, <1>4 DEF SafetyPolicy

LEMMA ClaimKeeps ==
    ASSUME NEW S, NEW doc, DocInv(doc, S), doc.status = "running", NEW a \in Assignments,
           doc.asg[a].status = "ready"
    PROVE  DocInv(Claim(doc, a), S)
<1> DEFINE new == [doc.asg EXCEPT ![a].status = "running"]
<1>1. new \in [Assignments -> AssignmentRun]
      BY DEF DocInv, AsgInv, AssignmentRun, Statuses
<1>2. \A b \in Assignments : RecordInv(new[b]) /\ (b \in Gated /\ b \notin S => new[b].gate)
      BY DEF DocInv, AsgInv, RecordInv, AssignmentRun
<1>3. \A b \in Assignments : new[b].status \in {"ready", "running", "completed"} =>
        \A d \in DependsOn[b] : new[d].status = "completed"
      BY GraphAssumption DEF DocInv, AsgInv, AssignmentRun
<1>4. Claim(doc, a) = [status |-> "running", asg |-> new]
      BY DEF Claim, DocInv, Document
<1> QED  BY <1>1, <1>2, <1>3, <1>4 DEF DocInv, AsgInv, Settled, Document, RunStatuses

LEMMA CompleteKeeps ==
    ASSUME NEW S, NEW doc, DocInv(doc, S), NEW a \in Assignments,
           doc.asg[a].status = "running", NEW outcome \in Outcomes, NEW adapter \in AdapterIds
    PROVE  DocInv(Complete(doc, a, outcome, adapter), S)
<1> DEFINE rec == WithResult(doc.asg[a], outcome, adapter)
           new == [doc.asg EXCEPT ![a] = rec]
<1>0. doc.asg \in [Assignments -> AssignmentRun]
      BY DEF DocInv, AsgInv
<1>1. doc.asg[a] \in AssignmentRun /\ RecordInv(doc.asg[a])
      BY DEF DocInv, AsgInv
<1>2. /\ rec \in AssignmentRun
      /\ RecordInv(rec)
      /\ rec.gate = doc.asg[a].gate
      /\ rec.status \in {"completed", "failed"}
  <2> DEFINE old == doc.asg[a]
             n == old.bridgeFailures + IF outcome \in BridgeFailures THEN 1 ELSE 0
             s == IF outcome = "done" THEN "completed" ELSE "failed"
  <2>1. n \in Nat /\ s \in {"completed", "failed"}
        BY <1>1 DEF AssignmentRun
  <2>2. /\ rec.status = s /\ rec.gate = old.gate /\ rec.result = outcome
        /\ rec.retries = old.retries /\ rec.bridgeFailures = n
        BY <1>1 DEF AssignmentRun, WithResult
  <2>3. rec \in AssignmentRun
        BY <1>1, <2>1 DEF AssignmentRun, Statuses, WithResult
  <2>4. old.result = "none" /\ ~old.gate
        BY <1>1 DEF RecordInv, AssignmentRun
  <2>5. old.bridgeFailures =< 1 /\ (old.bridgeFailures = 1 => old.retries >= 1)
        BY <1>1, <2>4 DEF RecordInv, BridgeFailures
  <2>7. old.bridgeFailures \in Nat /\ old.retries \in Nat
        BY <1>1 DEF AssignmentRun
  <2>6. /\ rec.result \notin BridgeFailures => rec.bridgeFailures = old.bridgeFailures
        /\ rec.result \in BridgeFailures => rec.bridgeFailures = old.bridgeFailures + 1
        /\ rec.retries = old.retries /\ rec.status = s /\ rec.gate = old.gate
        BY <2>2, <2>7
  <2> HIDE DEF n, s
  <2>8. RecordInv(rec)
        BY <2>1, <2>4, <2>5, <2>6, <2>7 DEF RecordInv
  <2> QED  BY <2>1, <2>3, <2>6, <2>8
<1>3. AsgInv(new, S)
  <2> HIDE DEF rec
  <2> QED  BY <1>2, GraphAssumption DEF DocInv, AsgInv
<1>4. doc.status # "aborted"
      BY DEF DocInv, Settled, AllTerminal, TerminalAssignment
<1>5. doc.status \in RunStatuses  BY DEF DocInv, Document
<1>6. Complete(doc, a, outcome, adapter) = Settle(doc.status, Advance(new))
      BY <1>0 DEF Complete
<1> HIDE DEF new
<1> QED  BY <1>3, <1>4, <1>5, <1>6, AdvanceKeeps, SettleKeeps

LEMMA AbortKeeps ==
    ASSUME NEW S, NEW doc, DocInv(doc, S)
    PROVE  DocInv(Abort(doc), S)
<1> DEFINE new == Abort(doc).asg
<1>1. ASSUME NEW a \in Assignments
      PROVE  /\ new[a] \in AssignmentRun
             /\ RecordInv(new[a])
             /\ new[a].gate = doc.asg[a].gate
             /\ new[a].status \in TerminalAssignment
             /\ new[a].status = "completed" <=> doc.asg[a].status = "completed"
  <2>1. doc.asg[a] \in AssignmentRun /\ RecordInv(doc.asg[a])
        BY DEF DocInv, AsgInv
  <2> QED  BY <2>1 DEF Abort, AssignmentRun, RecordInv, Statuses, TerminalAssignment,
                       BridgeFailures
<1>2. new \in [Assignments -> AssignmentRun]
      BY <1>1 DEF Abort
<1>3. Abort(doc) = [status |-> "aborted", asg |-> new]
      BY DEF Abort
<1>4. AsgInv(new, S)
  <2> HIDE DEF new
  <2> QED  BY <1>1, <1>2, GraphAssumption DEF AsgInv, DocInv, TerminalAssignment
<1> HIDE DEF new
<1> QED  BY <1>1, <1>2, <1>3, <1>4
         DEF DocInv, Document, Settled, AllTerminal, RunStatuses

\* A retry is ready only when its own guards hold, and takes back no completed work.
LEMMA RetryKeeps ==
    ASSUME NEW S, NEW doc, DocInv(doc, S), NEW a \in Assignments,
           doc.asg[a].status \in Reopenable, RetryAllowed(doc.asg[a])
    PROVE  DocInv(Retry(doc, a), S)
<1> DEFINE new == Retry(doc, a).asg
<1>1. ASSUME NEW b \in Assignments
      PROVE  /\ new[b] \in AssignmentRun
             /\ RecordInv(new[b])
             /\ new[b].gate = doc.asg[b].gate
             /\ doc.asg[b].status = "completed" => new[b].status = "completed"
             /\ new[b].status \in {"ready", "running", "completed"} =>
                  \A d \in DependsOn[b] : doc.asg[d].status = "completed"
  <2>1. doc.asg[b] \in AssignmentRun /\ RecordInv(doc.asg[b])
        BY DEF DocInv, AsgInv
  <2>2. CASE b = a
    <3>1. new[b] = [NoResult(doc.asg[a]) EXCEPT
                      !.status = IF ~doc.asg[a].gate /\ DependenciesSatisfied(doc.asg, a)
                                 THEN "ready" ELSE "pending",
                      !.retries = @ + 1, !.rerouted = FALSE]
          BY <2>2 DEF Retry
    <3>2. new[b] \in AssignmentRun
      <4>1. NoResult(doc.asg[a]) \in AssignmentRun
            BY <2>1, <2>2 DEF NoResult, AssignmentRun, AdapterIds
      <4>2. NoResult(doc.asg[a]).retries + 1 \in Nat
            BY <4>1 DEF AssignmentRun
      <4> QED  BY <3>1, <4>1, <4>2 DEF AssignmentRun, Statuses
    <3>3. new[b].status \in {"ready", "pending"} /\ new[b].result = "none"
          BY <2>1, <2>2, <3>1 DEF NoResult, AssignmentRun
    <3>4. new[b].gate = doc.asg[b].gate /\ (new[b].gate => new[b].status = "pending")
          BY <2>1, <2>2, <3>1 DEF NoResult, AssignmentRun
    <3>5. new[b].bridgeFailures = doc.asg[b].bridgeFailures
          /\ new[b].retries = doc.asg[b].retries + 1
          BY <2>1, <2>2, <3>1 DEF NoResult, AssignmentRun
    <3>6. new[b].bridgeFailures =< 1 /\ new[b].retries >= 1
          BY <2>1, <2>2, <3>5
             DEF RetryAllowed, RecordInv, AssignmentRun, RetryLimit, BridgeFailures, Outcomes
    <3>7. RecordInv(new[b])
          BY <3>3, <3>4, <3>6 DEF RecordInv, BridgeFailures
    <3>8. new[b].status = "ready" => DependenciesSatisfied(doc.asg, b)
          BY <2>1, <2>2, <3>1 DEF NoResult, AssignmentRun
    <3> QED  BY <2>2, <3>2, <3>3, <3>4, <3>7, <3>8
             DEF DependenciesSatisfied, Reopenable
  <2>3. CASE b # a
    <3>1. new[b] \in {doc.asg[b], [doc.asg[b] EXCEPT !.status = "pending"]}
          BY <2>3 DEF Retry
    <3>2. new[b] # doc.asg[b] => doc.asg[b].status = "blocked"
          BY <2>3 DEF Retry
    <3>3. CASE new[b] = doc.asg[b]
          BY <2>1, <3>3 DEF DocInv, AsgInv
    <3>4. CASE new[b] = [doc.asg[b] EXCEPT !.status = "pending"] /\ new[b] # doc.asg[b]
          BY <2>1, <3>2, <3>4 DEF RecordInv, AssignmentRun, Statuses
    <3> QED  BY <3>1, <3>3, <3>4
  <2> QED  BY <2>2, <2>3
<1>2. new \in [Assignments -> AssignmentRun]
      BY <1>1 DEF Retry
<1>3. Retry(doc, a) = [status |-> Retry(doc, a).status, asg |-> new]
      /\ Retry(doc, a).status \in {"paused", "running"}
      BY DEF Retry
<1>4. AsgInv(new, S)
  <2> HIDE DEF new
  <2> QED  BY <1>1, <1>2, GraphAssumption DEF AsgInv, DocInv
<1> HIDE DEF new
<1> QED  BY <1>2, <1>3, <1>4 DEF DocInv, Document, Settled, RunStatuses

LEMMA RerouteKeeps ==
    ASSUME NEW S, NEW doc, DocInv(doc, S), NEW a \in Assignments, NEW adapter \in Adapters
    PROVE  DocInv(Reroute(doc, a, adapter), S)
<1> DEFINE rec == [doc.asg[a] EXCEPT !.adapter = adapter, !.retries = 0,
                                     !.rerouted = TRUE, !.bridgeFailures = 0]
           new == [doc.asg EXCEPT ![a] = rec]
<1>1. doc.asg[a] \in AssignmentRun /\ RecordInv(doc.asg[a])
      BY DEF DocInv, AsgInv
<1>2. rec \in AssignmentRun /\ RecordInv(rec) /\ rec.gate = doc.asg[a].gate
      /\ rec.status = doc.asg[a].status
  <2>1. /\ rec.status = doc.asg[a].status /\ rec.gate = doc.asg[a].gate
        /\ rec.result = doc.asg[a].result /\ rec.retries = 0 /\ rec.bridgeFailures = 0
        BY <1>1 DEF AssignmentRun
  <2>2. rec \in AssignmentRun  BY <1>1 DEF AssignmentRun, AdapterIds
  <2> QED  BY <1>1, <2>1, <2>2 DEF RecordInv
<1>3. Reroute(doc, a, adapter) = [doc EXCEPT !.asg = new]
      BY DEF Reroute, DocInv, Document
<1>4. \A b \in Assignments : new[b].status = doc.asg[b].status
      BY <1>2 DEF DocInv, AsgInv
<1>5. AsgInv(new, S)
  <2> HIDE DEF rec
  <2> QED  BY <1>2, GraphAssumption DEF DocInv, AsgInv
<1> HIDE DEF new
<1> QED  BY <1>3, <1>4, <1>5 DEF DocInv, Document, Settled, AllTerminal, AsgInv

\* The one operation that opens the gate.
LEMMA ApproveKeeps ==
    ASSUME NEW S, NEW doc, DocInv(doc, S), doc.status \notin TerminalRun,
           NEW a \in Assignments, doc.asg[a].status = "pending"
    PROVE  DocInv(Approve(doc, a), S \cup {a})
<1> DEFINE rec == [doc.asg[a] EXCEPT !.gate = FALSE,
                      !.status = IF DependenciesSatisfied(doc.asg, a)
                                 THEN "ready" ELSE "pending"]
           new == [doc.asg EXCEPT ![a] = rec]
<1>1. doc.asg[a] \in AssignmentRun /\ RecordInv(doc.asg[a])
      BY DEF DocInv, AsgInv
<1>2. rec \in AssignmentRun /\ RecordInv(rec) /\ rec.status \in {"ready", "pending"}
      /\ (rec.status = "ready" => DependenciesSatisfied(doc.asg, a))
      BY <1>1 DEF AssignmentRun, RecordInv, Statuses
<1>3. AsgInv(new, S \cup {a})
  <2> HIDE DEF rec
  <2> QED  BY <1>2, GraphAssumption DEF DocInv, AsgInv, DependenciesSatisfied
<1>4. doc.status \in RunStatuses  BY DEF DocInv, Document
<1>5. Approve(doc, a) = IF doc.status = "created" THEN [doc EXCEPT !.asg = new]
                        ELSE Settle(doc.status, new)
      BY DEF Approve
<1> HIDE DEF new
<1>6. DocInv(Settle(doc.status, new), S \cup {a})
      BY <1>3, <1>4, SettleKeeps DEF TerminalRun
<1>7. doc.status = "created" => DocInv([doc EXCEPT !.asg = new], S \cup {a})
      BY <1>3 DEF DocInv, Document, Settled, AsgInv
<1> QED  BY <1>5, <1>6, <1>7

\* Starting, pausing and resuming change the status of a run that is not over.
LEMMA StatusKeeps ==
    ASSUME NEW S, NEW doc, DocInv(doc, S), NEW status \in {"running", "paused"}
    PROVE  DocInv([doc EXCEPT !.status = status], S)
BY DEF DocInv, Document, Settled, RunStatuses

LEMMA StartKeeps ==
    ASSUME NEW S, NEW doc, DocInv(doc, S)
    PROVE  DocInv(Start(doc), S)
BY DEF Start, DocInv, Document, Settled, RunStatuses

LEMMA ApprovedGrows ==
    ASSUME NEW S, NEW S2, S \subseteq S2, NEW doc, DocInv(doc, S)
    PROVE  DocInv(doc, S2)
BY DEF DocInv, AsgInv
-----------------------------------------------------------------------------
(***************************************************************************)
(* The steps.                                                              *)
(***************************************************************************)

OpNames == {"start", "policy", "claim", "complete", "pause", "resume", "abort",
            "retry", "reroute", "approve"}

\* A load keeps a document that satisfies the invariant for the save.
LEMMA LoadKeeps ==
    ASSUME IInv, NEW p \in Processes, NEW op \in OpNames, NEW doc,
           approved \subseteq approved', DocInv(doc, approved'), Load(p, op, doc),
           p \in Workers => op \in WorkerOps
    PROVE  /\ call' \in [Processes -> Calls]
           /\ \A q \in Processes : call'[q] # NoCall => DocInv(call'[q].doc, approved')
           /\ \A w \in Workers : call'[w] # NoCall => call'[w].op \in WorkerOps
           /\ \A q \in Processes : q # p => call'[q] = call[q]
           /\ call'[p].op = op
<1> DEFINE new == [op |-> op, doc |-> doc, stale |-> FALSE]
<1>1. call \in [Processes -> Calls]  BY DEF IInv, TypeOK
<1>2. call' = [call EXCEPT ![p] = new]  BY DEF Load
<1>3. new \in Calls  BY DEF Calls, DocInv, OpNames
<1>4. \A q \in Processes : call[q] # NoCall => DocInv(call[q].doc, approved')
      BY ApprovedGrows DEF IInv
<1>5. Workers \subseteq Processes  BY DEF Processes
<1>6. \A q \in Processes : call'[q] = IF q = p THEN new ELSE call[q]
      BY <1>1, <1>2
<1>7. new.op = op /\ new.doc = doc  OBVIOUS
<1>8. call' \in [Processes -> Calls]  BY <1>1, <1>2, <1>3
<1> HIDE DEF new
<1> QED  BY <1>4, <1>5, <1>6, <1>7, <1>8 DEF IInv

\* A save puts on disk what its load computed, and marks the other loads stale.
LEMMA SaveKeeps ==
    ASSUME IInv, NEW p \in Processes, Save(p)
    PROVE  IInv'
<1> USE DEF IInv
<1>1. call[p] \in Calls /\ call[p] # NoCall /\ DocInv(call[p].doc, approved)
      BY DEF Save, TypeOK
<1>2. approved' = approved /\ run' = call[p].doc /\ ops' = ops /\ crashes' = crashes
      BY DEF Save
<1>3. call[p] \in [op : OpNames, doc : Document, stale : BOOLEAN]
      BY <1>1 DEF Calls, OpNames
<1>4. overlapped' \in BOOLEAN  BY <1>3 DEF Save, TypeOK
<1>5. ASSUME NEW q \in Processes
      PROVE  /\ call'[q] \in Calls
             /\ call'[q] = NoCall \/ (/\ call[q] # NoCall /\ call'[q].doc = call[q].doc
                                     /\ call'[q].op = call[q].op)
  <2>1. CASE q = p \/ call[q] = NoCall
        BY <2>1 DEF Save, Calls
  <2>2. CASE ~(q = p \/ call[q] = NoCall)
    <3>1. call[q] \in [op : OpNames, doc : Document, stale : BOOLEAN]
          BY <2>2 DEF TypeOK, Calls, OpNames
    <3>2. call'[q] = [call[q] EXCEPT !.stale = @ \/ run' # run]
          BY <2>2 DEF Save
    <3>3. call'[q] \in [op : OpNames, doc : Document, stale : BOOLEAN]
          BY <3>1, <3>2
    <3>4. call'[q].doc = call[q].doc /\ call'[q].op = call[q].op
          BY <3>1, <3>2
    <3> QED  BY <2>2, <3>3, <3>4 DEF Calls, OpNames
  <2> QED  BY <2>1, <2>2
<1>6. call' \in [Processes -> Calls]
  <2>1. call' = [q \in Processes |-> IF q = p \/ call[q] = NoCall THEN NoCall
                                     ELSE [call[q] EXCEPT !.stale = @ \/ run' # run]]
        BY DEF Save
  <2>2. call' = [q \in Processes |-> call'[q]]  BY <2>1
  <2> QED  BY <1>5, <2>2
<1>7. Workers \subseteq Processes  BY DEF Processes
<1>8. \A q \in Processes : call'[q] # NoCall => DocInv(call'[q].doc, approved')
      BY <1>2, <1>5
<1>9. \A w \in Workers : call'[w] # NoCall => call'[w].op \in WorkerOps
      BY <1>5, <1>7
<1>10. CASE p \in Workers
  <2>1. call[p].op \in WorkerOps  BY <1>1, <1>10
  <2>2. AfterSave(p) \in {"idle", "started", "policy", "claim", "execute"}
        BY <2>1 DEF AfterSave, WorkerOps
  <2>3. AfterSave(p) = "execute" => call[p].op = "claim"
        BY <2>1 DEF AfterSave, WorkerOps
  <2>4. at' = [at EXCEPT ![p] = AfterSave(p)]
        BY <1>10 DEF Save
  <2>5. work' = work \/ (call[p].op = "complete" /\ work' = [work EXCEPT ![p] = NoWork])
        BY <1>10 DEF Save
  <2>6. at' \in [Workers -> {"idle", "started", "policy", "claim", "execute"}]
        BY <2>2, <2>4 DEF TypeOK
  <2>7. work' \in [Workers -> {NoWork} \cup [asg : Assignments, adapter : AdapterIds]]
        BY <2>5 DEF TypeOK
  <2>8. ASSUME NEW w \in Workers, at'[w] = "execute" \/ call'[w].op = "claim"
        PROVE  work'[w] \in [asg : Assignments, adapter : AdapterIds]
    <3>1. CASE w = p
      <4>1. call'[w] = NoCall  BY <3>1, <1>7 DEF Save
      <4>2. at'[w] = AfterSave(p)  BY <2>4, <3>1 DEF TypeOK
      <4>3. call[p].op = "claim"  BY <2>8, <2>3, <4>1, <4>2 DEF NoCall
      <4> QED  BY <2>5, <3>1, <4>3
    <3>2. CASE w # p
      <4>1. at'[w] = at[w] /\ work'[w] = work[w]
            BY <2>4, <2>5, <3>2 DEF TypeOK
      <4>2. call'[w].op = "claim" => call[w].op = "claim"
            BY <1>5, <1>7 DEF NoCall
      <4> QED  BY <2>8, <4>1, <4>2
    <3> QED  BY <3>1, <3>2
  <2> QED  BY <1>1, <1>2, <1>4, <1>6, <1>8, <1>9, <2>6, <2>7, <2>8 DEF TypeOK, DocInv
<1>11. CASE p \notin Workers
  <2>1. at' = at /\ work' = work  BY <1>11 DEF Save
  <2>2. \A w \in Workers : call'[w].op = "claim" => call[w].op = "claim"
        BY <1>5, <1>7 DEF NoCall
  <2> QED  BY <1>1, <1>2, <1>4, <1>6, <1>8, <1>9, <2>1, <2>2 DEF TypeOK, DocInv
<1> QED  BY <1>10, <1>11

\* A document built from a blueprint is settled: nothing is done in it yet.
LEMMA InitKeeps ==
    ASSUME Init
    PROVE  IInv
<1>1. PICK st \in [Assignments -> Statuses], ad \in [Assignments -> AdapterIds] :
        /\ \A a \in Assignments : st[a] \in InitialStatuses(a)
        /\ run = [status |-> "created",
                  asg |-> [a \in Assignments |-> FreshAssignment(a, st[a], ad[a])]]
      BY DEF Init
<1>2. ASSUME NEW a \in Assignments
      PROVE  /\ run.asg[a] \in AssignmentRun
             /\ RecordInv(run.asg[a])
             /\ a \in Gated => run.asg[a].gate
             /\ run.asg[a].status \in {"ready", "running", "completed"} => DependsOn[a] = {}
  <2>1. run.asg[a] = FreshAssignment(a, st[a], ad[a])  BY <1>1
  <2>2. st[a] \in {"blocked", "pending", "ready"}
        /\ (st[a] = "ready" => DependsOn[a] = {} /\ a \notin Gated)
        BY <1>1 DEF InitialStatuses
  <2>3. ad[a] \in AdapterIds /\ NoAdapter \in AdapterIds  BY DEF AdapterIds
  <2>4. \A g \in BOOLEAN : \A s \in Statuses :
          [status |-> s, gate |-> g, adapter |-> ad[a], result |-> "none",
           resultAdapter |-> NoAdapter, retries |-> 0, rerouted |-> FALSE,
           bridgeFailures |-> 0] \in AssignmentRun
        BY <2>3 DEF AssignmentRun
  <2>5. PICK g \in BOOLEAN : g = (a \in Gated) /\ (g = TRUE <=> a \in Gated)
    <3>1. CASE a \in Gated
      <4>1. (a \in Gated) = TRUE  BY <3>1
      <4> QED  BY <3>1, <4>1, Zenon
    <3>2. CASE a \notin Gated
      <4>1. (a \in Gated) = FALSE  BY <3>2
      <4> QED  BY <3>2, <4>1, Zenon
    <3> QED  BY <3>1, <3>2
  <2>6. run.asg[a] = [status |-> st[a], gate |-> g, adapter |-> ad[a], result |-> "none",
                      resultAdapter |-> NoAdapter, retries |-> 0, rerouted |-> FALSE,
                      bridgeFailures |-> 0]
        BY <2>1, <2>5 DEF FreshAssignment
  <2>7. run.asg[a] \in AssignmentRun  BY <2>4, <2>6
  <2>8. /\ run.asg[a].status = st[a] /\ run.asg[a].result = "none"
        /\ run.asg[a].bridgeFailures = 0
        /\ run.asg[a].gate = g
        BY <2>6
  <2> QED  BY <2>2, <2>5, <2>7, <2>8 DEF RecordInv, BridgeFailures
<1>3. run.asg \in [Assignments -> AssignmentRun]
      BY <1>1, <1>2
<1>4. approved = {} /\ run.status = "created"  BY <1>1 DEF Init
<1>5. run \in Document  BY <1>1, <1>3 DEF Document, RunStatuses
<1>6. DocInv(run, approved)
      BY <1>2, <1>3, <1>4, <1>5 DEF DocInv, AsgInv, Settled
<1>7. TypeOK
  <2>1. /\ call = [p \in Processes |-> NoCall]
        /\ at = [w \in Workers |-> "idle"]
        /\ work = [w \in Workers |-> NoWork]
        /\ ops = 0 /\ crashes = 0 /\ overlapped = FALSE /\ approved = {}
        BY DEF Init
  <2>2. call \in [Processes -> Calls]  BY <2>1 DEF Calls
  <2>3. 0 \in 0..MaxOps /\ 0 \in 0..MaxCrashes  BY BoundsAssumption
  <2> QED  BY <1>5, <2>1, <2>2, <2>3 DEF TypeOK
<1>8. /\ \A p \in Processes : call[p] = NoCall
      /\ \A w \in Workers : at[w] = "idle" /\ w \in Processes
      BY DEF Init, Processes
<1> QED  BY <1>6, <1>7, <1>8 DEF IInv, NoCall

\* What every step that loads has in common.
LEMMA LoadStep ==
    ASSUME IInv, NEW p \in Processes, NEW op \in OpNames, NEW doc,
           approved \subseteq approved', approved' \subseteq Assignments,
           DocInv(doc, approved'), Load(p, op, doc),
           p \in Workers => op \in WorkerOps,
           run' = run, at' = at, overlapped' = overlapped, crashes' = crashes,
           ops' \in 0..MaxOps,
           IF op = "claim" THEN \E r \in [asg : Assignments, adapter : AdapterIds] :
                                    p \in Workers /\ work' = [work EXCEPT ![p] = r]
                           ELSE work' = work
    PROVE  IInv'
<1>1. /\ call' \in [Processes -> Calls]
      /\ \A q \in Processes : call'[q] # NoCall => DocInv(call'[q].doc, approved')
      /\ \A w \in Workers : call'[w] # NoCall => call'[w].op \in WorkerOps
      /\ \A q \in Processes : q # p => call'[q] = call[q]
      /\ call'[p].op = op
      BY LoadKeeps
<1>2. DocInv(run', approved')  BY ApprovedGrows DEF IInv
<1>3. Workers \subseteq Processes  BY DEF Processes
<1>4. work' \in [Workers -> {NoWork} \cup [asg : Assignments, adapter : AdapterIds]]
      BY DEF IInv, TypeOK
<1>5. ASSUME NEW w \in Workers, at'[w] = "execute" \/ call'[w].op = "claim"
      PROVE  work'[w] \in [asg : Assignments, adapter : AdapterIds]
  <2>1. CASE op = "claim" /\ w = p
        BY <2>1 DEF IInv, TypeOK
  <2>2. CASE w # p
    <3>1. work'[w] = work[w]  BY <2>2 DEF IInv, TypeOK
    <3>2. call'[w] = call[w]  BY <1>1, <1>3, <2>2
    <3> QED  BY <1>5, <3>1, <3>2 DEF IInv
  <2>3. CASE op # "claim" /\ w = p
    <3>1. at[w] = "execute"  BY <1>1, <1>5, <2>3
    <3> QED  BY <2>3, <3>1 DEF IInv
  <2> QED  BY <2>1, <2>2, <2>3
<1>6. TypeOK'  BY <1>1, <1>4 DEF IInv, TypeOK
<1> QED  BY <1>1, <1>2, <1>5, <1>6 DEF IInv

\* A worker's step that only moves its loop on, or gives its assignment up.
LEMMA LoopStep ==
    ASSUME IInv, NEW w \in Workers, NEW place \in {"idle", "started", "policy", "claim"},
           at' = [at EXCEPT ![w] = place],
           work' = work \/ work' = [work EXCEPT ![w] = NoWork],
           call[w] = NoCall,
           call' = call, run' = run, ops' = ops, overlapped' = overlapped,
           crashes' = crashes, approved' = approved
    PROVE  IInv'
<1>1. w \in Processes  BY DEF Processes
<1>2. TypeOK'  BY DEF IInv, TypeOK
<1>3. ASSUME NEW v \in Workers, at'[v] = "execute" \/ call'[v].op = "claim"
      PROVE  work'[v] \in [asg : Assignments, adapter : AdapterIds]
  <2>1. v # w  BY <1>3 DEF IInv, TypeOK, NoCall
  <2>2. at'[v] = at[v] /\ work'[v] = work[v]  BY <2>1 DEF IInv, TypeOK
  <2> QED  BY <1>3, <2>2 DEF IInv
<1> QED  BY <1>2, <1>3 DEF IInv

LEMMA CrashKeeps ==
    ASSUME IInv, NEW w \in Workers, WorkerCrashes(w)
    PROVE  IInv'
<1>1. w \in Processes /\ Workers \subseteq Processes  BY DEF Processes
<1>2. TypeOK'
      BY <1>1, BoundsAssumption DEF IInv, TypeOK, WorkerCrashes, Calls
<1>3. call' = [call EXCEPT ![w] = NoCall]  BY DEF WorkerCrashes
<1>4. \A q \in Processes : call'[q] # NoCall => call'[q] = call[q]
      BY <1>3 DEF IInv, TypeOK
<1>5. run' = run /\ approved' = approved  BY DEF WorkerCrashes
<1>6. ASSUME NEW v \in Workers, at'[v] = "execute" \/ call'[v].op = "claim"
      PROVE  work'[v] \in [asg : Assignments, adapter : AdapterIds]
  <2>1. v # w  BY <1>1, <1>6 DEF WorkerCrashes, IInv, TypeOK, NoCall
  <2>2. at'[v] = at[v] /\ work'[v] = work[v] /\ call'[v] = call[v]
        BY <1>1, <2>1 DEF WorkerCrashes, IInv, TypeOK
  <2> QED  BY <1>6, <2>2 DEF IInv
<1> QED  BY <1>1, <1>2, <1>4, <1>5, <1>6 DEF IInv

\* Every load of a worker or of a request computes a document the operators
\* above keep sound; every other step moves a worker's loop on.
LEMMA WorkerKeeps ==
    ASSUME IInv, NEW w \in Workers, WorkerStep(w)
    PROVE  IInv'
<1> USE DEF IInv
<1>1. w \in Processes /\ ops \in 0..MaxOps /\ approved \subseteq Assignments
      BY DEF Processes, TypeOK
<1>2. CASE WorkerBegins(w)
  <2>1. CASE run.status = "created"
    <3>1. Load(w, "start", Start(run))  BY <1>2, <2>1 DEF WorkerBegins
    <3>2. UNCHANGED <<run, at, work, ops, crashes, overlapped, approved>>
          BY <1>2, <2>1 DEF WorkerBegins
    <3> QED  BY <1>1, <3>1, <3>2, StartKeeps, LoadStep DEF OpNames, WorkerOps
  <2>2. CASE run.status # "created"
    <3>1. at' = [at EXCEPT ![w] = "policy"] /\ call[w] = NoCall
          /\ UNCHANGED <<call, run, work, ops, crashes, overlapped, approved>>
          BY <1>2, <2>2 DEF WorkerBegins
    <3> QED  BY <3>1, LoopStep
  <2> QED  BY <2>1, <2>2
<1>3. CASE WorkerAppliesPolicy(w)
  <2>1. PICK policy \in Policies, T \in SUBSET Timed :
          IF run.status \in TerminalRun \/ SafetyPolicy(run, policy, T) = run
          THEN /\ at' = [at EXCEPT ![w] = IF run.status = "running" THEN "claim" ELSE "idle"]
               /\ UNCHANGED call
          ELSE Load(w, "policy", SafetyPolicy(run, policy, T)) /\ UNCHANGED at
        BY <1>3 DEF WorkerAppliesPolicy
  <2>2. call[w] = NoCall /\ UNCHANGED <<run, work, ops, crashes, overlapped, approved>>
        BY <1>3 DEF WorkerAppliesPolicy
  <2>3. CASE run.status \in TerminalRun \/ SafetyPolicy(run, policy, T) = run
    <3>1. PICK place \in {"claim", "idle"} : at' = [at EXCEPT ![w] = place]
          BY <2>1, <2>3
    <3> QED  BY <2>1, <2>2, <2>3, <3>1, LoopStep
  <2>4. CASE ~(run.status \in TerminalRun \/ SafetyPolicy(run, policy, T) = run)
    <3>1. Load(w, "policy", SafetyPolicy(run, policy, T)) /\ UNCHANGED at
          BY <2>1, <2>4
    <3>2. DocInv(SafetyPolicy(run, policy, T), approved)
          BY <2>4, SafetyPolicyKeeps
    <3> QED  BY <1>1, <2>2, <3>1, <3>2, LoadStep DEF OpNames, WorkerOps
  <2> QED  BY <2>3, <2>4
<1>4. ASSUME NEW a \in Assignments, WorkerClaims(w, a)
      PROVE  IInv'
  <2>1. Load(w, "claim", Claim(run, a)) /\ run.status = "running"
        /\ run.asg[a].status = "ready"
        BY <1>4 DEF WorkerClaims, Claimable
  <2>2. DocInv(Claim(run, a), approved)  BY <2>1, ClaimKeeps
  <2>3. [asg |-> a, adapter |-> run.asg[a].adapter] \in [asg : Assignments, adapter : AdapterIds]
        BY DEF DocInv, AsgInv, AssignmentRun
  <2>4. work' = [work EXCEPT ![w] = [asg |-> a, adapter |-> run.asg[a].adapter]]
        BY <1>4 DEF WorkerClaims
  <2>5. UNCHANGED <<run, at, ops, crashes, overlapped, approved>>
        BY <1>4 DEF WorkerClaims
  <2> QED  BY <1>1, <2>1, <2>2, <2>3, <2>4, <2>5, LoadStep DEF OpNames, WorkerOps
<1>5. CASE WorkerFindsNothing(w)
  <2>1. at' = [at EXCEPT ![w] = "idle"] /\ call[w] = NoCall
        /\ UNCHANGED <<run, call, work, ops, crashes, overlapped, approved>>
        BY <1>5 DEF WorkerFindsNothing
  <2> QED  BY <2>1, LoopStep
<1>6. ASSUME NEW outcome \in Outcomes, WorkerReports(w, outcome)
      PROVE  IInv'
  <2> DEFINE a == work[w].asg
  <2>1. a \in Assignments /\ work[w].adapter \in AdapterIds
        BY <1>6 DEF WorkerReports
  <2>2. call[w] = NoCall /\ UNCHANGED <<run, ops, crashes, overlapped, approved>>
        BY <1>6 DEF WorkerReports
  <2>3. CASE run.asg[a].status = "running"
    <3>1. Load(w, "complete", Complete(run, a, outcome, work[w].adapter))
          /\ UNCHANGED <<at, work>>
          BY <1>6, <2>3 DEF WorkerReports
    <3>2. DocInv(Complete(run, a, outcome, work[w].adapter), approved)
          BY <2>1, <2>3, CompleteKeeps
    <3> QED  BY <1>1, <2>2, <3>1, <3>2, LoadStep DEF OpNames, WorkerOps
  <2>4. CASE run.asg[a].status # "running"
    <3>1. at' = [at EXCEPT ![w] = "idle"] /\ work' = [work EXCEPT ![w] = NoWork]
          /\ UNCHANGED call
          BY <1>6, <2>4 DEF WorkerReports
    <3> QED  BY <2>2, <3>1, LoopStep
  <2> QED  BY <2>3, <2>4
<1> QED  BY <1>2, <1>3, <1>4, <1>5, <1>6 DEF WorkerStep

LEMMA OperatorKeeps ==
    ASSUME IInv, NEW o \in Operators, OperatorStep(o)
    PROVE  IInv'
<1> USE DEF IInv
<1>1. o \in Processes /\ o \notin Workers  BY ProcessAssumption DEF Processes
<1>2. ASSUME NEW op \in OpNames \ {"claim"}, NEW doc, Request(o, op, doc),
             approved \subseteq approved', approved' \subseteq Assignments,
             DocInv(doc, approved')
      PROVE  IInv'
  <2>1. ops' \in 0..MaxOps  BY <1>2, BoundsAssumption DEF Request, TypeOK
  <2>2. Load(o, op, doc) /\ UNCHANGED <<run, at, work, crashes, overlapped>>
        BY <1>2 DEF Request
  <2> QED  BY <1>1, <1>2, <2>1, <2>2, LoadStep
<1>3. approved \subseteq Assignments  BY DEF TypeOK
<1>4. CASE OperatorStarts(o)
      BY <1>2, <1>3, <1>4, StartKeeps DEF OperatorStarts, OpNames
<1>5. CASE OperatorPauses(o)
  <2>1. DocInv([run EXCEPT !.status = "paused"], approved)  BY StatusKeeps
  <2> QED  BY <1>2, <1>3, <1>5, <2>1 DEF OperatorPauses, OpNames
<1>6. CASE OperatorResumes(o)
  <2>1. DocInv([run EXCEPT !.status = "running"], approved)  BY StatusKeeps
  <2> QED  BY <1>2, <1>3, <1>6, <2>1 DEF OperatorResumes, OpNames
<1>7. CASE OperatorAborts(o)
  <2>1. DocInv(Abort(run), approved)  BY AbortKeeps
  <2> QED  BY <1>2, <1>3, <1>7, <2>1 DEF OperatorAborts, OpNames
<1>8. ASSUME NEW a \in Assignments, OperatorRetries(o, a)
      PROVE  IInv'
  <2>1. DocInv(Retry(run, a), approved)  BY <1>8, RetryKeeps DEF OperatorRetries
  <2> QED  BY <1>2, <1>3, <1>8, <2>1 DEF OperatorRetries, OpNames
<1>9. ASSUME NEW a \in Assignments, OperatorApproves(o, a)
      PROVE  IInv'
  <2>1. DocInv(Approve(run, a), approved \cup {a})
        BY <1>9, ApproveKeeps DEF OperatorApproves
  <2> QED  BY <1>2, <1>3, <1>9, <2>1 DEF OperatorApproves, OpNames
<1>10. ASSUME NEW a \in Assignments, NEW adapter \in Adapters, OperatorReroutes(o, a, adapter)
       PROVE  IInv'
  <2>1. DocInv(Reroute(run, a, adapter), approved)
        BY <1>10, RerouteKeeps DEF OperatorReroutes
  <2> QED  BY <1>2, <1>3, <1>10, <2>1 DEF OperatorReroutes, OpNames
<1> QED  BY <1>4, <1>5, <1>6, <1>7, <1>8, <1>9, <1>10 DEF OperatorStep

LEMMA NextKeeps ==
    ASSUME IInv, [Next]_vars
    PROVE  IInv'
<1>1. CASE Next
      BY <1>1, SaveKeeps, WorkerKeeps, CrashKeeps, OperatorKeeps DEF Next
<1>2. CASE UNCHANGED vars
      BY <1>2 DEF vars, IInv, TypeOK
<1> QED  BY <1>1, <1>2

-----------------------------------------------------------------------------
(***************************************************************************)
(* What holds of every run.                                                *)
(***************************************************************************)

\* The strengthening holds in every state, whatever overwrites whatever.
THEOREM Invariance == Spec => []IInv
<1>1. Init => IInv  BY InitKeeps
<1>2. IInv /\ [Next]_vars => IInv'  BY NextKeeps
<1> QED  BY <1>1, <1>2, PTL DEF Spec

\* The document, the calls in flight and the workers' places have their types.
THEOREM TypeCorrect == Spec => []TypeOK
<1>1. IInv => TypeOK  BY DEF IInv
<1> QED  BY <1>1, Invariance, PTL

\* No interleaving of stale saves offers work before what it depends on.
THEOREM DependenciesComeFirst == Spec => []DependenciesFirst
<1>1. IInv => DependenciesFirst
      BY DEF IInv, DocInv, AsgInv, DependenciesFirst, DependenciesSatisfied
<1> QED  BY <1>1, Invariance, PTL

\* Nothing can still go on in a run that is reported completed or aborted.
THEOREM OverIsSettled == Spec => []OverMeansSettled
<1>1. IInv => OverMeansSettled
      BY DEF IInv, DocInv, Settled, OverMeansSettled
<1> QED  BY <1>1, Invariance, PTL

\* No assignment passes the operator's gate without an approval.
THEOREM GateHolds == Spec => []OperatorGate
<1>1. IInv => OperatorGate
      BY GraphAssumption DEF IInv, DocInv, AsgInv, RecordInv, OperatorGate
<1> QED  BY <1>1, Invariance, PTL

\* No route records more bridge failures than the retry budget allows.
THEOREM RetryBudgetHolds == Spec => []RouteFailsAtMostTwice
<1>1. IInv => RouteFailsAtMostTwice
  <2> SUFFICES ASSUME IInv, NEW a \in Assignments
               PROVE  run.asg[a].bridgeFailures =< RetryLimit + 1
      BY DEF RouteFailsAtMostTwice
  <2>1. run.asg[a] \in AssignmentRun /\ RecordInv(run.asg[a])
        BY DEF IInv, DocInv, AsgInv
  <2> QED  BY <2>1 DEF RecordInv, AssignmentRun, RetryLimit
<1> QED  BY <1>1, Invariance, PTL
-----------------------------------------------------------------------------
(***************************************************************************)
(* Ownership: what holds until a save replaces a document that its call    *)
(* had not read.  Finished work and a finished run stay finished, and an   *)
(* executing worker owns its assignment.  The invariant relates the        *)
(* document a call is about to save to the one on disk, for the calls that *)
(* are not stale: the first is one operation ahead of the second.          *)
(***************************************************************************)

\* Only an abort of the whole run aborts an assignment.
AbortedWithRun(doc) ==
    doc.status = "aborted" \/ \A a \in Assignments : doc.asg[a].status # "aborted"

\* new is one operation ahead of old, which ends no work but S and what times out.
Moves(old, new, S) ==
    /\ old.status \notin {"completed", "aborted"}
    /\ \A a \in Assignments : old.asg[a].status = "completed" => new.asg[a].status = "completed"
    /\ \A a \in Assignments : old.asg[a].status = "running" /\ a \notin Timed \cup S =>
            new.asg[a].status \in {"running", "aborted"}
    /\ AbortedWithRun(new)

\* The assignment whose execution the call of process p reports.
Reported(p) ==
    IF p \in Workers /\ call[p].op = "complete" /\ at[p] = "execute"
      THEN {work[p].asg} ELSE {}

Fresh(p) == call[p] # NoCall /\ ~call[p].stale

\* A call that is not stale is one operation ahead of the disk.
Ahead ==
    /\ AbortedWithRun(run)
    /\ \A p \in Processes : call[p] # NoCall => AbortedWithRun(call[p].doc)
    /\ \A p \in Processes : Fresh(p) => Moves(run, call[p].doc, Reported(p))

\* A claim that is not stale finds its assignment as it was.
ClaimsHold ==
    \A w \in Workers : Fresh(w) /\ call[w].op = "claim" =>
        /\ run.asg[work[w].asg].status = "ready"
        /\ call[w].doc.asg[work[w].asg].status = "running"

OwnInv ==
    /\ Ahead
    /\ ClaimsHold
    /\ ExecutorOwnsAssignment

-----------------------------------------------------------------------------
(***************************************************************************)
(* Each operation is one operation ahead of the document it read.          *)
(***************************************************************************)

\* A pass of Advance touches pending assignments only.
LEMMA AdvanceMoves ==
    ASSUME NEW asg \in [Assignments -> AssignmentRun], NEW a \in Assignments
    PROVE  /\ asg[a].status # "pending" => Advance(asg)[a] = asg[a]
           /\ Advance(asg)[a].status = "aborted" => asg[a].status = "aborted"
<1>1. asg[a] \in AssignmentRun  OBVIOUS
<1> QED  BY <1>1 DEF Advance, AssignmentRun

\* A run whose document is settled and not aborted has no aborted assignment.
LEMMA OpenRun ==
    ASSUME NEW S, NEW doc, DocInv(doc, S), AbortedWithRun(doc),
           doc.status # "aborted", NEW a \in Assignments
    PROVE  /\ doc.asg[a] \in AssignmentRun
           /\ doc.asg[a].status # "aborted"
BY DEF DocInv, AsgInv, AbortedWithRun

LEMMA StatusMoves ==
    ASSUME NEW S, NEW doc, DocInv(doc, S), AbortedWithRun(doc),
           doc.status \notin {"completed", "aborted"},
           NEW status \in RunStatuses
    PROVE  Moves(doc, [doc EXCEPT !.status = status], {})
<1>1. [doc EXCEPT !.status = status].asg = doc.asg  BY DEF DocInv, Document
<1> QED  BY <1>1 DEF Moves, AbortedWithRun

LEMMA StartMoves ==
    ASSUME NEW S, NEW doc, DocInv(doc, S), AbortedWithRun(doc), doc.status = "created"
    PROVE  Moves(doc, Start(doc), {})
<1>1. PICK status \in RunStatuses : Start(doc) = [doc EXCEPT !.status = status]
      BY DEF Start, RunStatuses
<1> QED  BY <1>1, StatusMoves

LEMMA PolicyMoves ==
    ASSUME NEW S, NEW doc, DocInv(doc, S), AbortedWithRun(doc),
           doc.status \notin TerminalRun, NEW policy \in Policies, NEW T \in SUBSET Timed
    PROVE  Moves(doc, SafetyPolicy(doc, policy, T), {})
<1> DEFINE gated == [a \in Assignments |-> Gate(doc.asg, a, policy, T)]
           new == Advance(gated)
<1>1. ASSUME NEW a \in Assignments
      PROVE  /\ gated[a] \in AssignmentRun
             /\ doc.asg[a].status = "completed" => gated[a].status = "completed"
             /\ doc.asg[a].status = "running" /\ a \notin Timed =>
                    gated[a].status = "running"
             /\ gated[a].status # "aborted"
  <2>1. doc.asg[a] \in AssignmentRun /\ doc.asg[a].status # "aborted"
        BY OpenRun DEF TerminalRun
  <2> DEFINE r == doc.asg[a]
  <2>2. \/ r.status = "running" /\ a \in Timed /\ gated[a] = Timeout(r)
        \/ gated[a] = r
        \/ r.status \in {"ready", "pending"} /\ gated[a] = [r EXCEPT !.status = "skipped"]
        \/ /\ r.status \in {"ready", "pending"}
           /\ gated[a] = [NoResult(r) EXCEPT !.status = "blocked"]
        BY DEF Gate
  <2> HIDE DEF r, gated
  <2>3. CASE r.status = "running" /\ a \in Timed /\ gated[a] = Timeout(r)
        BY <2>1, <2>3 DEF r, Timeout, AssignmentRun, Statuses, Outcomes
  <2>4. CASE gated[a] = r
        BY <2>1, <2>4 DEF r
  <2>5. CASE r.status \in {"ready", "pending"} /\ gated[a] = [r EXCEPT !.status = "skipped"]
        BY <2>1, <2>5 DEF r, AssignmentRun, Statuses
  <2>6. CASE /\ r.status \in {"ready", "pending"}
             /\ gated[a] = [NoResult(r) EXCEPT !.status = "blocked"]
        BY <2>1, <2>6 DEF r, NoResult, AssignmentRun, Statuses, AdapterIds
  <2> QED  BY <2>2, <2>3, <2>4, <2>5, <2>6
<1>2. gated \in [Assignments -> AssignmentRun]  BY <1>1
<1>3. ASSUME NEW a \in Assignments
      PROVE  /\ doc.asg[a].status = "completed" => new[a].status = "completed"
             /\ doc.asg[a].status = "running" /\ a \notin Timed =>
                    new[a].status = "running"
             /\ new[a].status # "aborted"
  <2> HIDE DEF gated
  <2> QED  BY <1>1, <1>2, AdvanceMoves
<1>4. SafetyPolicy(doc, policy, T).asg = new
      BY DEF SafetyPolicy, Settle
<1> HIDE DEF new
<1> QED  BY <1>3, <1>4 DEF Moves, AbortedWithRun, TerminalRun

LEMMA ClaimMoves ==
    ASSUME NEW S, NEW doc, DocInv(doc, S), AbortedWithRun(doc), doc.status = "running",
           NEW a \in Assignments, doc.asg[a].status = "ready"
    PROVE  Moves(doc, Claim(doc, a), {}) /\ Claim(doc, a).asg[a].status = "running"
<1>1. \A b \in Assignments : Claim(doc, a).asg[b].status =
                                IF b = a THEN "running" ELSE doc.asg[b].status
      BY DEF Claim, DocInv, Document, AssignmentRun
<1>2. \A b \in Assignments : doc.asg[b].status # "aborted"
      BY OpenRun
<1> QED  BY <1>1, <1>2 DEF Moves, AbortedWithRun

\* A running assignment keeps its run from being completed or aborted.
LEMMA CompleteMoves ==
    ASSUME NEW S, NEW doc, DocInv(doc, S), AbortedWithRun(doc), NEW a \in Assignments,
           doc.asg[a].status = "running", NEW outcome \in Outcomes, NEW adapter \in AdapterIds
    PROVE  Moves(doc, Complete(doc, a, outcome, adapter), {a})
<1> DEFINE rec == WithResult(doc.asg[a], outcome, adapter)
           new == [doc.asg EXCEPT ![a] = rec]
<1>1. doc.status \notin {"completed", "aborted"}
      BY DEF DocInv, Settled, AllTerminal, TerminalAssignment
<1>2. doc.asg \in [Assignments -> AssignmentRun]
      BY DEF DocInv, AsgInv
<1>3. rec \in AssignmentRun /\ rec.status # "aborted"
  <2> DEFINE n == doc.asg[a].bridgeFailures + IF outcome \in BridgeFailures THEN 1 ELSE 0
  <2>1. doc.asg[a] \in AssignmentRun  BY <1>2
  <2>2. n \in Nat  BY <2>1 DEF AssignmentRun
  <2>3. rec \in AssignmentRun
        BY <2>1, <2>2 DEF AssignmentRun, Statuses, WithResult
  <2>4. rec.status = IF outcome = "done" THEN "completed" ELSE "failed"
        BY <2>1 DEF AssignmentRun, WithResult
  <2> QED  BY <2>3, <2>4
<1>4. new \in [Assignments -> AssignmentRun]
      /\ \A b \in Assignments : new[b] = IF b = a THEN rec ELSE doc.asg[b]
  <2> HIDE DEF rec
  <2> QED  BY <1>2, <1>3
<1>5. Complete(doc, a, outcome, adapter).asg = Advance(new)
      BY <1>2 DEF Complete, Settle
<1>6. \A b \in Assignments : doc.asg[b].status # "aborted"
      BY <1>1, OpenRun
<1> HIDE DEF new, rec
<1>7. ASSUME NEW b \in Assignments
      PROVE  /\ doc.asg[b].status = "completed" => Advance(new)[b].status = "completed"
             /\ doc.asg[b].status = "running" /\ b # a => Advance(new)[b].status = "running"
             /\ Advance(new)[b].status # "aborted"
      BY <1>3, <1>4, <1>6, AdvanceMoves
<1> QED  BY <1>1, <1>5, <1>7 DEF Moves, AbortedWithRun

LEMMA AbortMoves ==
    ASSUME NEW S, NEW doc, DocInv(doc, S), doc.status \notin TerminalRun
    PROVE  Moves(doc, Abort(doc), {})
<1>1. ASSUME NEW a \in Assignments
      PROVE  Abort(doc).asg[a].status = IF doc.asg[a].status \in TerminalAssignment
                                        THEN doc.asg[a].status ELSE "aborted"
  <2>1. doc.asg[a] \in AssignmentRun  BY DEF DocInv, AsgInv
  <2> QED  BY <2>1 DEF Abort, AssignmentRun
<1> QED  BY <1>1 DEF Moves, AbortedWithRun, Abort, TerminalRun, TerminalAssignment

LEMMA RetryMoves ==
    ASSUME NEW S, NEW doc, DocInv(doc, S), AbortedWithRun(doc),
           doc.status \notin {"completed", "aborted"},
           NEW a \in Assignments, doc.asg[a].status \in Reopenable
    PROVE  Moves(doc, Retry(doc, a), {})
<1>1. ASSUME NEW b \in Assignments
      PROVE  Retry(doc, a).asg[b].status = doc.asg[b].status
             \/ (/\ doc.asg[b].status \notin {"running", "completed"}
                 /\ Retry(doc, a).asg[b].status \in {"ready", "pending"})
  <2>1. doc.asg[a] \in AssignmentRun /\ doc.asg[b] \in AssignmentRun
        BY DEF DocInv, AsgInv
  <2> QED  BY <2>1 DEF Retry, NoResult, AssignmentRun, Reopenable
<1>2. \A b \in Assignments : doc.asg[b].status # "aborted"
      BY OpenRun
<1> QED  BY <1>1, <1>2 DEF Moves, AbortedWithRun

LEMMA RerouteMoves ==
    ASSUME NEW S, NEW doc, DocInv(doc, S), AbortedWithRun(doc),
           doc.status \notin {"completed", "aborted"},
           NEW a \in Assignments, NEW adapter \in Adapters
    PROVE  Moves(doc, Reroute(doc, a, adapter), {})
<1>1. ASSUME NEW b \in Assignments
      PROVE  Reroute(doc, a, adapter).asg[b].status = doc.asg[b].status
  <2>1. doc.asg \in [Assignments -> AssignmentRun] /\ doc \in Document
        BY DEF DocInv, AsgInv
  <2>2. doc.asg[a] \in AssignmentRun  BY <2>1
  <2> QED  BY <2>1, <2>2 DEF Reroute, Document, AssignmentRun
<1> QED  BY <1>1, OpenRun DEF Moves, AbortedWithRun

LEMMA ApproveMoves ==
    ASSUME NEW S, NEW doc, DocInv(doc, S), AbortedWithRun(doc),
           doc.status \notin TerminalRun,
           NEW a \in Assignments, doc.asg[a].status = "pending"
    PROVE  Moves(doc, Approve(doc, a), {})
<1> DEFINE rec == [doc.asg[a] EXCEPT !.gate = FALSE,
                      !.status = IF DependenciesSatisfied(doc.asg, a)
                                 THEN "ready" ELSE "pending"]
           new == [doc.asg EXCEPT ![a] = rec]
<1>1. doc.asg \in [Assignments -> AssignmentRun] /\ doc \in Document
      BY DEF DocInv, AsgInv
<1>2. rec.status \in {"ready", "pending"}  BY <1>1 DEF AssignmentRun
<1>3. Approve(doc, a).asg = new
      BY <1>1 DEF Approve, Settle, Document
<1>4. \A b \in Assignments : new[b] = IF b = a THEN rec ELSE doc.asg[b]
  <2> HIDE DEF rec
  <2> QED  BY <1>1
<1>5. \A b \in Assignments : doc.asg[b].status # "aborted"
      BY OpenRun DEF TerminalRun
<1> HIDE DEF rec, new
<1> QED  BY <1>2, <1>3, <1>4, <1>5 DEF Moves, AbortedWithRun, TerminalRun

-----------------------------------------------------------------------------
(***************************************************************************)
(* The steps.                                                              *)
(***************************************************************************)

\* A load adds a call that is one operation ahead; nothing else changes.
LEMMA LoadOwns ==
    ASSUME IInv, OwnInv, NEW p \in Processes, NEW op \in OpNames, NEW doc,
           Load(p, op, doc), run' = run, at' = at, overlapped' = overlapped,
           Moves(run, doc, IF op = "complete" THEN {work[p].asg} ELSE {}),
           op = "complete" => p \in Workers /\ at[p] = "execute",
           IF op = "claim"
           THEN \E r \in [asg : Assignments, adapter : AdapterIds] :
                    /\ p \in Workers /\ at[p] = "claim"
                    /\ work' = [work EXCEPT ![p] = r]
                    /\ run.asg[r.asg].status = "ready"
                    /\ doc.asg[r.asg].status = "running"
           ELSE work' = work
    PROVE  OwnInv'
<1> DEFINE new == [op |-> op, doc |-> doc, stale |-> FALSE]
<1>1. call \in [Processes -> Calls] /\ Workers \subseteq Processes
      BY DEF IInv, TypeOK, Processes
<1>2. call' = [call EXCEPT ![p] = new]  BY DEF Load
<1>3. \A q \in Processes : call'[q] = IF q = p THEN new ELSE call[q]
      BY <1>1, <1>2
<1>4. new.op = op /\ new.doc = doc /\ new.stale = FALSE  OBVIOUS
<1> HIDE DEF new
<1>5. ASSUME NEW w \in Workers, w # p \/ op # "claim"
      PROVE  work'[w] = work[w]
      BY <1>5 DEF IInv, TypeOK
<1>6. \A w \in Workers : at[w] = "execute" => work'[w] = work[w]
      BY <1>5
<1>7. Ahead'
  <2>1. AbortedWithRun(run) /\ AbortedWithRun(doc)
        BY DEF OwnInv, Ahead, Moves
  <2>2. ASSUME NEW q \in Processes, call'[q] # NoCall
        PROVE  AbortedWithRun(call'[q].doc)
        BY <1>3, <1>4, <2>1, <2>2 DEF OwnInv, Ahead
  <2>3. ASSUME NEW q \in Processes, Fresh(q)'
        PROVE  Moves(run, call'[q].doc, Reported(q)')
    <3>1. CASE q = p
      <4>1. Reported(q)' = IF op = "complete" THEN {work[p].asg} ELSE {}
            BY <1>3, <1>4, <1>5, <3>1 DEF Reported
      <4> QED  BY <1>3, <1>4, <3>1, <4>1
    <3>2. CASE q # p
      <4>1. call'[q] = call[q]  BY <1>3, <3>2
      <4>2. Reported(q)' = Reported(q)  BY <1>5, <3>2, <4>1 DEF Reported
      <4>3. Fresh(q)  BY <2>3, <4>1 DEF Fresh
      <4> QED  BY <4>1, <4>2, <4>3 DEF OwnInv, Ahead
    <3> QED  BY <3>1, <3>2
  <2> QED  BY <2>1, <2>2, <2>3 DEF Ahead, AbortedWithRun, Moves
<1>8. ClaimsHold'
  <2> SUFFICES ASSUME NEW w \in Workers, Fresh(w)', call'[w].op = "claim"
               PROVE  /\ run.asg[work'[w].asg].status = "ready"
                      /\ call'[w].doc.asg[work'[w].asg].status = "running"
      BY DEF ClaimsHold
  <2>1. CASE w = p
    <3>1. op = "claim" /\ call'[w].doc = doc  BY <1>1, <1>3, <1>4, <2>1
    <3> QED  BY <2>1, <3>1 DEF IInv, TypeOK
  <2>2. CASE w # p
    <3>1. call'[w] = call[w] /\ work'[w] = work[w]  BY <1>1, <1>3, <1>5, <2>2
    <3>2. Fresh(w)  BY <3>1 DEF Fresh
    <3> QED  BY <3>1, <3>2 DEF OwnInv, ClaimsHold
  <2> QED  BY <2>1, <2>2
<1>9. ExecutorOwnsAssignment'
      BY <1>6 DEF OwnInv, ExecutorOwnsAssignment
<1> QED  BY <1>7, <1>8, <1>9 DEF OwnInv

\* A step that moves a worker's loop on, or ends it, takes nothing from the others.
LEMMA LoopOwns ==
    ASSUME IInv, OwnInv, NEW w \in Workers,
           NEW place \in {"idle", "started", "policy", "claim"},
           at' = [at EXCEPT ![w] = place],
           work' = work \/ work' = [work EXCEPT ![w] = NoWork],
           call'[w] = NoCall, \A q \in Processes : q # w => call'[q] = call[q],
           run' = run, overlapped' = overlapped
    PROVE  OwnInv'
<1>1. w \in Processes /\ Workers \subseteq Processes  BY DEF Processes
<1>2. \A v \in Workers : v # w => at'[v] = at[v] /\ work'[v] = work[v]
      BY DEF IInv, TypeOK
<1>3. at'[w] # "execute"  BY DEF IInv, TypeOK
<1>4. \A q \in Processes : call'[q] # NoCall => q # w /\ call'[q] = call[q]
      OBVIOUS
<1>5. ASSUME NEW q \in Processes, Fresh(q)'
      PROVE  Fresh(q) /\ q # w /\ call'[q] = call[q] /\ Reported(q)' = Reported(q)
  <2>1. q # w /\ call'[q] = call[q]  BY <1>4, <1>5 DEF Fresh
  <2> QED  BY <1>2, <1>5, <2>1 DEF Fresh, Reported
<1>6. Ahead'
      BY <1>4, <1>5 DEF OwnInv, Ahead, AbortedWithRun, Moves
<1>7. ClaimsHold'
      BY <1>1, <1>2, <1>5 DEF OwnInv, ClaimsHold
<1>8. ExecutorOwnsAssignment'
      BY <1>2, <1>3 DEF OwnInv, ExecutorOwnsAssignment
<1> QED  BY <1>6, <1>7, <1>8 DEF OwnInv

\* A save that replaces what its call had read ends only the work it reports;
\* every call that was in flight is stale once the document has changed.
LEMMA SaveOwns ==
    ASSUME IInv, OwnInv, NEW p \in Processes, Save(p)
    PROVE  OwnInv'
<1>1. call \in [Processes -> Calls] /\ Workers \subseteq Processes
      BY DEF IInv, TypeOK, Processes
<1>2. call[p] # NoCall /\ run' = call[p].doc
      /\ overlapped' = (overlapped \/ call[p].stale)
      BY DEF Save
<1>3. call[p] \in [op : OpNames, doc : Document, stale : BOOLEAN]
      BY <1>1, <1>2 DEF Calls, OpNames
<1>4. call'[p] = NoCall  BY DEF Save
<1>5. ASSUME NEW q \in Processes, call'[q] # NoCall
      PROVE  /\ q # p
             /\ call[q] # NoCall
             /\ call'[q].doc = call[q].doc /\ call'[q].op = call[q].op
             /\ ~call'[q].stale => Fresh(q) /\ run' = run
  <2>1. q # p /\ call[q] # NoCall  BY <1>4, <1>5 DEF Save
  <2>2. call[q] \in [op : OpNames, doc : Document, stale : BOOLEAN]
        BY <1>1, <2>1 DEF Calls, OpNames
  <2>3. call'[q] = [call[q] EXCEPT !.stale = @ \/ run' # run]
        BY <2>1 DEF Save
  <2>4. call'[q].doc = call[q].doc /\ call'[q].op = call[q].op
        BY <2>2, <2>3
  <2>5. call'[q].stale = (call[q].stale \/ run' # run)
        BY <2>2, <2>3
  <2> QED  BY <2>1, <2>4, <2>5 DEF Fresh
<1>6. /\ \A v \in Workers : v # p => at'[v] = at[v] /\ work'[v] = work[v]
      /\ p \in Workers => at'[p] = AfterSave(p)
      /\ p \in Workers /\ call[p].op # "complete" => work'[p] = work[p]
      BY DEF Save, IInv, TypeOK
<1>7. p \in Workers /\ AfterSave(p) = "execute" => call[p].op = "claim"
  <2>1. p \in Workers => call[p].op \in WorkerOps  BY <1>2 DEF IInv
  <2> QED  BY <2>1 DEF AfterSave, WorkerOps
<1>8. Ahead'
  <2>1. AbortedWithRun(run')  BY <1>2 DEF OwnInv, Ahead
  <2>2. ASSUME NEW q \in Processes, call'[q] # NoCall
        PROVE  AbortedWithRun(call'[q].doc)
        BY <1>5, <2>2 DEF OwnInv, Ahead
  <2>3. ASSUME NEW q \in Processes, Fresh(q)'
        PROVE  Moves(run', call'[q].doc, Reported(q)')
    <3>1. call'[q] # NoCall /\ ~call'[q].stale  BY <2>3 DEF Fresh
    <3>2. q # p /\ Fresh(q) /\ run' = run
          /\ call'[q].doc = call[q].doc /\ call'[q].op = call[q].op
          BY <1>5, <3>1
    <3>3. Reported(q)' = Reported(q)  BY <1>6, <3>2 DEF Reported
    <3> QED  BY <3>2, <3>3 DEF OwnInv, Ahead
  <2> QED  BY <2>1, <2>2, <2>3 DEF Ahead, AbortedWithRun, Moves
<1>9. ClaimsHold'
  <2> SUFFICES ASSUME NEW w \in Workers, Fresh(w)', call'[w].op = "claim"
               PROVE  /\ run'.asg[work'[w].asg].status = "ready"
                      /\ call'[w].doc.asg[work'[w].asg].status = "running"
      BY DEF ClaimsHold
  <2>1. call'[w] # NoCall /\ ~call'[w].stale  BY DEF Fresh
  <2>2. w # p /\ Fresh(w) /\ run' = run
        /\ call'[w].doc = call[w].doc /\ call'[w].op = call[w].op
        BY <1>1, <1>5, <2>1
  <2> QED  BY <1>6, <2>2 DEF OwnInv, ClaimsHold
<1>10. ExecutorOwnsAssignment'
  <2> SUFFICES ASSUME ~overlapped',
                      NEW w \in Workers, at'[w] = "execute", work'[w].asg \notin Timed
               PROVE  /\ run'.asg[work'[w].asg].status \in {"running", "aborted"}
                      /\ \A v \in Workers \ {w} :
                            at'[v] = "execute" => work'[v].asg # work'[w].asg
      BY DEF ExecutorOwnsAssignment
  <2>1. ~overlapped /\ Fresh(p)  BY <1>2, <1>3 DEF Fresh
  <2>2. Moves(run, run', Reported(p))  BY <1>2, <2>1 DEF OwnInv, Ahead
  <2>3. \A v \in Workers : v # p => at'[v] = at[v] /\ work'[v] = work[v]
        BY <1>6
  <2>4. p \in Workers /\ at'[p] = "execute" =>
            /\ work'[p] = work[p]
            /\ run.asg[work[p].asg].status = "ready"
            /\ run'.asg[work[p].asg].status = "running"
        BY <1>2, <1>6, <1>7, <2>1 DEF OwnInv, ClaimsHold
  <2>5. ASSUME NEW v \in Workers, v # p, at[v] = "execute", work[v].asg \notin Timed
        PROVE  /\ run.asg[work[v].asg].status = "running"
               /\ run'.asg[work[v].asg].status \in {"running", "aborted"}
    <3>1. run.asg[work[v].asg].status \in {"running", "aborted"}
          /\ \A u \in Workers \ {v} : at[u] = "execute" => work[u].asg # work[v].asg
          BY <2>1, <2>5 DEF OwnInv, ExecutorOwnsAssignment
    <3>2. work[v].asg \in Assignments  BY <2>5 DEF IInv
    <3>3. run.asg[work[v].asg].status = "running"
          BY <2>2, <3>1, <3>2 DEF OwnInv, Ahead, AbortedWithRun, Moves
    <3>4. work[v].asg \notin Reported(p)  BY <2>5, <3>1 DEF Reported
    <3> QED  BY <2>2, <2>5, <3>2, <3>3, <3>4 DEF Moves
  <2>6. CASE w = p
    <3>1. work'[w] = work[w] /\ run.asg[work[w].asg].status = "ready"
          /\ run'.asg[work[w].asg].status = "running"
          BY <2>4, <2>6
    <3>2. ASSUME NEW v \in Workers \ {w}, at'[v] = "execute"
          PROVE  work'[v].asg # work'[w].asg
          BY <2>3, <2>5, <2>6, <3>1, <3>2
    <3> QED  BY <3>1, <3>2
  <2>7. CASE w # p
    <3>1. at[w] = "execute" /\ work'[w] = work[w]  BY <2>3, <2>7
    <3>2. run.asg[work[w].asg].status = "running"
          /\ run'.asg[work[w].asg].status \in {"running", "aborted"}
          BY <2>5, <2>7, <3>1
    <3>3. ASSUME NEW v \in Workers \ {w}, at'[v] = "execute"
          PROVE  work'[v].asg # work'[w].asg
      <4>1. CASE v = p
            BY <2>4, <3>1, <3>2, <3>3, <4>1
      <4>2. CASE v # p
        <5>1. at[v] = "execute" /\ work'[v] = work[v]  BY <2>3, <3>3, <4>2
        <5> QED  BY <2>1, <3>1, <5>1 DEF OwnInv, ExecutorOwnsAssignment
      <4> QED  BY <4>1, <4>2
    <3> QED  BY <3>1, <3>2, <3>3
  <2> QED  BY <2>6, <2>7
<1> QED  BY <1>8, <1>9, <1>10 DEF OwnInv

\* Each load of a worker is guarded by what its operation needs.
LEMMA WorkerOwns ==
    ASSUME IInv, OwnInv, NEW w \in Workers, WorkerStep(w)
    PROVE  OwnInv'
<1>1. w \in Processes /\ DocInv(run, approved) /\ AbortedWithRun(run)
      BY DEF Processes, IInv, OwnInv, Ahead
<1>2. CASE WorkerBegins(w)
  <2>1. CASE run.status = "created"
    <3>1. Load(w, "start", Start(run))
          /\ UNCHANGED <<run, at, work, overlapped>>
          BY <1>2, <2>1 DEF WorkerBegins
    <3>2. Moves(run, Start(run), {})  BY <1>1, <2>1, StartMoves
    <3> QED  BY <1>1, <3>1, <3>2, LoadOwns DEF OpNames
  <2>2. CASE run.status # "created"
    <3>1. at' = [at EXCEPT ![w] = "policy"] /\ call[w] = NoCall
          /\ UNCHANGED <<call, run, work, overlapped>>
          BY <1>2, <2>2 DEF WorkerBegins
    <3> QED  BY <3>1, LoopOwns
  <2> QED  BY <2>1, <2>2
<1>3. CASE WorkerAppliesPolicy(w)
  <2>1. PICK policy \in Policies, T \in SUBSET Timed :
          IF run.status \in TerminalRun \/ SafetyPolicy(run, policy, T) = run
          THEN /\ at' = [at EXCEPT ![w] = IF run.status = "running" THEN "claim" ELSE "idle"]
               /\ UNCHANGED call
          ELSE Load(w, "policy", SafetyPolicy(run, policy, T)) /\ UNCHANGED at
        BY <1>3 DEF WorkerAppliesPolicy
  <2>2. call[w] = NoCall /\ UNCHANGED <<run, work, overlapped>>
        BY <1>3 DEF WorkerAppliesPolicy
  <2>3. CASE run.status \in TerminalRun \/ SafetyPolicy(run, policy, T) = run
    <3>1. PICK place \in {"claim", "idle"} : at' = [at EXCEPT ![w] = place]
          BY <2>1, <2>3
    <3> QED  BY <2>1, <2>2, <2>3, <3>1, LoopOwns
  <2>4. CASE ~(run.status \in TerminalRun \/ SafetyPolicy(run, policy, T) = run)
    <3>1. Load(w, "policy", SafetyPolicy(run, policy, T)) /\ UNCHANGED at
          BY <2>1, <2>4
    <3>2. Moves(run, SafetyPolicy(run, policy, T), {})
          BY <1>1, <2>4, PolicyMoves
    <3> QED  BY <1>1, <2>2, <3>1, <3>2, LoadOwns DEF OpNames
  <2> QED  BY <2>3, <2>4
<1>4. ASSUME NEW a \in Assignments, WorkerClaims(w, a)
      PROVE  OwnInv'
  <2> DEFINE r == [asg |-> a, adapter |-> run.asg[a].adapter]
  <2>1. /\ Load(w, "claim", Claim(run, a))
        /\ run.status = "running" /\ run.asg[a].status = "ready" /\ at[w] = "claim"
        /\ work' = [work EXCEPT ![w] = r]
        /\ UNCHANGED <<run, at, overlapped>>
        BY <1>4 DEF WorkerClaims, Claimable
  <2>2. Moves(run, Claim(run, a), {}) /\ Claim(run, a).asg[a].status = "running"
        BY <1>1, <2>1, ClaimMoves
  <2>3. r \in [asg : Assignments, adapter : AdapterIds] /\ r.asg = a
        BY <1>1 DEF DocInv, AsgInv, AssignmentRun
  <2> HIDE DEF r
  <2>4. \E s \in [asg : Assignments, adapter : AdapterIds] :
            /\ w \in Workers /\ at[w] = "claim"
            /\ work' = [work EXCEPT ![w] = s]
            /\ run.asg[s.asg].status = "ready"
            /\ Claim(run, a).asg[s.asg].status = "running"
        BY <2>1, <2>2, <2>3
  <2> QED  BY <1>1, <2>1, <2>2, <2>4, LoadOwns DEF OpNames
<1>5. CASE WorkerFindsNothing(w)
  <2>1. at' = [at EXCEPT ![w] = "idle"] /\ call[w] = NoCall
        /\ UNCHANGED <<run, call, work, overlapped>>
        BY <1>5 DEF WorkerFindsNothing
  <2> QED  BY <2>1, LoopOwns
<1>6. ASSUME NEW outcome \in Outcomes, WorkerReports(w, outcome)
      PROVE  OwnInv'
  <2> DEFINE a == work[w].asg
  <2>1. a \in Assignments /\ work[w].adapter \in AdapterIds
        BY <1>6 DEF WorkerReports, IInv
  <2>2. call[w] = NoCall /\ at[w] = "execute" /\ UNCHANGED <<run, overlapped>>
        BY <1>6 DEF WorkerReports
  <2>3. CASE run.asg[a].status = "running"
    <3>1. Load(w, "complete", Complete(run, a, outcome, work[w].adapter))
          /\ UNCHANGED <<at, work>>
          BY <1>6, <2>3 DEF WorkerReports
    <3>2. Moves(run, Complete(run, a, outcome, work[w].adapter), {a})
          BY <1>1, <2>1, <2>3, CompleteMoves
    <3> QED  BY <1>1, <2>2, <3>1, <3>2, LoadOwns DEF OpNames
  <2>4. CASE run.asg[a].status # "running"
    <3>1. at' = [at EXCEPT ![w] = "idle"] /\ work' = [work EXCEPT ![w] = NoWork]
          /\ UNCHANGED call
          BY <1>6, <2>4 DEF WorkerReports
    <3> QED  BY <2>2, <3>1, LoopOwns
  <2> QED  BY <2>3, <2>4
<1> QED  BY <1>2, <1>3, <1>4, <1>5, <1>6 DEF WorkerStep

\* No request of the operator is made on a completed or aborted run.
LEMMA OperatorOwns ==
    ASSUME IInv, OwnInv, NEW o \in Operators, OperatorStep(o)
    PROVE  OwnInv'
<1>1. /\ o \in Processes /\ o \notin Workers
      /\ DocInv(run, approved) /\ AbortedWithRun(run)
      BY ProcessAssumption DEF Processes, IInv, OwnInv, Ahead
<1>2. ASSUME NEW op \in OpNames \ {"claim", "complete"}, NEW doc, Request(o, op, doc),
             Moves(run, doc, {})
      PROVE  OwnInv'
  <2>1. Load(o, op, doc) /\ UNCHANGED <<run, at, work, overlapped>>
        BY <1>2 DEF Request
  <2> QED  BY <1>1, <1>2, <2>1, LoadOwns
<1>3. CASE OperatorStarts(o)
  <2>1. Moves(run, Start(run), {})  BY <1>1, <1>3, StartMoves DEF OperatorStarts
  <2> QED  BY <1>2, <1>3, <2>1 DEF OperatorStarts, OpNames
<1>4. CASE OperatorPauses(o)
  <2>1. Moves(run, [run EXCEPT !.status = "paused"], {})
        BY <1>1, <1>4, StatusMoves DEF OperatorPauses, RunStatuses
  <2> QED  BY <1>2, <1>4, <2>1 DEF OperatorPauses, OpNames
<1>5. CASE OperatorResumes(o)
  <2>1. Moves(run, [run EXCEPT !.status = "running"], {})
        BY <1>1, <1>5, StatusMoves DEF OperatorResumes, RunStatuses
  <2> QED  BY <1>2, <1>5, <2>1 DEF OperatorResumes, OpNames
<1>6. CASE OperatorAborts(o)
  <2>1. Moves(run, Abort(run), {})  BY <1>1, <1>6, AbortMoves DEF OperatorAborts
  <2> QED  BY <1>2, <1>6, <2>1 DEF OperatorAborts, OpNames
<1>7. ASSUME NEW a \in Assignments, OperatorRetries(o, a)
      PROVE  OwnInv'
  <2>1. Moves(run, Retry(run, a), {})  BY <1>1, <1>7, RetryMoves DEF OperatorRetries
  <2> QED  BY <1>2, <1>7, <2>1 DEF OperatorRetries, OpNames
<1>8. ASSUME NEW a \in Assignments, OperatorApproves(o, a)
      PROVE  OwnInv'
  <2>1. Moves(run, Approve(run, a), {})
        BY <1>1, <1>8, ApproveMoves DEF OperatorApproves
  <2> QED  BY <1>2, <1>8, <2>1 DEF OperatorApproves, OpNames
<1>9. ASSUME NEW a \in Assignments, NEW adapter \in Adapters, OperatorReroutes(o, a, adapter)
      PROVE  OwnInv'
  <2>1. Moves(run, Reroute(run, a, adapter), {})
        BY <1>1, <1>9, RerouteMoves DEF OperatorReroutes
  <2> QED  BY <1>2, <1>9, <2>1 DEF OperatorReroutes, OpNames
<1> QED  BY <1>3, <1>4, <1>5, <1>6, <1>7, <1>8, <1>9 DEF OperatorStep

LEMMA InitOwns ==
    ASSUME Init
    PROVE  OwnInv
<1>1. PICK st \in [Assignments -> Statuses], ad \in [Assignments -> AdapterIds] :
        /\ \A a \in Assignments : st[a] \in InitialStatuses(a)
        /\ run = [status |-> "created",
                  asg |-> [a \in Assignments |-> FreshAssignment(a, st[a], ad[a])]]
      BY DEF Init
<1>2. \A a \in Assignments : run.asg[a].status = st[a]
      BY <1>1 DEF FreshAssignment
<1>3. AbortedWithRun(run)  BY <1>1, <1>2 DEF AbortedWithRun, InitialStatuses
<1>4. /\ \A p \in Processes : call[p] = NoCall
      /\ \A w \in Workers : at[w] = "idle" /\ w \in Processes
      BY DEF Init, Processes
<1> QED  BY <1>3, <1>4 DEF OwnInv, Ahead, ClaimsHold, ExecutorOwnsAssignment, Fresh

LEMMA NextOwns ==
    ASSUME IInv, OwnInv, [Next]_vars
    PROVE  OwnInv'
<1>1. ASSUME NEW w \in Workers, WorkerCrashes(w)
      PROVE  OwnInv'
  <2>1. /\ at' = [at EXCEPT ![w] = "idle"] /\ call' = [call EXCEPT ![w] = NoCall]
        /\ work' = [work EXCEPT ![w] = NoWork]
        /\ UNCHANGED <<run, overlapped>>
        BY <1>1 DEF WorkerCrashes
  <2>2. call'[w] = NoCall /\ \A q \in Processes : q # w => call'[q] = call[q]
        BY <2>1 DEF IInv, TypeOK, Processes
  <2> QED  BY <2>1, <2>2, LoopOwns
<1>2. CASE Next
      BY <1>1, <1>2, SaveOwns, WorkerOwns, OperatorOwns DEF Next
<1>3. CASE UNCHANGED vars
      BY <1>3 DEF vars, OwnInv, Ahead, AbortedWithRun, Moves, Fresh, Reported, ClaimsHold,
                  ExecutorOwnsAssignment
<1> QED  BY <1>2, <1>3

-----------------------------------------------------------------------------
(***************************************************************************)
(* What holds of every run while its saves have not overlapped.            *)
(***************************************************************************)

\* The strengthening holds in every state.
THEOREM OwnershipInvariance == Spec => []OwnInv
<1>1. Init => OwnInv  BY InitOwns
<1>2. IInv /\ OwnInv /\ [Next]_vars => OwnInv'  BY NextOwns
<1> QED  BY <1>1, <1>2, Invariance, PTL DEF Spec

\* No two workers execute one assignment, and an executing worker loses its
\* assignment only to an abort or a timeout, unless a save replaced a document
\* that its call had not read.
THEOREM OwnerHolds == Spec => []ExecutorOwnsAssignment
<1>1. OwnInv => ExecutorOwnsAssignment  BY DEF OwnInv
<1> QED  BY <1>1, OwnershipInvariance, PTL

\* Completed work stays completed, and a completed or aborted run stays as it
\* is, unless a save replaces a document that its call had not read.
THEOREM FinishedHolds == Spec => FinishedStands
<1> DEFINE Stands ==
        ~overlapped' =>
          /\ run.status \in {"completed", "aborted"} => run' = run
          /\ \A a \in Assignments : run.asg[a].status = "completed" =>
                run'.asg[a].status = "completed"
<1>1. ASSUME IInv, OwnInv, [Next]_vars
      PROVE  [Stands]_vars
  <2>1. ASSUME NEW p \in Processes, Save(p), ~overlapped'
        PROVE  Moves(run, run', Reported(p))
    <3>1. call[p] \in Calls /\ call[p] # NoCall  BY <1>1, <2>1 DEF Save, IInv, TypeOK
    <3>2. overlapped' = (overlapped \/ call[p].stale)  BY <2>1 DEF Save
    <3>3. Fresh(p)  BY <2>1, <3>1, <3>2 DEF Fresh
    <3> QED  BY <1>1, <2>1, <3>3 DEF Save, OwnInv, Ahead
  <2>2. CASE \E p \in Processes : Save(p)
        BY <2>1, <2>2 DEF Moves
  <2>3. CASE \E w \in Workers : WorkerStep(w) \/ WorkerCrashes(w)
        BY <2>3 DEF WorkerStep, WorkerBegins, WorkerAppliesPolicy, WorkerClaims,
                    WorkerFindsNothing, WorkerReports, WorkerCrashes
  <2>4. CASE \E o \in Operators : OperatorStep(o)
        BY <2>4 DEF OperatorStep, OperatorStarts, OperatorPauses, OperatorResumes,
                    OperatorAborts, OperatorRetries, OperatorApproves, OperatorReroutes, Request
  <2>5. CASE UNCHANGED vars
        BY <2>5
  <2> QED  BY <1>1, <2>2, <2>3, <2>4, <2>5 DEF Next
<1> QED  BY <1>1, Invariance, OwnershipInvariance, PTL DEF Spec, FinishedStands
=============================================================================
