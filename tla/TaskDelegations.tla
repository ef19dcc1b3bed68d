--------------------------- MODULE TaskDelegations ---------------------------
(***************************************************************************)
(* The delegation lane of the task plane and the worker jobs that drive    *)
(* it: packages/tasks-core (delegations, their verifications, the          *)
(* notifications of both, the write-set scheduler) under apps/worker-jobs  *)
(* (run-delegation, scheduler-executor, scheduler-recovery,                *)
(* run-verification).                                                      *)
(*                                                                         *)
(* As in TaskProposals a command projects the journal, queues entries on a *)
(* private board and appends them one transaction at a time; the durable   *)
(* state is what the next projection yields.  A job is a sequence of such  *)
(* commands.  A process may die between any two steps, which leaves a      *)
(* delegation running with nobody behind it.                               *)
(***************************************************************************)
EXTENDS Naturals, Sequences, FiniteSets, SequencesExt, Subsequences

CONSTANTS
    Procs,         \* processes with the session's database open
    Delegations,   \* delegation ids
    Paths,         \* what write sets are made of
    WriteSet,      \* the write set that a delegation's contextSnapshot declares
    Verified,      \* delegations that carry a verificationRequest
    NoOne,         \* "no delegation"
    MaxClaims,     \* bound: maxClaims and maxDispatches of one job
    MaxDeaths      \* bound: processes that die

ASSUME WriteSetAssumption == WriteSet \in [Delegations -> SUBSET Paths]
ASSUME VerifiedAssumption == Verified \subseteq Delegations /\ NoOne \notin Delegations
ASSUME MaxAssumption == MaxClaims \in Nat \ {0} /\ MaxDeaths \in Nat

VARIABLES
    delegation,    \* the status of each delegation record
    order,         \* the records' order of creation (createdAtMs)
    verification,  \* the verification that follows a delegation
    note,          \* the notification of the worker, and of the verifier
    queue,         \* per process: the entries its board has still to append
    proc,          \* per process: the job it runs and where it stands
    deaths         \* how many processes have died

lane == <<delegation, order, verification, note>>
vars == <<lane, queue, proc, deaths>>

Active == {"queued", "running"}
Terminal == {"completed", "failed", "cancelled"}
Kinds == {"worker", "verifier"}
Entries ==
       [type : {"delegation"}, id : Delegations, status : Active \cup Terminal]
  \cup [type : {"verification"}, id : Delegations, status : {"pending", "decided"}]
  \cup [type : {"note"}, kind : Kinds, id : Delegations,
        status : {"pending", "acknowledged"}]
Process ==
    [job : {"idle", "executor", "delegation", "recovery", "command"},
     at : {"idle", "tick", "next", "claim", "finish", "verify", "plan", "cancel", "end"},
     todo : Seq(Delegations), left : 0..MaxClaims, current : Delegations \cup {NoOne}]

Idle == [job |-> "idle", at |-> "idle", todo |-> <<>>, left |-> 0, current |-> NoOne]

Init ==
    /\ delegation = [d \in Delegations |-> "absent"]
    /\ order = <<>>
    /\ verification = [d \in Delegations |-> "absent"]
    /\ note = [k \in Kinds |-> [d \in Delegations |-> "absent"]]
    /\ queue = [c \in Procs |-> <<>>]
    /\ proc = [c \in Procs |-> Idle]
    /\ deaths = 0

-----------------------------------------------------------------------------
(* The scheduler: each active delegation joins the first batch that has no  *)
(* overlap with it, those that run first, then in order of creation.  Only  *)
(* the first batch may start; what batch the others wait for is left out.   *)

InStatus(s) == Subsequence(order, {i \in DOMAIN order : delegation[order[i]] = s})

\* Mutant: a failed delegation keeps its place.
CandidatesWithFailed == InStatus("running") \o InStatus("failed") \o InStatus("queued")

Candidates == InStatus("running") \o InStatus("queued")

Overlap(d, e) == WriteSet[d] \cap WriteSet[e] # {}

\* F are the positions in s of those that overlap none before them in F.
Greedy(F, s) ==
    \A i \in 1..Len(s) : i \in F <=> \A k \in F : k < i => ~Overlap(s[i], s[k])

FirstBatch ==
    LET first == CHOOSE F \in SUBSET (1..Len(Candidates)) : Greedy(F, Candidates)
    IN  {Candidates[i] : i \in first}

ReadyToStart(d) == d \in FirstBatch

\* The mailbox of queued delegations, oldest first, without the blocked ones.
ReadyMailbox ==
    Subsequence(order, {i \in DOMAIN order : /\ delegation[order[i]] = "queued"
                                             /\ ReadyToStart(order[i])})

\* Mutant: any queued delegation.
ClaimableQueued(d) == delegation[d] = "queued"

Claimable(d) == delegation[d] = "queued" /\ ReadyToStart(d)

-----------------------------------------------------------------------------
(* What the board queues for one change of one record.                      *)

\* Mutant: a notification is never acknowledged.
NoteEntriesKept(kind, d, waiting) ==
    IF waiting /\ note[kind][d] # "pending"
      THEN <<[type |-> "note", kind |-> kind, id |-> d, status |-> "pending"]>>
      ELSE <<>>

\* A notification is pending while its record waits, acknowledged after, and
\* no event repeats what it already says.
NoteEntries(kind, d, waiting) ==
    LET entry(s) == <<[type |-> "note", kind |-> kind, id |-> d, status |-> s]>>
    IN  IF waiting /\ note[kind][d] # "pending" THEN entry("pending")
        ELSE IF ~waiting /\ note[kind][d] = "pending" THEN entry("acknowledged")
        ELSE <<>>

DelegationEntries(d, s) ==
    <<[type |-> "delegation", id |-> d, status |-> s]>>
      \o NoteEntries("worker", d, s = "queued")

VerificationEntries(d, s) ==
    <<[type |-> "verification", id |-> d, status |-> s]>>
      \o NoteEntries("verifier", d, s = "pending")

\* Mutant: no reconciliation.
ReconcileNothing == <<>>

\* Startup reconciliation of the scheduler jobs: whoever ran has died.
ReconcileEntries ==
    FlattenSeq([i \in 1..Len(InStatus("running")) |->
                  DelegationEntries(InStatus("running")[i], "failed")])

-----------------------------------------------------------------------------
(* Steps of the jobs.  Each starts when the entries of the last are in.     *)

Starts(c, p, entries) ==
    /\ proc[c] = Idle
    /\ proc' = [proc EXCEPT ![c] = p]
    /\ queue' = [queue EXCEPT ![c] = entries]
    /\ UNCHANGED <<lane, deaths>>

\* Where a process stands, with the entries of its last step appended.
Stands(c, at) == queue[c] = <<>> /\ proc[c].at = at

Continues(c, p, entries) ==
    /\ proc' = [proc EXCEPT ![c] = p]
    /\ queue' = [queue EXCEPT ![c] = entries]
    /\ UNCHANGED <<lane, deaths>>

Ends(c) == Continues(c, Idle, <<>>)

At(c, at) == [proc[c] EXCEPT !.at = at]

Command(at) == [Idle EXCEPT !.job = "command", !.at = at]

\* Mutant: an enqueue always queues.
EnqueueAgain(c, d) == Starts(c, Command("end"), DelegationEntries(d, "queued"))

\* upsertDelegation without a status: a known record keeps the one it has.
EnqueueDelegation(c, d) ==
    LET s == IF delegation[d] = "absent" THEN "queued" ELSE delegation[d]
    IN  Starts(c, Command("end"), DelegationEntries(d, s))

RunVerification(c, d) ==
    /\ verification[d] = "pending"
    /\ Starts(c, Command("end"), VerificationEntries(d, "decided"))

StartExecutor(c) ==
    Starts(c, [Idle EXCEPT !.job = "executor", !.at = "tick"], ReconcileEntries)

\* The dispatch intents of one tick: the ready delegations, at most `limit`.
Tick(c, limit) ==
    /\ Stands(c, "tick")
    /\ LET n == IF limit < Len(ReadyMailbox) THEN limit ELSE Len(ReadyMailbox)
           intents == SubSeq(ReadyMailbox, 1, n)
       IN  Continues(c, [At(c, "next") EXCEPT !.todo = intents], <<>>)

\* run-delegation with a worker: takes ready delegations until `limit`.
StartRunDelegation(c, limit) ==
    /\ ReadyMailbox # <<>>
    /\ Starts(c, [Idle EXCEPT !.job = "delegation", !.at = "next", !.left = limit], <<>>)

\* run-delegation with a delegation id: whether it is blocked, the claim says.
StartNamedDelegation(c, d) ==
    /\ delegation[d] = "queued"
    /\ Starts(c, [Idle EXCEPT !.job = "delegation", !.at = "claim", !.current = d], <<>>)

\* The executor's next intent, as long as it is still in the mailbox.
HasIntent(c) ==
    /\ proc[c].job = "executor" /\ proc[c].todo # <<>>
    /\ delegation[Head(proc[c].todo)] = "queued"

NextIntent(c) ==
    /\ Stands(c, "next") /\ HasIntent(c)
    /\ Continues(c, [At(c, "claim") EXCEPT !.todo = Tail(@), !.current = Head(proc[c].todo)],
                 <<>>)

\* Mutant: maxClaims is not counted.
HasReadyUncounted(c) == proc[c].job = "delegation" /\ ReadyMailbox # <<>>

HasReady(c) ==
    proc[c].job = "delegation" /\ proc[c].left > 0 /\ ReadyMailbox # <<>>

NextReady(c) ==
    /\ Stands(c, "next") /\ HasReady(c)
    /\ Continues(c, [At(c, "claim") EXCEPT !.left = @ - 1, !.current = Head(ReadyMailbox)],
                 <<>>)

EndRun(c) ==
    /\ Stands(c, "next") /\ ~HasIntent(c) /\ ~HasReady(c)
    /\ Ends(c)

\* selectDelegationForClaim and the claim are one command; when it refuses it
\* throws, and with it the whole job.
ClaimDelegation(c) ==
    /\ Stands(c, "claim")
    /\ IF Claimable(proc[c].current)
         THEN Continues(c, At(c, "finish"), DelegationEntries(proc[c].current, "running"))
         ELSE Ends(c)

\* Mutant: requests the verification of a failed delegation too.
FinishAlwaysVerified(c, s) ==
    /\ Stands(c, "finish")
    /\ s = "completed" \/ (s = "failed" /\ proc[c].job = "delegation")
    /\ Continues(c, At(c, IF proc[c].current \in Verified THEN "verify" ELSE "next"),
                 DelegationEntries(proc[c].current, s))

\* Only the caller of run-delegation itself can report a failure.
FinishDelegation(c, s) ==
    /\ Stands(c, "finish")
    /\ s = "completed" \/ (s = "failed" /\ proc[c].job = "delegation")
    /\ LET requests == s = "completed" /\ proc[c].current \in Verified
       IN  Continues(c, At(c, IF requests THEN "verify" ELSE "next"),
                     DelegationEntries(proc[c].current, s))

RequestVerification(c) ==
    /\ Stands(c, "verify")
    /\ Continues(c, At(c, "next"), VerificationEntries(proc[c].current, "pending"))

StartRecovery(c) ==
    Starts(c, [Idle EXCEPT !.job = "recovery", !.at = "plan"], ReconcileEntries)

\* The operator confirms cancelling some of the queued delegations; which of
\* them drifted from their write sets is left open, none is the dry run.
PlanCancels(c, drifted) ==
    /\ Stands(c, "plan") /\ \A d \in drifted : delegation[d] = "queued"
    /\ Continues(c, [At(c, "cancel") EXCEPT
                       !.todo = Subsequence(order, {i \in DOMAIN order : order[i] \in drifted})],
                 <<>>)

CancelDelegation(c) ==
    /\ Stands(c, "cancel") /\ proc[c].todo # <<>>
    /\ Continues(c, [proc[c] EXCEPT !.todo = Tail(@)],
                 DelegationEntries(Head(proc[c].todo), "cancelled"))

EndRecovery(c) == Stands(c, "cancel") /\ proc[c].todo = <<>> /\ Ends(c)

EndCommand(c) == Stands(c, "end") /\ Ends(c)

-----------------------------------------------------------------------------
(* One appendJournal transaction, seen through the next projection.         *)

ReplayDelegation(e) ==
    /\ delegation' = [delegation EXCEPT ![e.id] = e.status]
    /\ order' = IF delegation[e.id] = "absent" THEN Append(order, e.id) ELSE order
    /\ UNCHANGED <<verification, note>>

ReplayVerification(e) ==
    /\ verification' = [verification EXCEPT ![e.id] = e.status]
    /\ UNCHANGED <<delegation, order, note>>

ReplayNote(e) ==
    /\ note' = [note EXCEPT ![e.kind][e.id] = e.status]
    /\ UNCHANGED <<delegation, order, verification>>

Replay(e) ==
    \/ e.type = "delegation" /\ ReplayDelegation(e)
    \/ e.type = "verification" /\ ReplayVerification(e)
    \/ e.type = "note" /\ ReplayNote(e)

AppendEntry(c) ==
    /\ queue[c] # <<>>
    /\ Replay(Head(queue[c]))
    /\ queue' = [queue EXCEPT ![c] = Tail(@)]
    /\ UNCHANGED <<proc, deaths>>

Die(c) ==
    /\ proc[c] # Idle /\ deaths < MaxDeaths
    /\ proc' = [proc EXCEPT ![c] = Idle]
    /\ queue' = [queue EXCEPT ![c] = <<>>]
    /\ deaths' = deaths + 1
    /\ UNCHANGED lane

\* What a running job does next, with nobody's decision in between.
Proceeds(c) ==
    \/ AppendEntry(c)
    \/ \E limit \in 1..MaxClaims : Tick(c, limit)
    \/ NextIntent(c) \/ NextReady(c) \/ EndRun(c)
    \/ ClaimDelegation(c)
    \/ \E s \in Terminal : FinishDelegation(c, s)
    \/ RequestVerification(c)
    \/ \E drifted \in SUBSET Delegations : PlanCancels(c, drifted)
    \/ CancelDelegation(c) \/ EndRecovery(c) \/ EndCommand(c)

Next ==
    \E c \in Procs :
        \/ \E d \in Delegations :
              EnqueueDelegation(c, d) \/ RunVerification(c, d) \/ StartNamedDelegation(c, d)
        \/ StartExecutor(c)
        \/ \E limit \in 1..MaxClaims : StartRunDelegation(c, limit)
        \/ StartRecovery(c)
        \/ Proceeds(c)
        \/ Die(c)

Spec == Init /\ [][Next]_vars

\* A job that started goes on (each is one synchronous program), and the
\* executor is started again and again, between whatever else is started.
FairSpec ==
    /\ Spec
    /\ \A c \in Procs : WF_vars(Proceeds(c)) /\ SF_vars(StartExecutor(c))

-----------------------------------------------------------------------------
(* Type invariant of the lane and of the jobs in progress.                  *)
TypeOK ==
    /\ delegation \in [Delegations -> {"absent"} \cup Active \cup Terminal]
    /\ order \in Seq(Delegations)
    /\ verification \in [Delegations -> {"absent", "pending", "decided"}]
    /\ note \in [Kinds -> [Delegations -> {"absent", "pending", "acknowledged"}]]
    /\ queue \in [Procs -> Seq(Entries)]
    /\ proc \in [Procs -> Process]
    /\ deaths \in 0..MaxDeaths

(* Two delegations that may write the same path never run together, not     *)
(* even when the process behind one of them died and its record still says  *)
(* running (selectDelegationForClaim, createSubagentSchedulingByDelegationId).*)
RunningDisjoint ==
    \A d, e \in Delegations :
        d # e /\ delegation[d] = "running" /\ delegation[e] = "running" => ~Overlap(d, e)

(* The scheduler never blocks everyone on everyone: with nothing running,   *)
(* something that is queued may start.                                      *)
SomethingReady ==
    InStatus("queued") # <<>> /\ InStatus("running") = <<>> => ReadyMailbox # <<>>

(* A delegation that ended stays as it ended, through reconciliation,       *)
(* repeated enqueues and recoveries (no job revives or overrules it).       *)
EndedStaysEnded ==
    [][\A d \in Delegations :
          delegation[d] \in Terminal => delegation'[d] = delegation[d]]_vars

(* A verifier is only asked about a delegation that completed: the request  *)
(* is a later transaction than the completion, and nothing undoes that.     *)
VerifiedCompleted ==
    \A d \in Delegations : verification[d] # "absent" => delegation[d] = "completed"

(* As long as nobody died, the mailboxes tell the truth between jobs:       *)
(* exactly the waiting records have a pending notification, and every       *)
(* completed delegation that asked for a verification has one.              *)
MailboxesCovered ==
    deaths = 0 /\ (\A c \in Procs : proc[c] = Idle) =>
        \A d \in Delegations :
            /\ note["worker"][d] = "pending" <=> delegation[d] = "queued"
            /\ note["verifier"][d] = "pending" <=> verification[d] = "pending"
            /\ d \in Verified /\ delegation[d] = "completed" => verification[d] # "absent"

(* Nothing that was delegated is forgotten: a queued delegation ends, even  *)
(* when its worker dies, because the next executor fails the orphan first.  *)
EveryDelegationEnds ==
    \A d \in Delegations : delegation[d] \in Active ~> delegation[d] \in Terminal

(* benchmarks/README.md:649: the executor "consumes scheduler tick dispatch *)
(* intents through task-plane run-delegation".  So each intent of its tick  *)
(* must still be claimable when its turn comes and nobody else worked.      *)
IntentsClaimable ==
    \A c \in Procs :
        proc[c].job = "executor" /\ proc[c].at = "claim" /\ queue[c] = <<>>
            => Claimable(proc[c].current)
=============================================================================
