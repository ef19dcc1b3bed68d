---------------------------- MODULE TaskProposals ----------------------------
(***************************************************************************)
(* The proposal lane of the task plane (packages/tasks-core): proposals of *)
(* kind tasks.todo_write, the todo list they are applied to, and the       *)
(* outbox that announces every decision.                                   *)
(*                                                                         *)
(* The journal is the only durable state: every command projects it from   *)
(* the first entry, works on a private TaskBoard and then appends the      *)
(* entries the board queued, one appendJournal transaction each.  The      *)
(* durable state here is what the next command will project: `status`,     *)
(* `todos`, `outbox`, and `readable`, FALSE once the journal holds an      *)
(* entry whose replay throws, so that every later projection throws.  A    *)
(* command is its Begin step (projection and board), one Append per entry, *)
(* and HandOut for what drainProposalOutbox returns.  A process can die    *)
(* between any two of them, and so can a call whose append throws (the     *)
(* session was archived, the database stayed busy).                        *)
(***************************************************************************)
EXTENDS Naturals, Sequences, FiniteSets, Subsequences

CONSTANTS
    Procs,       \* processes with the session's database open
    Proposals,   \* proposal ids
    Stamps,      \* bound: the values Date.now() takes in outbox entry ids
    NoTodos,     \* the empty todo list of a new session
    Edited       \* a todo list that no proposal carries

ASSUME TodosAssumption == {NoTodos, Edited} \cap Proposals = {}

VARIABLES
    status,     \* proposalQueue: the status of each proposal
    todos,      \* todos: a proposal's list is named by the proposal
    outbox,     \* proposalOutbox: the ids of its entries, oldest first
    readable,   \* FALSE: the projection of the journal throws
    accepted,   \* history: proposals of which the journal records an acceptance
    queue,      \* per process: the entries its board has still to append
    handing,    \* per process: the entries its drain call will return
    written,    \* history: proposals whose list was ever written to the todos
    delivered,  \* history: outbox ids that some drain call returned
    overlapped  \* history: a command began while another was in progress

board == <<status, todos, outbox, readable, accepted>>
vars == <<board, queue, handing, written, delivered, overlapped>>

Known == {"pending", "accepted", "rejected", "applied", "expired"}
Todos == Proposals \cup {NoTodos, Edited}
OutboxIds == [proposal : Proposals, status : Known, stamp : Stamps]
Entries ==
       [type : {"todo_write"}, todos : Proposals \cup {Edited}]
  \cup [type : {"enqueued", "transitioned"}, id : OutboxIds]
  \cup [type : {"drained"}, ids : SUBSET OutboxIds]

AllowedTransitions == [pending |-> {"accepted", "rejected", "expired"},
                       accepted |-> {"applied", "expired"},
                       rejected |-> {}, applied |-> {}, expired |-> {}]

CanTransition(from, to) == from = to \/ to \in AllowedTransitions[from]

Init ==
    /\ status = [p \in Proposals |-> "none"]
    /\ todos = NoTodos
    /\ outbox = <<>>
    /\ readable = TRUE
    /\ accepted = {}
    /\ queue = [c \in Procs |-> <<>>]
    /\ handing = [c \in Procs |-> {}]
    /\ written = {}
    /\ delivered = {}
    /\ overlapped = FALSE

-----------------------------------------------------------------------------
(* Commands: project the journal, run the board, queue its entries.        *)

\* A process runs one command at a time, and none on an unreadable journal.
Idle(c) == queue[c] = <<>> /\ handing[c] = {}
Free(c) == Idle(c) /\ readable

Begins(c) == overlapped' = (overlapped \/ \E d \in Procs \ {c} : ~Idle(d))

Queues(c, entries) ==
    /\ Free(c)
    /\ queue' = [queue EXCEPT ![c] = entries]
    /\ Begins(c)
    /\ UNCHANGED <<board, handing, written, delivered>>

TodoEntry(value) == [type |-> "todo_write", todos |-> value]
DecisionEntry(type, p, s, t) ==
    [type |-> type, id |-> [proposal |-> p, status |-> s, stamp |-> t]]

WriteTodos(c) == Queues(c, <<TodoEntry(Edited)>>)

\* Mutant: without the look for a proposal of the same id.
EnqueueUnchecked(c, p) ==
    \E t \in Stamps : Queues(c, <<DecisionEntry("enqueued", p, "pending", t)>>)

EnqueueProposal(c, p) ==
    /\ status[p] = "none"
    /\ \E t \in Stamps : Queues(c, <<DecisionEntry("enqueued", p, "pending", t)>>)

\* A client may ask for any status but "applied", which the control plane leaves
\* to applyProposal; asking for the current status queues nothing.
TransitionProposal(c, p, s) ==
    /\ status[p] \in Known /\ s # "applied"
    /\ s # status[p] /\ CanTransition(status[p], s)
    /\ \E t \in Stamps : Queues(c, <<DecisionEntry("transitioned", p, s, t)>>)

\* Mutant: marks the proposal applied before it writes the todos.
ApplyEntriesSwapped(p, t) ==
    <<DecisionEntry("transitioned", p, "applied", t), TodoEntry(p)>>

ApplyEntries(p, t) ==
    <<TodoEntry(p), DecisionEntry("transitioned", p, "applied", t)>>

Appliable(p) == status[p] = "accepted"

ApplyProposal(c, p) ==
    /\ Appliable(p)
    /\ \E t \in Stamps : Queues(c, ApplyEntries(p, t))

DrainProposalOutbox(c, limit) ==
    /\ Free(c) /\ limit \in 1..Len(outbox)
    /\ LET ids == {outbox[i] : i \in 1..limit} IN
         /\ queue' = [queue EXCEPT ![c] = <<[type |-> "drained", ids |-> ids]>>]
         /\ handing' = [handing EXCEPT ![c] = ids]
    /\ Begins(c)
    /\ UNCHANGED <<board, written, delivered>>

-----------------------------------------------------------------------------
(* One appendJournal transaction, seen through the next projection.        *)

ReplayTodoWrite(e) ==
    /\ todos' = e.todos
    /\ written' = written \cup ({e.todos} \cap Proposals)
    /\ UNCHANGED <<status, outbox, readable, accepted>>

\* Mutant: replay trusts the board that wrote the entry.
ReplayableAlways(e) == TRUE

\* What replay requires of an entry about a proposal.
Replayable(e) ==
    IF e.type = "enqueued"
      THEN status[e.id.proposal] = "none"
      ELSE status[e.id.proposal] \in Known
             /\ CanTransition(status[e.id.proposal], e.id.status)

Acceptances(e) ==
    IF e.id.status = "accepted" THEN accepted \cup {e.id.proposal} ELSE accepted

\* Mutant: keeps the event's name for the proposal's status.
ReplayDecisionName(e) ==
    /\ status' = [status EXCEPT ![e.id.proposal] = e.type]
    /\ outbox' = Append(outbox, e.id)
    /\ UNCHANGED <<readable, accepted, todos, written>>

\* Mutant: newest announcement first.
ReplayDecisionPrepended(e) ==
    /\ IF Replayable(e)
         THEN /\ status' = [status EXCEPT ![e.id.proposal] = e.id.status]
              /\ outbox' = <<e.id>> \o outbox
              /\ accepted' = Acceptances(e)
              /\ UNCHANGED readable
         ELSE /\ readable' = FALSE
              /\ UNCHANGED <<status, outbox, accepted>>
    /\ UNCHANGED <<todos, written>>

ReplayDecision(e) ==
    /\ IF Replayable(e)
         THEN /\ status' = [status EXCEPT ![e.id.proposal] = e.id.status]
              /\ outbox' = Append(outbox, e.id)
              /\ accepted' = Acceptances(e)
              /\ UNCHANGED readable
         ELSE /\ readable' = FALSE
              /\ UNCHANGED <<status, outbox, accepted>>
    /\ UNCHANGED <<todos, written>>

\* Mutant: drops by position, one short.
DrainedOneShort(ids) == SubSeq(outbox, Cardinality(ids), Len(outbox))

Drained(ids) == Subsequence(outbox, {i \in DOMAIN outbox : outbox[i] \notin ids})

ReplayDrained(e) ==
    /\ outbox' = Drained(e.ids)
    /\ UNCHANGED <<status, todos, readable, accepted, written>>

\* Entries behind an unreadable one still reach the journal, and no reader.
Replay(e) ==
    \/ e.type = "todo_write" /\ readable /\ ReplayTodoWrite(e)
    \/ e.type \in {"enqueued", "transitioned"} /\ readable /\ ReplayDecision(e)
    \/ e.type = "drained" /\ readable /\ ReplayDrained(e)
    \/ ~readable /\ UNCHANGED <<board, written>>

AppendEntry(c) ==
    /\ queue[c] # <<>>
    /\ Replay(Head(queue[c]))
    /\ queue' = [queue EXCEPT ![c] = Tail(@)]
    /\ UNCHANGED <<handing, delivered, overlapped>>

\* drainProposalOutbox returns what its board drained once it is recorded.
HandOut(c) ==
    /\ queue[c] = <<>> /\ handing[c] # {}
    /\ delivered' = delivered \cup handing[c]
    /\ handing' = [handing EXCEPT ![c] = {}]
    /\ UNCHANGED <<board, queue, written, overlapped>>

\* The rest of the command is lost; what it appended stays.
Die(c) ==
    /\ ~Idle(c)
    /\ queue' = [queue EXCEPT ![c] = <<>>]
    /\ handing' = [handing EXCEPT ![c] = {}]
    /\ UNCHANGED <<board, written, delivered, overlapped>>

Next ==
    \E c \in Procs :
        \/ WriteTodos(c)
        \/ \E p \in Proposals :
              \/ EnqueueProposal(c, p)
              \/ \E s \in Known : TransitionProposal(c, p, s)
              \/ ApplyProposal(c, p)
        \/ \E limit \in 1..Len(outbox) : DrainProposalOutbox(c, limit)
        \/ AppendEntry(c)
        \/ HandOut(c)
        \/ Die(c)

Spec == Init /\ [][Next]_vars

-----------------------------------------------------------------------------
(* Type invariant of the durable state and of the commands in progress.    *)
TypeOK ==
    /\ status \in [Proposals -> Known \cup {"none"}]
    /\ todos \in Todos
    /\ outbox \in Seq(OutboxIds)
    /\ readable \in BOOLEAN
    /\ queue \in [Procs -> Seq(Entries)]
    /\ handing \in [Procs -> SUBSET OutboxIds]
    /\ accepted \cup written \subseteq Proposals
    /\ delivered \subseteq OutboxIds
    /\ overlapped \in BOOLEAN

(* No command, and no part of a command cut short, leaves a journal that   *)
(* the next projection cannot read, as long as no two commands overlapped:  *)
(* overlapping ones can break it (accept beside reject).                    *)
JournalReadable == ~overlapped => readable

(* A proposal's list reaches the todos only after the proposal was          *)
(* accepted: no interleaving of processes writes the list of a proposal     *)
(* that is unreviewed, rejected, or expired before its review (applyProposal*)
(* checks the status on a board that may be stale when its first entry is   *)
(* appended).                                                               *)
UnreviewedNeverWritten ==
    \A p \in written : p \in accepted /\ status[p] \in {"accepted", "applied", "expired"}

(* "applied" is never recorded without the write it promises, although the  *)
(* two are separate transactions: applyProposal writes the todos first.     *)
AppliedWereWritten ==
    \A p \in Proposals : status[p] = "applied" => p \in written

(* What a drain call is about to return was not returned before: a drain    *)
(* that died without recording is repeated, one that recorded is not.  Two  *)
(* overlapping drains may return the same.                                  *)
DeliveredOnce ==
    ~overlapped => \A c \in Procs : handing[c] \cap delivered = {}

(* The outbox tells the truth: of the entries about a proposal the newest   *)
(* carries its present status, whatever was drained before it.              *)
OutboxCurrent ==
    \A i \in DOMAIN outbox :
        (\A j \in DOMAIN outbox : j > i => outbox[j].proposal # outbox[i].proposal)
            => status[outbox[i].proposal] = outbox[i].status

(* What any number of processes, each working on a board that may be stale  *)
(* and dying anywhere, together implement.                                  *)
Reviewed == INSTANCE ReviewedLists

ReviewedSpec == Reviewed!Spec
=============================================================================
