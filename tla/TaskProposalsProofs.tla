------------------------- MODULE TaskProposalsProofs -------------------------
(***************************************************************************)
(* Proofs about the proposal lane.  What any number of processes keeps:    *)
(* no list of an unreviewed proposal is ever written, and "applied" is     *)
(* only recorded behind the write; together they implement ReviewedLists.  *)
(* What commands that do not overlap also keep, whatever dies where: the   *)
(* journal stays readable, and nothing is handed out twice.                *)
(*                                                                         *)
(* The inductive invariant says what a process may still have to append:   *)
(* the board that queued it is stale, so its promise must survive every    *)
(* decision another process makes meanwhile.                               *)
(*                                                                         *)
(* What the outbox keeps rests on the order of a proposal's statuses: every *)
(* id ever announced carries a status that the proposal has gone through.   *)
(***************************************************************************)
EXTENDS TaskProposals, SubsequencesProofs

Decided(p) == p \in accepted /\ status[p] \in {"accepted", "applied", "expired"}

\* Who is accepted, or applied, has its acceptance on record, which stands.
Accepted ==
    /\ accepted \subseteq Proposals
    /\ \A p \in Proposals : status[p] \in {"accepted", "applied"} => p \in accepted
    /\ \A p \in accepted : Decided(p)

\* The last entry of a command, or the only one.
LastEntry(e) ==
    \/ e = TodoEntry(Edited)
    \/ \E p \in Proposals, t \in Stamps :
          e = DecisionEntry("enqueued", p, "pending", t)
    \/ \E p \in Proposals, s \in Known \ {"applied"}, t \in Stamps :
          e = DecisionEntry("transitioned", p, s, t)
    \/ \E p \in written, t \in Stamps :
          e = DecisionEntry("transitioned", p, "applied", t)
    \/ \E ids : e = [type |-> "drained", ids |-> ids]

Pending(c) ==
    \/ queue[c] = <<>>
    \/ \E e : LastEntry(e) /\ queue[c] = <<e>>
    \/ \E p \in Proposals, t \in Stamps : Decided(p) /\ queue[c] = ApplyEntries(p, t)

LaneType ==
    /\ status \in [Proposals -> Known \cup {"none"}]
    /\ written \subseteq Proposals
    /\ queue = [c \in Procs |-> queue[c]]

IInv ==
    /\ LaneType
    /\ Accepted
    /\ UnreviewedNeverWritten
    /\ AppliedWereWritten
    /\ readable => \A c \in Procs : Pending(c)

-----------------------------------------------------------------------------
(* A decision taken on a replayable entry never takes a reviewed proposal   *)
(* back (canTransitionProposalStatus, enqueueProposal's duplicate check).   *)
LEMMA DecisionsForward ==
    ASSUME NEW e, NEW p \in Proposals,
           status \in [Proposals -> Known \cup {"none"}],
           e.type \in {"enqueued", "transitioned"},
           e.id \in OutboxIds, Replayable(e), Decided(p),
           status' = [status EXCEPT ![e.id.proposal] = e.id.status],
           accepted' = Acceptances(e)
    PROVE  Decided(p)'
  <1>0. accepted \subseteq accepted'
    BY DEF Acceptances
  <1>1. CASE p # e.id.proposal
    BY <1>0, <1>1 DEF Decided, OutboxIds
  <1>2. CASE p = e.id.proposal
    <2>1. e.type = "transitioned"
      BY <1>2 DEF Replayable, Decided
    <2>2. CanTransition(status[p], e.id.status)
      BY <1>2, <2>1 DEF Replayable
    <2>3. e.id.status \in {"accepted", "applied", "expired"}
      BY <2>2 DEF Decided, CanTransition, AllowedTransitions
    <2> QED
      BY <1>0, <1>2, <2>3 DEF Decided, OutboxIds
  <1> QED
    BY <1>1, <1>2

(* What one appended entry does to the lane's decisions and writes.         *)
LEMMA ReplayKeepsDecisions ==
    ASSUME IInv, NEW e, Replay(e),
           readable => LastEntry(e) \/ \E p \in Proposals : Decided(p) /\ e = TodoEntry(p)
    PROVE  /\ status' \in [Proposals -> Known \cup {"none"}]
           /\ written' \subseteq Proposals
           /\ Accepted'
           /\ UnreviewedNeverWritten'
           /\ AppliedWereWritten'
           /\ written \subseteq written'
           /\ \A p \in Proposals : Decided(p) => Decided(p)'
  <1> USE DEF IInv, LaneType
  <1>1. CASE ~readable /\ UNCHANGED <<board, written>>
    BY <1>1 DEF board, Accepted, UnreviewedNeverWritten, AppliedWereWritten, Decided
  <1>2. CASE e.type = "drained" /\ readable /\ ReplayDrained(e)
    BY <1>2 DEF ReplayDrained, Accepted, UnreviewedNeverWritten, AppliedWereWritten, Decided
  <1>3. CASE e.type = "todo_write" /\ readable /\ ReplayTodoWrite(e)
    <2>1. e.todos \in Proposals => Decided(e.todos)
      BY <1>3, TodosAssumption DEF LastEntry, TodoEntry, DecisionEntry
    <2> QED
      BY <1>3, <2>1 DEF ReplayTodoWrite, Accepted, UnreviewedNeverWritten, AppliedWereWritten, Decided
  <1>4. CASE e.type \in {"enqueued", "transitioned"} /\ readable /\ ReplayDecision(e)
    <2>1. CASE ~Replayable(e)
      BY <1>4, <2>1 DEF ReplayDecision, Accepted, UnreviewedNeverWritten, AppliedWereWritten, Decided
    <2>2. CASE Replayable(e)
      <3>1. e.id \in OutboxIds
        BY <1>4 DEF LastEntry, TodoEntry, DecisionEntry, OutboxIds, Known
      <3>2. /\ status' = [status EXCEPT ![e.id.proposal] = e.id.status]
            /\ written' = written /\ accepted' = Acceptances(e)
        BY <1>4, <2>2 DEF ReplayDecision
      <3>3. status' \in [Proposals -> Known \cup {"none"}]
        BY <3>1, <3>2 DEF OutboxIds
      <3>4. ASSUME NEW p \in Proposals, Decided(p) PROVE Decided(p)'
        <4>1. /\ status \in [Proposals -> Known \cup {"none"}]
              /\ e.type \in {"enqueued", "transitioned"}
          BY <1>4
        <4> HIDE DEF IInv, LaneType
        <4> QED
          BY <2>2, <3>1, <3>2, <3>4, <4>1, DecisionsForward DEF Decided
      <3>8. Accepted'
        <4>1. e.id.proposal \in Proposals
          BY <3>1 DEF OutboxIds
        <4>2. e.id.status = "applied" => status[e.id.proposal] \in {"accepted", "applied"}
          BY <1>4, <2>2, <4>1 DEF LastEntry, TodoEntry, DecisionEntry, Replayable, CanTransition,
                                  AllowedTransitions, Known
        <4>3. accepted' \subseteq Proposals
          BY <3>2, <4>1 DEF Acceptances, Accepted
        <4>4. \A p \in Proposals : status'[p] \in {"accepted", "applied"} => p \in accepted'
          BY <3>2, <4>1, <4>2 DEF Acceptances, Accepted
        <4>5. \A p \in accepted' : Decided(p)'
          BY <3>2, <3>4, <4>1 DEF Acceptances, Accepted, Decided
        <4> QED
          BY <4>3, <4>4, <4>5 DEF Accepted
      <3>5. UnreviewedNeverWritten'
        BY <3>2, <3>4 DEF UnreviewedNeverWritten, Decided
      <3>6. e.id.status = "applied" => e.id.proposal \in written
        BY <1>4 DEF LastEntry, TodoEntry, DecisionEntry
      <3>7. AppliedWereWritten'
        BY <3>1, <3>2, <3>6 DEF AppliedWereWritten, OutboxIds
      <3> QED
        BY <3>2, <3>3, <3>4, <3>5, <3>7, <3>8
    <2> QED
      BY <2>1, <2>2
  <1> QED
    BY <1>1, <1>2, <1>3, <1>4 DEF Replay

(* A command, or a death, changes only its own process's queue.             *)
LEMMA OwnQueueKeepsIInv ==
    ASSUME IInv, NEW c \in Procs, NEW entries,
           queue' = [queue EXCEPT ![c] = entries],
           UNCHANGED <<status, accepted, written, readable>>,
           \/ entries = <<>>
           \/ \E e : LastEntry(e) /\ entries = <<e>>
           \/ \E p \in Proposals, t \in Stamps : Decided(p) /\ entries = ApplyEntries(p, t)
    PROVE  IInv'
  <1>1. LaneType'
    BY DEF IInv, LaneType
  <1>2. Accepted' /\ UnreviewedNeverWritten' /\ AppliedWereWritten'
    BY DEF IInv, Accepted, Decided, UnreviewedNeverWritten, AppliedWereWritten
  <1>3. ASSUME NEW d \in Procs, readable PROVE Pending(d)'
    <2>1. queue'[d] = IF d = c THEN entries ELSE queue[d]
      BY DEF IInv, LaneType
    <2>2. \A e : LastEntry(e) => LastEntry(e)'
      BY DEF LastEntry
    <2>3. \A p \in Proposals : Decided(p) => Decided(p)'
      BY DEF Decided
    <2>4. CASE d = c
      BY <2>1, <2>2, <2>3, <2>4 DEF Pending, Decided, LastEntry
    <2>5. CASE d # c
      BY <1>3, <2>1, <2>2, <2>3, <2>5 DEF IInv, Pending, Decided, LastEntry
    <2> QED
      BY <2>4, <2>5
  <1> QED
    BY <1>1, <1>2, <1>3 DEF IInv

LEMMA InitIInv == Init => IInv
  BY DEF Init, IInv, LaneType, Accepted, UnreviewedNeverWritten, AppliedWereWritten, Pending

(* Each command queues entries that its process may append.                 *)
LEMMA CommandsKeepIInv ==
    ASSUME IInv, NEW c \in Procs,
           \/ WriteTodos(c)
           \/ \E p \in Proposals : EnqueueProposal(c, p)
           \/ \E p \in Proposals, s \in Known : TransitionProposal(c, p, s)
           \/ \E p \in Proposals : ApplyProposal(c, p)
           \/ \E limit \in 1..Len(outbox) : DrainProposalOutbox(c, limit)
    PROVE  IInv'
  <1>1. CASE WriteTodos(c)
    <2>1. LastEntry(TodoEntry(Edited))
      BY DEF LastEntry
    <2> QED
      BY <1>1, <2>1, OwnQueueKeepsIInv DEF WriteTodos, Queues, board
  <1>2. ASSUME NEW p \in Proposals, EnqueueProposal(c, p) PROVE IInv'
    <2>1. \A t \in Stamps : LastEntry(DecisionEntry("enqueued", p, "pending", t))
      BY DEF LastEntry
    <2> QED
      BY <1>2, <2>1, OwnQueueKeepsIInv DEF EnqueueProposal, Queues, board
  <1>3. ASSUME NEW p \in Proposals, NEW s \in Known, TransitionProposal(c, p, s)
        PROVE  IInv'
    <2>1. \A t \in Stamps : LastEntry(DecisionEntry("transitioned", p, s, t))
      BY <1>3 DEF LastEntry, TransitionProposal
    <2> QED
      BY <1>3, <2>1, OwnQueueKeepsIInv DEF TransitionProposal, Queues, board
  <1>4. ASSUME NEW p \in Proposals, ApplyProposal(c, p) PROVE IInv'
    <2>1. Decided(p)
      BY <1>4 DEF ApplyProposal, Appliable, IInv, Accepted, Decided
    <2> QED
      BY <1>4, <2>1, OwnQueueKeepsIInv DEF ApplyProposal, Queues, board
  <1>5. ASSUME NEW limit \in 1..Len(outbox), DrainProposalOutbox(c, limit) PROVE IInv'
    <2>1. \A ids : LastEntry([type |-> "drained", ids |-> ids])
      BY DEF LastEntry
    <2> QED
      BY <1>5, <2>1, OwnQueueKeepsIInv DEF DrainProposalOutbox, board
  <1> QED
    BY <1>1, <1>2, <1>3, <1>4, <1>5

(* The entry that a process appends next, and what it has left behind it.   *)
LEMMA HeadFits ==
    ASSUME IInv, NEW c \in Procs, queue[c] # <<>>, readable
    PROVE  \/ LastEntry(Head(queue[c])) /\ Tail(queue[c]) = <<>>
           \/ \E p \in Proposals, t \in Stamps :
               /\ Decided(p) /\ Head(queue[c]) = TodoEntry(p)
               /\ Tail(queue[c]) = <<DecisionEntry("transitioned", p, "applied", t)>>
  <1>1. Pending(c)
    BY DEF IInv
  <1>2. ASSUME NEW x, LastEntry(x), queue[c] = <<x>>
        PROVE  LastEntry(Head(queue[c])) /\ Tail(queue[c]) = <<>>
    BY <1>2
  <1>3. ASSUME NEW p \in Proposals, NEW t \in Stamps, Decided(p),
               queue[c] = ApplyEntries(p, t)
        PROVE  /\ Head(queue[c]) = TodoEntry(p)
               /\ Tail(queue[c]) = <<DecisionEntry("transitioned", p, "applied", t)>>
    BY <1>3 DEF ApplyEntries
  <1> QED
    BY <1>1, <1>2, <1>3 DEF Pending

(* One appended entry: the head is what ReplayKeepsDecisions accepts, and   *)
(* the rest of the command stays something its process may append.          *)
LEMMA AppendKeepsIInv ==
    ASSUME IInv, NEW c \in Procs, AppendEntry(c)
    PROVE  IInv'
  <1> DEFINE e == Head(queue[c])
  <1>1. queue' = [queue EXCEPT ![c] = Tail(queue[c])]
    BY DEF AppendEntry
  <1>2. readable =>
          \/ LastEntry(e) /\ Tail(queue[c]) = <<>>
          \/ \E p \in Proposals, t \in Stamps :
              /\ Decided(p) /\ e = TodoEntry(p)
              /\ Tail(queue[c]) = <<DecisionEntry("transitioned", p, "applied", t)>>
    BY HeadFits DEF AppendEntry
  <1>3. /\ status' \in [Proposals -> Known \cup {"none"}]
        /\ written' \subseteq Proposals
        /\ Accepted'
        /\ UnreviewedNeverWritten'
        /\ AppliedWereWritten'
        /\ written \subseteq written'
        /\ \A p \in Proposals : Decided(p) => Decided(p)'
    <2>1. Replay(e)
      BY DEF AppendEntry
    <2>2. readable => LastEntry(e) \/ \E p \in Proposals : Decided(p) /\ e = TodoEntry(p)
      BY <1>2
    <2> QED
      BY <2>1, <2>2, ReplayKeepsDecisions
  <1>4. LaneType'
    BY <1>1, <1>3 DEF IInv, LaneType
  <1>5. \A x : LastEntry(x) => LastEntry(x)'
    BY <1>3 DEF LastEntry
  <1>6. readable' => readable
    BY DEF AppendEntry, Replay, board
  <1>7. ASSUME NEW d \in Procs, readable, readable' PROVE Pending(d)'
    <2>1. CASE d # c
      <3>1. queue'[d] = queue[d] /\ Pending(d)
        BY <1>1, <1>7, <2>1 DEF IInv, LaneType
      <3> QED
        BY <1>3, <1>5, <3>1 DEF Pending
    <2>2. CASE d = c
      <3>1. queue'[d] = Tail(queue[c])
        BY <1>1, <2>2 DEF IInv, LaneType
      <3>2. CASE Tail(queue[c]) = <<>>
        BY <3>1, <3>2 DEF Pending
      <3>3. ASSUME NEW p \in Proposals, NEW t \in Stamps,
                   e = TodoEntry(p),
                   Tail(queue[c]) = <<DecisionEntry("transitioned", p, "applied", t)>>
            PROVE  Pending(d)'
        <4>1. p \in written'
          BY <1>7, <3>3 DEF AppendEntry, Replay, ReplayTodoWrite, TodoEntry
        <4>2. LastEntry(DecisionEntry("transitioned", p, "applied", t))'
          BY <4>1 DEF LastEntry
        <4> QED
          BY <3>1, <3>3, <4>2 DEF Pending
      <3> QED
        BY <1>2, <1>7, <3>2, <3>3
    <2> QED
      BY <2>1, <2>2
  <1> QED
    BY <1>3, <1>4, <1>6, <1>7 DEF IInv

LEMMA NextKeepsIInv == IInv /\ [Next]_vars => IInv'
  <1> SUFFICES ASSUME IInv, [Next]_vars PROVE IInv'
    OBVIOUS
  <1>1. ASSUME NEW c \in Procs, AppendEntry(c) PROVE IInv'
    BY <1>1, AppendKeepsIInv
  <1>2. ASSUME NEW c \in Procs, HandOut(c) PROVE IInv'
    BY <1>2 DEF HandOut, board, IInv, LaneType, Accepted, UnreviewedNeverWritten,
                AppliedWereWritten, Pending, LastEntry, Decided
  <1>3. ASSUME NEW c \in Procs, Die(c) PROVE IInv'
    BY <1>3, OwnQueueKeepsIInv DEF Die, board
  <1>4. ASSUME NEW c \in Procs,
               \/ WriteTodos(c)
               \/ \E p \in Proposals : EnqueueProposal(c, p)
               \/ \E p \in Proposals, s \in Known : TransitionProposal(c, p, s)
               \/ \E p \in Proposals : ApplyProposal(c, p)
               \/ \E limit \in 1..Len(outbox) : DrainProposalOutbox(c, limit)
        PROVE  IInv'
    BY <1>4, CommandsKeepIInv
  <1>5. CASE UNCHANGED vars
    BY <1>5 DEF vars, board, IInv, LaneType, Accepted, UnreviewedNeverWritten,
                AppliedWereWritten, Pending, LastEntry, Decided
  <1> QED
    BY <1>1, <1>2, <1>3, <1>4, <1>5 DEF Next

THEOREM Invariance == Spec => []IInv
  BY InitIInv, NextKeepsIInv, PTL DEF Spec

(* No interleaving of any number of processes, and no death of any of them, *)
(* puts the list of an unreviewed or rejected proposal into the todos       *)
(* (applyProposal against transitionProposal).                              *)
THEOREM OnlyReviewedWritten == Spec => []UnreviewedNeverWritten
  <1>1. IInv => UnreviewedNeverWritten
    BY DEF IInv
  <1> QED
    BY <1>1, Invariance, PTL

(* A proposal recorded as applied had its list written before               *)
(* (applyProposal's two transactions and their order).                      *)
THEOREM AppliedMeansWritten == Spec => []AppliedWereWritten
  <1>1. IInv => AppliedWereWritten
    BY DEF IInv
  <1> QED
    BY <1>1, Invariance, PTL

-----------------------------------------------------------------------------
(* The refinement of ReviewedLists: of all the steps of the processes only  *)
(* the appends change what the journal says.                                *)

LEMMA AppendReviewed ==
    ASSUME IInv, NEW c \in Procs, AppendEntry(c)
    PROVE  [Reviewed!Next]_(Reviewed!vars)
  <1> DEFINE e == Head(queue[c])
  <1>1. Replay(e)
    BY DEF AppendEntry
  <1>2. readable => LastEntry(e) \/ \E p \in Proposals : Decided(p) /\ e = TodoEntry(p)
    BY HeadFits DEF AppendEntry
  <1>3. LaneType /\ Accepted
    BY DEF IInv
  <1> HIDE DEF e
  <1>4. CASE ~readable /\ UNCHANGED <<board, written>>
    BY <1>4 DEF board, Reviewed!vars
  <1>5. CASE readable /\ ReplayDrained(e)
    BY <1>5 DEF ReplayDrained, Reviewed!vars
  <1>6. CASE readable /\ e.type = "todo_write" /\ ReplayTodoWrite(e)
    <2>1. CASE e.todos \in Proposals
      <3>1. e.todos \in accepted
        BY <1>2, <1>6, <2>1, TodosAssumption DEF LastEntry, TodoEntry, DecisionEntry, Decided
      <3> QED
        BY <1>6, <2>1, <3>1 DEF ReplayTodoWrite, Reviewed!Next, Reviewed!Write
    <2>2. CASE e.todos \notin Proposals
      <3>1. e.todos = Edited
        BY <1>2, <1>6, <2>2 DEF LastEntry, TodoEntry, DecisionEntry
      <3> QED
        BY <1>6, <2>2, <3>1 DEF ReplayTodoWrite, Reviewed!Next, Reviewed!Edit
    <2> QED
      BY <2>1, <2>2
  <1>7. CASE readable /\ e.type \in {"enqueued", "transitioned"} /\ ReplayDecision(e)
    <2>1. CASE ~Replayable(e)
      BY <1>7, <2>1 DEF ReplayDecision, Reviewed!vars
    <2>2. CASE Replayable(e)
      <3>0. e.id \in OutboxIds
        BY <1>2, <1>3, <1>7 DEF LastEntry, TodoEntry, DecisionEntry, OutboxIds, Known, LaneType
      <3>1. PICK p \in Proposals, s \in Known : e.id.proposal = p /\ e.id.status = s
        BY <3>0 DEF OutboxIds
      <3>2. /\ status' = [status EXCEPT ![p] = s]
            /\ accepted' = IF s = "accepted" THEN accepted \cup {p} ELSE accepted
            /\ UNCHANGED <<todos, written>>
        BY <1>7, <2>2, <3>1 DEF ReplayDecision, Acceptances
      <3>3. CASE e.type = "enqueued"
        <4>1. status[p] = "none" /\ s = "pending"
          BY <1>2, <1>7, <2>2, <3>1, <3>3 DEF Replayable, LastEntry, TodoEntry, DecisionEntry
        <4> QED
          BY <3>2, <4>1 DEF Reviewed!Next, Reviewed!Propose, Reviewed!Moves
      <3>4. CASE e.type = "transitioned"
        <4>1. status[p] \in Known /\ CanTransition(status[p], s)
          BY <2>2, <3>1, <3>4 DEF Replayable
        <4>2. CASE s = status[p]
          <5>1. status' = status
            BY <1>3, <3>2, <4>2 DEF LaneType
          <5>2. accepted' = accepted
            BY <1>3, <3>2, <4>2 DEF Accepted
          <5> QED
            BY <3>2, <5>1, <5>2 DEF Reviewed!vars
        <4>3. CASE s # status[p]
          <5>1. \/ status[p] = "pending" /\ s \in {"accepted", "rejected", "expired"}
                \/ status[p] = "accepted" /\ s \in {"applied", "expired"}
            BY <4>1, <4>3 DEF CanTransition, AllowedTransitions, Known
          <5>2. s = "applied" => p \in written
            BY <1>2, <1>7, <3>1 DEF LastEntry, TodoEntry, DecisionEntry
          <5> QED
            BY <3>2, <5>1, <5>2 DEF Reviewed!Next, Reviewed!Accept, Reviewed!Reject,
                                   Reviewed!Expire, Reviewed!MarkApplied, Reviewed!Moves
        <4> QED
          BY <4>2, <4>3
      <3> QED
        BY <1>7, <3>3, <3>4
    <2> QED
      BY <2>1, <2>2
  <1> QED
    BY <1>1, <1>4, <1>5, <1>6, <1>7 DEF Replay

(* Any number of processes, on boards that may be stale and dying anywhere, *)
(* together do nothing that ReviewedLists does not allow: whatever crosses, *)
(* a proposal is decided forward, written after its acceptance and called   *)
(* applied after that (mutateSessionTaskState and applyTaskJournalEntry).   *)
THEOREM ImplementsReview == Spec => ReviewedSpec
  <1>1. Init => Reviewed!Init
    BY DEF Init, Reviewed!Init
  <1>2. IInv /\ [Next]_vars => [Reviewed!Next]_(Reviewed!vars)
    <2> SUFFICES ASSUME IInv, [Next]_vars PROVE [Reviewed!Next]_(Reviewed!vars)
      OBVIOUS
    <2>1. CASE \E c \in Procs : AppendEntry(c)
      BY <2>1, AppendReviewed
    <2>2. CASE ~\E c \in Procs : AppendEntry(c)
      <3>1. UNCHANGED <<board, written>>
        BY <2>2 DEF Next, vars, WriteTodos, EnqueueProposal, TransitionProposal, ApplyProposal,
                    Queues, DrainProposalOutbox, HandOut, Die
      <3> QED
        BY <3>1 DEF board, Reviewed!vars
    <2> QED
      BY <2>1, <2>2
  <1> QED
    BY <1>1, <1>2, Invariance, PTL DEF Spec, ReviewedSpec, Reviewed!Spec

-----------------------------------------------------------------------------
(* Commands one after another: what the one in progress has queued fits the *)
(* journal it read, because nobody else appends meanwhile.                  *)

Fits(e) == e.type \in {"enqueued", "transitioned"} => Replayable(e)

Alone(c) ==
    \/ queue[c] = <<>>
    \/ \E e : Fits(e) /\ queue[c] = <<e>>
    \/ \E p \in Proposals, t \in Stamps :
          status[p] = "accepted" /\ queue[c] = ApplyEntries(p, t)

OneBusy == \A c, d \in Procs : c # d => Idle(c) \/ Idle(d)

Shapes ==
    /\ queue = [c \in Procs |-> queue[c]]
    /\ handing = [c \in Procs |-> handing[c]]

AloneInv ==
    /\ Shapes
    /\ ~overlapped => readable /\ OneBusy /\ \A c \in Procs : Alone(c)

(* A command that begins while no other is in progress.                     *)
LEMMA AloneCommand ==
    ASSUME AloneInv, NEW c \in Procs, NEW entries, NEW ids,
           Idle(c), Begins(c),
           queue' = [queue EXCEPT ![c] = entries],
           handing' = [handing EXCEPT ![c] = ids],
           UNCHANGED <<status, readable>>,
           \/ \E e : Fits(e) /\ entries = <<e>>
           \/ \E p \in Proposals, t \in Stamps :
                 status[p] = "accepted" /\ entries = ApplyEntries(p, t)
    PROVE  AloneInv'
  <1>1. Shapes'
    BY DEF AloneInv, Shapes
  <1>2. queue'[c] = entries /\ \A d \in Procs \ {c} : queue'[d] = queue[d] /\ handing'[d] = handing[d]
    BY DEF AloneInv, Shapes
  <1>3. ASSUME ~overlapped' PROVE (readable /\ OneBusy /\ \A d \in Procs : Alone(d))'
    <2>1. ~overlapped /\ \A d \in Procs \ {c} : Idle(d)
      BY <1>3 DEF Begins
    <2>2. \A d \in Procs \ {c} : Idle(d)'
      BY <1>2, <2>1 DEF Idle
    <2>3. \A d \in Procs \ {c} : Alone(d)'
      BY <2>2 DEF Alone, Idle
    <2>4. \A e : Fits(e) => Fits(e)'
      BY DEF Fits, Replayable
    <2>5. Alone(c)'
      BY <1>2, <2>4 DEF Alone
    <2> QED
      BY <2>1, <2>2, <2>3, <2>5 DEF AloneInv, OneBusy
  <1> QED
    BY <1>1, <1>3 DEF AloneInv

LEMMA AloneCommands ==
    ASSUME AloneInv, NEW c \in Procs,
           \/ WriteTodos(c)
           \/ \E p \in Proposals : EnqueueProposal(c, p)
           \/ \E p \in Proposals, s \in Known : TransitionProposal(c, p, s)
           \/ \E p \in Proposals : ApplyProposal(c, p)
           \/ \E limit \in 1..Len(outbox) : DrainProposalOutbox(c, limit)
    PROVE  AloneInv'
  <1>0. handing = [handing EXCEPT ![c] = handing[c]]
    BY DEF AloneInv, Shapes
  <1>1. CASE WriteTodos(c)
    <2>1. Fits(TodoEntry(Edited))
      BY DEF Fits, TodoEntry
    <2> QED
      BY <1>0, <1>1, <2>1, AloneCommand DEF WriteTodos, Queues, Free, board
  <1>2. ASSUME NEW p \in Proposals, EnqueueProposal(c, p) PROVE AloneInv'
    <2>1. \A t \in Stamps : Fits(DecisionEntry("enqueued", p, "pending", t))
      BY <1>2 DEF EnqueueProposal, Fits, Replayable, DecisionEntry
    <2> QED
      BY <1>0, <1>2, <2>1, AloneCommand DEF EnqueueProposal, Queues, Free, board
  <1>3. ASSUME NEW p \in Proposals, NEW s \in Known, TransitionProposal(c, p, s)
        PROVE  AloneInv'
    <2>1. \A t \in Stamps : Fits(DecisionEntry("transitioned", p, s, t))
      BY <1>3 DEF TransitionProposal, Fits, Replayable, DecisionEntry
    <2> QED
      BY <1>0, <1>3, <2>1, AloneCommand DEF TransitionProposal, Queues, Free, board
  <1>4. ASSUME NEW p \in Proposals, ApplyProposal(c, p) PROVE AloneInv'
    BY <1>0, <1>4, AloneCommand DEF ApplyProposal, Appliable, Queues, Free, board
  <1>5. ASSUME NEW limit \in 1..Len(outbox), DrainProposalOutbox(c, limit)
        PROVE  AloneInv'
    <2>1. \A ids : Fits([type |-> "drained", ids |-> ids])
      BY DEF Fits
    <2> QED
      BY <1>5, <2>1, AloneCommand DEF DrainProposalOutbox, Free, board
  <1> QED
    BY <1>1, <1>2, <1>3, <1>4, <1>5

(* A step of the command in progress that leaves it less to append.         *)
LEMMA AloneGoesOn ==
    ASSUME AloneInv, NEW c \in Procs, ~Idle(c), Shapes', UNCHANGED overlapped,
           \A d \in Procs \ {c} : queue'[d] = queue[d] /\ handing'[d] = handing[d],
           ~overlapped => readable' /\ Alone(c)'
    PROVE  AloneInv'
  <1> SUFFICES ASSUME ~overlapped PROVE (readable /\ OneBusy /\ \A d \in Procs : Alone(d))'
    BY DEF AloneInv
  <1>1. \A d \in Procs \ {c} : Idle(d)
    BY DEF AloneInv, OneBusy
  <1>2. \A d \in Procs \ {c} : Idle(d)'
    BY <1>1 DEF Idle
  <1>3. \A d \in Procs \ {c} : Alone(d)'
    BY <1>2 DEF Alone, Idle
  <1> QED
    BY <1>2, <1>3 DEF OneBusy

LEMMA AloneAppend ==
    ASSUME AloneInv, NEW c \in Procs, AppendEntry(c)
    PROVE  AloneInv'
  <1> DEFINE e == Head(queue[c])
  <1>1. /\ Replay(e) /\ queue[c] # <<>>
        /\ queue' = [queue EXCEPT ![c] = Tail(queue[c])]
        /\ UNCHANGED <<handing, overlapped>>
    BY DEF AppendEntry
  <1>2. /\ Shapes' /\ queue'[c] = Tail(queue[c])
        /\ \A d \in Procs \ {c} : queue'[d] = queue[d] /\ handing'[d] = handing[d]
    BY <1>1 DEF AloneInv, Shapes
  <1>3. ASSUME ~overlapped PROVE readable' /\ Alone(c)'
    <2>1. readable /\ Alone(c)
      BY <1>3 DEF AloneInv
    <2>2. ASSUME NEW x, Fits(x), queue[c] = <<x>> PROVE readable' /\ Alone(c)'
      <3>1. e = x /\ Tail(queue[c]) = <<>>
        BY <2>2
      <3>2. readable'
        BY <1>1, <2>1, <2>2, <3>1
           DEF Replay, ReplayTodoWrite, ReplayDecision, ReplayDrained, Fits
      <3> QED
        BY <1>2, <3>1, <3>2 DEF Alone
    <2>3. ASSUME NEW p \in Proposals, NEW t \in Stamps, status[p] = "accepted",
                 queue[c] = ApplyEntries(p, t)
          PROVE  readable' /\ Alone(c)'
      <3> DEFINE last == DecisionEntry("transitioned", p, "applied", t)
      <3>1. e = TodoEntry(p) /\ Tail(queue[c]) = <<last>>
        BY <2>3 DEF ApplyEntries
      <3>2. readable' /\ status' = status
        <4>1. e.type = "todo_write"
          BY <3>1 DEF TodoEntry
        <4>2. Replay(e)
          BY <1>1
        <4> HIDE DEF e
        <4> QED
          BY <2>1, <4>1, <4>2 DEF Replay, ReplayTodoWrite
      <3>3. Fits(last)'
        BY <2>3, <3>2
           DEF Fits, Replayable, DecisionEntry, CanTransition, AllowedTransitions, Known
      <3> QED
        BY <1>2, <3>1, <3>2, <3>3 DEF Alone
    <2> QED
      BY <1>1, <2>1, <2>2, <2>3 DEF Alone
  <1>4. ~Idle(c)
    BY <1>1 DEF Idle
  <1> QED
    BY <1>1, <1>2, <1>3, <1>4, AloneGoesOn

LEMMA AloneStep == (Init => AloneInv) /\ (AloneInv /\ [Next]_vars => AloneInv')
  <1>1. Init => AloneInv
    BY DEF Init, AloneInv, Alone, Shapes, OneBusy, Idle
  <1>2. AloneInv /\ [Next]_vars => AloneInv'
    <2> SUFFICES ASSUME AloneInv, [Next]_vars PROVE AloneInv'
      OBVIOUS
    <2>1. ASSUME NEW c \in Procs, AppendEntry(c) PROVE AloneInv'
      BY <2>1, AloneAppend
    <2>2. ASSUME NEW c \in Procs, HandOut(c) PROVE AloneInv'
      <3>1. /\ Shapes' /\ ~Idle(c) /\ UNCHANGED overlapped
            /\ \A d \in Procs \ {c} : queue'[d] = queue[d] /\ handing'[d] = handing[d]
        BY <2>2 DEF HandOut, AloneInv, Shapes, Idle
      <3>2. ~overlapped => readable' /\ Alone(c)'
        BY <2>2 DEF HandOut, AloneInv, Alone, board
      <3> QED
        BY <3>1, <3>2, AloneGoesOn
    <2>3. ASSUME NEW c \in Procs, Die(c) PROVE AloneInv'
      <3>1. /\ Shapes' /\ ~Idle(c) /\ UNCHANGED overlapped
            /\ \A d \in Procs \ {c} : queue'[d] = queue[d] /\ handing'[d] = handing[d]
        BY <2>3 DEF Die, AloneInv, Shapes
      <3>2. ~overlapped => readable' /\ Alone(c)'
        BY <2>3 DEF Die, AloneInv, Shapes, Alone, board
      <3> QED
        BY <3>1, <3>2, AloneGoesOn
    <2>4. ASSUME NEW c \in Procs,
                 \/ WriteTodos(c)
                 \/ \E p \in Proposals : EnqueueProposal(c, p)
                 \/ \E p \in Proposals, s \in Known : TransitionProposal(c, p, s)
                 \/ \E p \in Proposals : ApplyProposal(c, p)
                 \/ \E limit \in 1..Len(outbox) : DrainProposalOutbox(c, limit)
          PROVE  AloneInv'
      BY <2>4, AloneCommands
    <2>5. CASE UNCHANGED vars
      BY <2>5 DEF vars, board, AloneInv, Shapes, OneBusy, Idle, Alone, Fits, Replayable
    <2> QED
      BY <2>1, <2>2, <2>3, <2>4, <2>5 DEF Next
  <1> QED
    BY <1>1, <1>2

(* As long as commands come one after another, as the README of the         *)
(* repository asks (README.md:281), no death between two entries of a       *)
(* command leaves a journal that the next projection cannot replay,         *)
(* whichever processes the commands come from.                              *)
THEOREM AloneReadable == Spec => []JournalReadable
  <1>1. AloneInv => JournalReadable
    BY DEF AloneInv, JournalReadable
  <1> QED
    BY <1>1, AloneStep, PTL DEF Spec

-----------------------------------------------------------------------------
(* Types.                                                                   *)

LEMMA EntryTypes ==
    /\ TodoEntry(Edited) \in Entries
    /\ \A p \in Proposals : TodoEntry(p) \in Entries
    /\ \A p \in Proposals, s \in Known, t \in Stamps :
          /\ DecisionEntry("enqueued", p, s, t) \in Entries
          /\ DecisionEntry("transitioned", p, s, t) \in Entries
    /\ \A ids \in SUBSET OutboxIds : [type |-> "drained", ids |-> ids] \in Entries
  BY DEF Entries, TodoEntry, DecisionEntry, OutboxIds

LEMMA EntryParts ==
    ASSUME NEW e \in Entries
    PROVE  /\ e.type = "todo_write" => e.todos \in Proposals \cup {Edited}
           /\ e.type \in {"enqueued", "transitioned"} => e.id \in OutboxIds
           /\ e.type = "drained" => e.ids \in SUBSET OutboxIds
  BY DEF Entries

(* Draining keeps entries of the outbox, in their order (TaskBoard's        *)
(* drainProposalOutbox and its replay filter the array).                    *)
LEMMA DrainedFrom ==
    ASSUME TypeOK, NEW ids
    PROVE  /\ Drained(ids) \in Seq(OutboxIds)
           /\ \E f : From(f, Drained(ids), outbox, {i \in DOMAIN outbox : outbox[i] \notin ids})
  <1>1. outbox \in Seq(OutboxIds) /\ DOMAIN outbox = 1..Len(outbox)
    BY DEF TypeOK
  <1> DEFINE I == {i \in DOMAIN outbox : outbox[i] \notin ids}
  <1>2. I \subseteq 1..Len(outbox)
    BY <1>1
  <1> HIDE DEF I
  <1>3. Subsequence(outbox, I) \in Seq(OutboxIds) /\ \E f : From(f, Subsequence(outbox, I), outbox, I)
    BY <1>1, <1>2, SubsequenceFrom
  <1> QED
    BY <1>3 DEF Drained, I

(* A command, handing out and dying change only a process's own entries.    *)
LEMMA CommandTypes ==
    ASSUME TypeOK, NEW c \in Procs,
           \/ WriteTodos(c)
           \/ \E p \in Proposals : EnqueueProposal(c, p)
           \/ \E p \in Proposals, s \in Known : TransitionProposal(c, p, s)
           \/ \E p \in Proposals : ApplyProposal(c, p)
           \/ \E limit \in 1..Len(outbox) : DrainProposalOutbox(c, limit)
    PROVE  TypeOK'
  <1>1. ASSUME NEW entries \in Seq(Entries), Queues(c, entries) PROVE TypeOK'
    <2>1. overlapped' \in BOOLEAN
      BY <1>1 DEF Queues, Begins, TypeOK
    <2>2. queue' \in [Procs -> Seq(Entries)]
      BY <1>1 DEF Queues, TypeOK
    <2> QED
      BY <1>1, <2>1, <2>2 DEF Queues, TypeOK, board
  <1>2. CASE WriteTodos(c)
    <2>1. <<TodoEntry(Edited)>> \in Seq(Entries)
      BY EntryTypes
    <2> QED
      BY <1>1, <1>2, <2>1 DEF WriteTodos
  <1>3. ASSUME NEW p \in Proposals, EnqueueProposal(c, p) PROVE TypeOK'
    <2>1. \A t \in Stamps : <<DecisionEntry("enqueued", p, "pending", t)>> \in Seq(Entries)
      BY EntryTypes DEF Known
    <2> QED
      BY <1>1, <1>3, <2>1 DEF EnqueueProposal
  <1>4. ASSUME NEW p \in Proposals, NEW s \in Known, TransitionProposal(c, p, s)
        PROVE  TypeOK'
    <2>1. \A t \in Stamps : <<DecisionEntry("transitioned", p, s, t)>> \in Seq(Entries)
      BY EntryTypes
    <2> QED
      BY <1>1, <1>4, <2>1 DEF TransitionProposal
  <1>5. ASSUME NEW p \in Proposals, ApplyProposal(c, p) PROVE TypeOK'
    <2>1. \A t \in Stamps : ApplyEntries(p, t) \in Seq(Entries)
      BY EntryTypes DEF ApplyEntries, Known
    <2> QED
      BY <1>1, <1>5, <2>1 DEF ApplyProposal
  <1>6. ASSUME NEW limit \in 1..Len(outbox), DrainProposalOutbox(c, limit) PROVE TypeOK'
    <2> DEFINE ids == {outbox[i] : i \in 1..limit}
    <2>1. ids \in SUBSET OutboxIds
      BY DEF TypeOK
    <2>2. <<[type |-> "drained", ids |-> ids]>> \in Seq(Entries)
      BY <2>1, EntryTypes
    <2>3. /\ queue' = [queue EXCEPT ![c] = <<[type |-> "drained", ids |-> ids]>>]
          /\ handing' = [handing EXCEPT ![c] = ids]
          /\ overlapped' \in BOOLEAN
          /\ UNCHANGED <<status, todos, outbox, readable, accepted, written, delivered>>
      BY <1>6 DEF DrainProposalOutbox, Begins, board, TypeOK
    <2> HIDE DEF ids
    <2> QED
      BY <2>1, <2>2, <2>3 DEF TypeOK
  <1> QED
    BY <1>2, <1>3, <1>4, <1>5, <1>6

(* The head of a command's queue, in any state of the right types.          *)
LEMMA HeadOfQueue ==
    ASSUME TypeOK, NEW c \in Procs, queue[c] # <<>>
    PROVE  /\ Head(queue[c]) \in Entries
           /\ Tail(queue[c]) \in Seq(Entries)
           /\ 1 \in 1..Len(queue[c]) /\ Head(queue[c]) = queue[c][1]
           /\ \A k \in 1..Len(Tail(queue[c])) :
                 k + 1 \in 1..Len(queue[c]) /\ Tail(queue[c])[k] = queue[c][k + 1]
  <1> queue[c] \in Seq(Entries)
    BY DEF TypeOK
  <1> QED
    OBVIOUS

LEMMA AppendTypes ==
    ASSUME TypeOK, NEW c \in Procs, AppendEntry(c)
    PROVE  TypeOK'
  <1> DEFINE e == Head(queue[c])
  <1>1. e \in Entries /\ Tail(queue[c]) \in Seq(Entries)
    BY HeadOfQueue DEF AppendEntry
  <1>2. /\ Replay(e) /\ queue' = [queue EXCEPT ![c] = Tail(queue[c])]
        /\ UNCHANGED <<handing, delivered, overlapped>>
    BY DEF AppendEntry
  <1> HIDE DEF e
  <1>3. queue' \in [Procs -> Seq(Entries)]
    BY <1>1, <1>2 DEF TypeOK
  <1>4. /\ status' \in [Proposals -> Known \cup {"none"}]
        /\ todos' \in Todos
        /\ outbox' \in Seq(OutboxIds)
        /\ readable' \in BOOLEAN
        /\ accepted' \cup written' \subseteq Proposals
    <2>1. CASE ReplayTodoWrite(e) /\ e.type = "todo_write"
      BY <1>1, <2>1, EntryParts DEF ReplayTodoWrite, TypeOK, Todos
    <2>2. CASE ReplayDecision(e) /\ e.type \in {"enqueued", "transitioned"}
      <3>1. e.id \in OutboxIds
        BY <1>1, <2>2, EntryParts
      <3>2. e.id.proposal \in Proposals /\ e.id.status \in Known
        BY <3>1 DEF OutboxIds
      <3>3. Append(outbox, e.id) \in Seq(OutboxIds)
        BY <3>1 DEF TypeOK
      <3>4. CASE Replayable(e)
        BY <2>2, <3>2, <3>3, <3>4 DEF ReplayDecision, Acceptances, TypeOK
      <3>5. CASE ~Replayable(e)
        BY <2>2, <3>5 DEF ReplayDecision, TypeOK
      <3> QED
        BY <3>4, <3>5
    <2>3. CASE ReplayDrained(e)
      BY <2>3, DrainedFrom DEF ReplayDrained, TypeOK
    <2>4. CASE UNCHANGED <<board, written>>
      BY <2>4 DEF board, TypeOK
    <2> QED
      BY <1>2, <2>1, <2>2, <2>3, <2>4 DEF Replay
  <1> QED
    BY <1>2, <1>3, <1>4 DEF TypeOK

LEMMA TypeStep == (Init => TypeOK) /\ (TypeOK /\ [Next]_vars => TypeOK')
  <1>1. Init => TypeOK
    <2>1. <<>> \in Seq(OutboxIds) /\ <<>> \in Seq(Entries)
      OBVIOUS
    <2>2. Init => /\ status \in [Proposals -> Known \cup {"none"}]
                  /\ todos \in Todos
                  /\ queue \in [Procs -> Seq(Entries)]
                  /\ handing \in [Procs -> SUBSET OutboxIds]
      BY <2>1 DEF Init, Todos
    <2> QED
      BY <2>1, <2>2 DEF Init, TypeOK
  <1>2. TypeOK /\ [Next]_vars => TypeOK'
    <2> SUFFICES ASSUME TypeOK, [Next]_vars PROVE TypeOK'
      OBVIOUS
    <2>1. ASSUME NEW c \in Procs, AppendEntry(c) PROVE TypeOK'
      BY <2>1, AppendTypes
    <2>2. ASSUME NEW c \in Procs, HandOut(c) PROVE TypeOK'
      BY <2>2 DEF HandOut, TypeOK, board
    <2>3. ASSUME NEW c \in Procs, Die(c) PROVE TypeOK'
      BY <2>3 DEF Die, TypeOK, board
    <2>4. ASSUME NEW c \in Procs,
                 \/ WriteTodos(c)
                 \/ \E p \in Proposals : EnqueueProposal(c, p)
                 \/ \E p \in Proposals, s \in Known : TransitionProposal(c, p, s)
                 \/ \E p \in Proposals : ApplyProposal(c, p)
                 \/ \E limit \in 1..Len(outbox) : DrainProposalOutbox(c, limit)
          PROVE  TypeOK'
      BY <2>4, CommandTypes
    <2>5. CASE UNCHANGED vars
      BY <2>5 DEF vars, board, TypeOK
    <2> QED
      BY <2>1, <2>2, <2>3, <2>4, <2>5 DEF Next
  <1> QED
    BY <1>1, <1>2

(* Whatever processes interleave or die where, a projection of the journal  *)
(* finds known statuses, a list it can name and announcements of them.      *)
THEOREM TypeCorrect == Spec => []TypeOK
  BY TypeStep, PTL DEF Spec

-----------------------------------------------------------------------------
(* The outbox.  Statuses are left for good, so what was once announced of a *)
(* proposal tells where its present status can have come from.              *)

Later == [pending |-> {"accepted", "rejected", "applied", "expired"},
          accepted |-> {"applied", "expired"},
          rejected |-> {}, applied |-> {}, expired |-> {}]

\* A proposal that has had the status a can have b now.
Reaches(a, b) == a \in Known /\ b \in Known /\ (a = b \/ b \in Later[a])

Announced(id) == Reaches(id.status, status[id.proposal])

AllAnnounced == \A i \in 1..Len(outbox) : Announced(outbox[i])

InOrder ==
    \A i, j \in 1..Len(outbox) :
        i < j /\ outbox[i].proposal = outbox[j].proposal
            => Reaches(outbox[i].status, outbox[j].status)

\* Behind every entry there is one, perhaps itself, with the present status.
TruthBehind ==
    \A i \in 1..Len(outbox) : \E j \in 1..Len(outbox) :
        /\ i =< j /\ outbox[j].proposal = outbox[i].proposal
        /\ outbox[j].status = status[outbox[j].proposal]

\* A drain takes, of each proposal, announcements no newer than those it leaves.
DrainsBehind(ids) ==
    \A id \in ids :
        /\ Announced(id)
        /\ \A i \in 1..Len(outbox) :
              outbox[i].proposal = id.proposal /\ outbox[i] \notin ids
                  => Reaches(id.status, outbox[i].status)

QueuedDrains ==
    \A c \in Procs : \A k \in 1..Len(queue[c]) :
        queue[c][k].type = "drained" => DrainsBehind(queue[c][k].ids)

OutboxInv == TypeOK /\ AllAnnounced /\ InOrder /\ TruthBehind /\ QueuedDrains

LEMMA ReachesOrder ==
    /\ \A a \in Known : Reaches(a, a)
    /\ \A a, b \in Known : CanTransition(a, b) => Reaches(a, b)
    /\ \A a, b \in Known : Reaches(a, b) /\ Reaches(b, a) => a = b
    /\ \A a, b, c \in Known : Reaches(a, b) /\ Reaches(b, c) => Reaches(a, c)
  <1>1. \A a \in Known : Reaches(a, a)
    BY DEF Reaches
  <1>2. \A a, b \in Known : CanTransition(a, b) => Reaches(a, b)
    BY DEF Reaches, Later, Known, CanTransition, AllowedTransitions
  <1>3. \A a, b \in Known : Reaches(a, b) /\ Reaches(b, a) => a = b
    BY DEF Reaches, Later, Known
  <1>4. \A a, b, c \in Known : Reaches(a, b) /\ Reaches(b, c) => Reaches(a, c)
    BY DEF Reaches, Later, Known
  <1> QED
    BY <1>1, <1>2, <1>3, <1>4

LEMMA OutboxTypes ==
    ASSUME TypeOK
    PROVE  /\ Len(outbox) \in Nat /\ DOMAIN outbox = 1..Len(outbox)
           /\ \A i \in 1..Len(outbox) :
                 outbox[i].proposal \in Proposals /\ outbox[i].status \in Known
  <1> outbox \in Seq(OutboxIds)
    BY DEF TypeOK
  <1>1. \A i \in 1..Len(outbox) : outbox[i] \in OutboxIds
    OBVIOUS
  <1> QED
    BY <1>1 DEF OutboxIds

(* A step that leaves statuses and outbox alone, and drains what it may.    *)
LEMMA OutboxUntouched ==
    ASSUME OutboxInv, TypeOK', UNCHANGED <<status, outbox>>,
           \A d \in Procs : \A k \in 1..Len(queue'[d]) :
               queue'[d][k].type = "drained" =>
                  \/ \E n \in 1..Len(queue[d]) : queue'[d][k] = queue[d][n]
                  \/ DrainsBehind(queue'[d][k].ids)
    PROVE  OutboxInv'
  <1>1. (AllAnnounced /\ InOrder /\ TruthBehind)'
    BY DEF OutboxInv, AllAnnounced, Announced, InOrder, TruthBehind
  <1>2. \A ids : DrainsBehind(ids) => DrainsBehind(ids)'
    BY DEF DrainsBehind, Announced
  <1>3. QueuedDrains'
    BY <1>2 DEF OutboxInv, QueuedDrains
  <1> QED
    BY <1>1, <1>3 DEF OutboxInv

LEMMA CommandsKeepOutbox ==
    ASSUME OutboxInv, TypeOK', NEW c \in Procs,
           \/ WriteTodos(c)
           \/ \E p \in Proposals : EnqueueProposal(c, p)
           \/ \E p \in Proposals, s \in Known : TransitionProposal(c, p, s)
           \/ \E p \in Proposals : ApplyProposal(c, p)
           \/ \E limit \in 1..Len(outbox) : DrainProposalOutbox(c, limit)
    PROVE  OutboxInv'
  <1>1. ASSUME NEW entries \in Seq(Entries), Queues(c, entries),
               \A k \in 1..Len(entries) : entries[k].type # "drained"
        PROVE  OutboxInv'
    <2>1. \A d \in Procs : queue'[d] = IF d = c THEN entries ELSE queue[d]
      BY <1>1 DEF Queues, OutboxInv, TypeOK
    <2>2. UNCHANGED <<status, outbox>>
      BY <1>1 DEF Queues, board
    <2> QED
      BY <1>1, <2>1, <2>2, OutboxUntouched
  <1>2. ASSUME NEW e \in Entries, e.type # "drained", Queues(c, <<e>>) PROVE OutboxInv'
    <2>1. /\ <<e>> \in Seq(Entries) /\ Len(<<e>>) = 1 /\ <<e>>[1] = e
          /\ \A k \in 1..1 : k = 1
      OBVIOUS
    <2> QED
      BY <1>1, <1>2, <2>1
  <1>3. CASE WriteTodos(c)
    BY <1>2, <1>3, EntryTypes DEF WriteTodos, TodoEntry
  <1>4. ASSUME NEW p \in Proposals, EnqueueProposal(c, p) PROVE OutboxInv'
    <2>1. \A t \in Stamps : DecisionEntry("enqueued", p, "pending", t).type # "drained"
      BY DEF DecisionEntry
    <2> QED
      BY <1>2, <1>4, <2>1, EntryTypes DEF EnqueueProposal, Known
  <1>5. ASSUME NEW p \in Proposals, NEW s \in Known, TransitionProposal(c, p, s)
        PROVE  OutboxInv'
    <2>1. \A t \in Stamps : DecisionEntry("transitioned", p, s, t).type # "drained"
      BY DEF DecisionEntry
    <2> QED
      BY <1>2, <1>5, <2>1, EntryTypes DEF TransitionProposal
  <1>6. ASSUME NEW p \in Proposals, ApplyProposal(c, p) PROVE OutboxInv'
    <2>1. PICK t \in Stamps : Queues(c, ApplyEntries(p, t))
      BY <1>6 DEF ApplyProposal
    <2>2. /\ ApplyEntries(p, t) \in Seq(Entries)
          /\ \A k \in 1..Len(ApplyEntries(p, t)) : ApplyEntries(p, t)[k].type # "drained"
      <3> DEFINE a == TodoEntry(p)
                 b == DecisionEntry("transitioned", p, "applied", t)
      <3>1. a \in Entries /\ b \in Entries
        BY EntryTypes DEF Known
      <3>2. a.type # "drained" /\ b.type # "drained"
        BY DEF TodoEntry, DecisionEntry
      <3> HIDE DEF a, b
      <3>3. /\ <<a, b>> \in Seq(Entries)
            /\ \A k \in 1..Len(<<a, b>>) : <<a, b>>[k] = a \/ <<a, b>>[k] = b
        BY <3>1
      <3> QED
        BY <3>2, <3>3 DEF ApplyEntries, a, b
    <2> QED
      BY <1>1, <2>1, <2>2
  <1>7. ASSUME NEW limit \in 1..Len(outbox), DrainProposalOutbox(c, limit) PROVE OutboxInv'
    <2> DEFINE ids == {outbox[i] : i \in 1..limit}
    <2>1. DrainsBehind(ids)
      <3>1. ASSUME NEW id \in ids
            PROVE  /\ Announced(id)
                   /\ \A i \in 1..Len(outbox) :
                         outbox[i].proposal = id.proposal /\ outbox[i] \notin ids
                             => Reaches(id.status, outbox[i].status)
        <4>1. PICK n \in 1..limit : id = outbox[n]
          OBVIOUS
        <4>2. /\ n \in 1..Len(outbox)
              /\ \A i \in 1..Len(outbox) : outbox[i] \notin ids => n < i
          BY OutboxTypes DEF OutboxInv
        <4> QED
          BY <4>1, <4>2 DEF OutboxInv, AllAnnounced, InOrder
      <3> HIDE DEF ids
      <3> QED
        BY <3>1 DEF DrainsBehind
    <2>2. /\ queue' = [queue EXCEPT ![c] = <<[type |-> "drained", ids |-> ids]>>]
          /\ UNCHANGED <<status, outbox>>
      BY <1>7 DEF DrainProposalOutbox, board
    <2> HIDE DEF ids
    <2>3. \A d \in Procs :
            queue'[d] = IF d = c THEN <<[type |-> "drained", ids |-> ids]>> ELSE queue[d]
      BY <2>2 DEF OutboxInv, TypeOK
    <2> QED
      BY <2>1, <2>2, <2>3, OutboxUntouched
  <1> QED
    BY <1>3, <1>4, <1>5, <1>6, <1>7

(* A recorded decision announces the proposal's next status at the end.     *)
LEMMA DecisionKeepsOutbox ==
    ASSUME OutboxInv, NEW e, e.id \in OutboxIds, ReplayDecision(e),
           e.type \in {"enqueued", "transitioned"}
    PROVE  /\ (AllAnnounced /\ InOrder /\ TruthBehind)'
           /\ \A ids \in SUBSET OutboxIds : DrainsBehind(ids) => DrainsBehind(ids)'
           /\ \A id \in OutboxIds : Announced(id) => Announced(id)'
  <1> DEFINE p == e.id.proposal
             s == e.id.status
             n == Len(outbox) + 1
  <1>1. p \in Proposals /\ s \in Known /\ outbox \in Seq(OutboxIds) /\ n \in Nat
    BY DEF OutboxIds, OutboxInv, TypeOK
  <1>2. CASE ~Replayable(e)
    BY <1>2 DEF ReplayDecision, OutboxInv, AllAnnounced, InOrder, TruthBehind,
                DrainsBehind, Announced
  <1>3. CASE Replayable(e)
    <2>1. /\ \A q \in Proposals : status'[q] = IF q = p THEN s ELSE status[q]
          /\ outbox' = Append(outbox, e.id)
      BY <1>1, <1>3 DEF ReplayDecision, OutboxInv, TypeOK
    <2>2. /\ Len(outbox') = n /\ outbox'[n] = e.id
          /\ \A i \in 1..Len(outbox') : i = n \/ i \in 1..Len(outbox)
          /\ \A i \in 1..Len(outbox) : i < n /\ i \in 1..Len(outbox') /\ outbox'[i] = outbox[i]
          /\ n \in 1..Len(outbox')
      BY <1>1, <2>1
    <2> HIDE DEF n, p, s
    <2>3. ASSUME NEW a \in Known, Reaches(a, status[p]) PROVE Reaches(a, s)
      <3>1. status[p] # "none"
        BY <2>3 DEF Reaches, Known
      <3>2. status[p] \in Known /\ CanTransition(status[p], s)
        BY <1>3, <2>3, <3>1 DEF Replayable, Reaches, p, s
      <3> QED
        BY <1>1, <2>3, <3>2, ReachesOrder
    <2>4. ASSUME NEW id, Announced(id), id.proposal \in Proposals PROVE Announced(id)'
      BY <1>1, <2>1, <2>3, <2>4 DEF Announced, Reaches
    <2>5. \A i \in 1..Len(outbox) :
            outbox[i].proposal \in Proposals /\ outbox[i].status \in Known
      BY OutboxTypes DEF OutboxInv
    <2>6. \A i \in 1..Len(outbox) : outbox[i].proposal = p => Reaches(outbox[i].status, s)
      BY <2>3, <2>5 DEF OutboxInv, AllAnnounced, Announced
    <2>7. e.id.proposal = p /\ e.id.status = s /\ status'[p] = s /\ Reaches(s, s)
      BY <1>1, <2>1, ReachesOrder DEF p, s
    <2>8. AllAnnounced'
      <3>1. Announced(e.id)'
        BY <2>7 DEF Announced
      <3>2. \A i \in 1..Len(outbox) : Announced(outbox[i])'
        BY <2>1, <2>3, <2>5 DEF OutboxInv, AllAnnounced, Announced
      <3> QED
        BY <2>2, <3>1, <3>2 DEF AllAnnounced, Announced
    <2>9. InOrder'
      <3> SUFFICES ASSUME NEW i \in 1..Len(outbox'), NEW j \in 1..Len(outbox'), i < j,
                          outbox'[i].proposal = outbox'[j].proposal
                   PROVE  Reaches(outbox'[i].status, outbox'[j].status)
        BY DEF InOrder
      <3>1. i \in 1..Len(outbox)
        BY <1>1, <2>2
      <3> QED
        BY <2>2, <2>6, <2>7, <3>1 DEF OutboxInv, InOrder
    <2>10. TruthBehind'
      <3> SUFFICES ASSUME NEW i \in 1..Len(outbox')
                   PROVE  \E j \in 1..Len(outbox') :
                            /\ i =< j /\ outbox'[j].proposal = outbox'[i].proposal
                            /\ outbox'[j].status = status'[outbox'[j].proposal]
        BY DEF TruthBehind
      <3>1. i =< n /\ n =< n
        BY <1>1, <2>2
      <3>2. CASE outbox'[i].proposal = p
        BY <2>2, <2>7, <3>1, <3>2
      <3>3. CASE outbox'[i].proposal # p
        <4>1. i \in 1..Len(outbox) /\ outbox'[i] = outbox[i]
          BY <2>2, <2>7, <3>3
        <4>2. PICK j \in 1..Len(outbox) :
                /\ i =< j /\ outbox[j].proposal = outbox[i].proposal
                /\ outbox[j].status = status[outbox[j].proposal]
          BY <4>1 DEF OutboxInv, TruthBehind
        <4>3. outbox[j].status = status'[outbox[j].proposal]
          BY <2>1, <2>5, <3>3, <4>1, <4>2
        <4> QED
          BY <2>2, <4>1, <4>2, <4>3
      <3> QED
        BY <3>2, <3>3
    <2>11. ASSUME NEW ids \in SUBSET OutboxIds, DrainsBehind(ids) PROVE DrainsBehind(ids)'
      <3> SUFFICES ASSUME NEW id \in ids
                   PROVE  /\ Announced(id)'
                          /\ \A i \in 1..Len(outbox') :
                                outbox'[i].proposal = id.proposal /\ outbox'[i] \notin ids
                                    => Reaches(id.status, outbox'[i].status)
        BY DEF DrainsBehind
      <3>1. Announced(id)
        BY <2>11 DEF DrainsBehind
      <3>2. id.proposal = p => Reaches(id.status, s)
        BY <2>3, <3>1 DEF Announced, Reaches
      <3>3. Announced(id)'
        <4>1. CASE id.proposal = p
          BY <2>7, <3>2, <4>1 DEF Announced
        <4>2. CASE id.proposal # p
          <5>1. id.proposal \in Proposals
            BY DEF OutboxIds
          <5>2. status'[id.proposal] = status[id.proposal]
            BY <2>1, <4>2, <5>1
          <5> QED
            BY <3>1, <5>2 DEF Announced
        <4> QED
          BY <4>1, <4>2
      <3>4. ASSUME NEW i \in 1..Len(outbox'), outbox'[i].proposal = id.proposal,
                   outbox'[i] \notin ids
            PROVE  Reaches(id.status, outbox'[i].status)
        <4>1. CASE i = n
          BY <2>2, <2>7, <3>2, <3>4, <4>1
        <4>2. CASE i \in 1..Len(outbox)
          BY <2>2, <2>11, <3>4, <4>2 DEF DrainsBehind
        <4> QED
          BY <2>2, <4>1, <4>2
      <3> QED
        BY <3>3, <3>4
    <2> QED
      BY <2>4, <2>8, <2>9, <2>10, <2>11 DEF OutboxIds
  <1> QED
    BY <1>2, <1>3

(* A recorded drain leaves the truth where the newest announcement is: what *)
(* it took of a proposal is no newer than what it left.                     *)
LEMMA DrainKeepsOutbox ==
    ASSUME OutboxInv, NEW e, ReplayDrained(e), DrainsBehind(e.ids)
    PROVE  /\ (AllAnnounced /\ InOrder /\ TruthBehind)'
           /\ \A ids : DrainsBehind(ids) => DrainsBehind(ids)'
  <1> DEFINE I == {i \in DOMAIN outbox : outbox[i] \notin e.ids}
             new == outbox'
  <1>1. UNCHANGED status /\ new = Drained(e.ids)
    BY DEF ReplayDrained
  <1>2. PICK f : From(f, new, outbox, I)
    BY <1>1, DrainedFrom DEF OutboxInv
  <1>3. /\ Len(outbox) \in Nat /\ DOMAIN outbox = 1..Len(outbox)
        /\ \A i \in 1..Len(outbox) : outbox[i].status \in Known
    BY OutboxTypes DEF OutboxInv
  <1>4. Len(new) \in Nat
    <2>1. new \in Seq(OutboxIds)
      BY <1>1, DrainedFrom DEF OutboxInv
    <2> QED
      BY <2>1
  <1>5. \A i \in I : i \in 1..Len(outbox) /\ outbox[i] \notin e.ids
    BY <1>3
  <1>6. \A i \in 1..Len(outbox) : outbox[i] \in e.ids \/ i \in I
    BY <1>3
  <1> HIDE DEF I, new
  <1>7. \A n \in 1..Len(new) : f[n] \in I /\ new[n] = outbox[f[n]]
    BY <1>2 DEF From
  <1>8. \A m, n \in 1..Len(new) : m < n => f[m] < f[n]
    BY <1>2 DEF From
  <1>9. AllAnnounced'
    BY <1>1, <1>5, <1>7 DEF OutboxInv, AllAnnounced, Announced, new
  <1>10. InOrder'
    <2>1. \A m, n \in 1..Len(new) :
            m < n /\ new[m].proposal = new[n].proposal => Reaches(new[m].status, new[n].status)
      <3> SUFFICES ASSUME NEW m \in 1..Len(new), NEW n \in 1..Len(new), m < n,
                          new[m].proposal = new[n].proposal
                   PROVE  Reaches(new[m].status, new[n].status)
        OBVIOUS
      <3>1. /\ f[m] \in 1..Len(outbox) /\ f[n] \in 1..Len(outbox) /\ f[m] < f[n]
            /\ new[m] = outbox[f[m]] /\ new[n] = outbox[f[n]]
        BY <1>5, <1>7, <1>8
      <3> QED
        BY <3>1 DEF OutboxInv, InOrder
    <2> QED
      BY <2>1 DEF InOrder, new
  <1>11. TruthBehind'
    <2>1. ASSUME NEW n \in 1..Len(new)
          PROVE  \E m \in 1..Len(new) :
                   /\ n =< m /\ new[m].proposal = new[n].proposal
                   /\ new[m].status = status[new[m].proposal]
      <3>1. f[n] \in I /\ f[n] \in 1..Len(outbox) /\ new[n] = outbox[f[n]]
        BY <1>5, <1>7
      <3>2. PICK j \in 1..Len(outbox) :
              /\ f[n] =< j /\ outbox[j].proposal = outbox[f[n]].proposal
              /\ outbox[j].status = status[outbox[j].proposal]
        BY <3>1 DEF OutboxInv, TruthBehind
      <3>3. CASE outbox[j] \in e.ids
        <4>1. Reaches(outbox[j].status, outbox[f[n]].status)
          BY <1>5, <3>1, <3>2, <3>3 DEF DrainsBehind
        <4>2. Reaches(outbox[f[n]].status, outbox[j].status)
          <5>1. CASE f[n] = j
            BY <4>1, <5>1
          <5>2. CASE f[n] # j
            <6>1. f[n] < j
              BY <1>3, <3>1, <3>2, <5>2
            <6> QED
              BY <3>1, <3>2, <6>1 DEF OutboxInv, InOrder
          <5> QED
            BY <5>1, <5>2
        <4>3. outbox[f[n]].status = outbox[j].status
          BY <1>3, <3>1, <4>1, <4>2, ReachesOrder
        <4> QED
          BY <1>4, <3>1, <3>2, <4>3
      <3>4. CASE j \in I
        <4>1. PICK m \in 1..Len(new) : f[m] = j
          BY <1>2, <3>4 DEF From
        <4>2. new[m] = outbox[j]
          BY <1>7, <4>1
        <4>3. n =< m
          <5>1. ~(m < n)
            BY <1>3, <1>8, <3>1, <3>2, <4>1
          <5> QED
            BY <1>4, <5>1
        <4> QED
          BY <3>1, <3>2, <4>2, <4>3
      <3> QED
        BY <1>6, <3>3, <3>4
    <2> QED
      BY <1>1, <2>1 DEF TruthBehind, new
  <1>12. ASSUME NEW ids, DrainsBehind(ids) PROVE DrainsBehind(ids)'
    <2>1. \A id \in ids : Announced(id)'
      BY <1>1, <1>12 DEF DrainsBehind, Announced
    <2>2. \A id \in ids : \A n \in 1..Len(new) :
            new[n].proposal = id.proposal /\ new[n] \notin ids
                => Reaches(id.status, new[n].status)
      BY <1>5, <1>7, <1>12 DEF DrainsBehind
    <2> QED
      BY <2>1, <2>2 DEF DrainsBehind, new
  <1> QED
    BY <1>9, <1>10, <1>11, <1>12

LEMMA AppendKeepsOutbox ==
    ASSUME OutboxInv, TypeOK', NEW c \in Procs, AppendEntry(c)
    PROVE  OutboxInv'
  <1> DEFINE e == Head(queue[c])
  <1>1. /\ queue[c] # <<>> /\ Replay(e) /\ queue' = [queue EXCEPT ![c] = Tail(queue[c])]
    BY DEF AppendEntry
  <1>2. /\ e \in Entries
        /\ \E n \in 1..Len(queue[c]) : e = queue[c][n]
        /\ \A k \in 1..Len(Tail(queue[c])) :
              \E n \in 1..Len(queue[c]) : Tail(queue[c])[k] = queue[c][n]
    BY <1>1, HeadOfQueue DEF OutboxInv
  <1> HIDE DEF e
  <1>3. ASSUME NEW d \in Procs, NEW k \in 1..Len(queue'[d])
        PROVE  \E n \in 1..Len(queue[d]) : queue'[d][k] = queue[d][n]
    <2>1. queue'[d] = IF d = c THEN Tail(queue[c]) ELSE queue[d]
      BY <1>1 DEF OutboxInv, TypeOK
    <2>2. CASE d = c
      BY <1>2, <2>1, <2>2
    <2>3. CASE d # c
      BY <2>1, <2>3
    <2> QED
      BY <2>2, <2>3
  <1>4. e.type = "drained" => DrainsBehind(e.ids)
    BY <1>2 DEF OutboxInv, QueuedDrains
  <1>5. /\ (AllAnnounced /\ InOrder /\ TruthBehind)'
        /\ \A ids \in SUBSET OutboxIds : DrainsBehind(ids) => DrainsBehind(ids)'
    <2>1. CASE UNCHANGED <<status, outbox>>
      BY <2>1 DEF OutboxInv, AllAnnounced, InOrder, TruthBehind, DrainsBehind, Announced
    <2>2. CASE e.type \in {"enqueued", "transitioned"} /\ ReplayDecision(e)
      <3>1. e.id \in OutboxIds
        BY <1>2, <2>2, EntryParts
      <3> QED
        BY <2>2, <3>1, DecisionKeepsOutbox
    <2>3. CASE e.type = "drained" /\ ReplayDrained(e)
      BY <1>4, <2>3, DrainKeepsOutbox
    <2> QED
      BY <1>1, <2>1, <2>2, <2>3 DEF Replay, ReplayTodoWrite, board
  <1>6. QueuedDrains'
    <2> SUFFICES ASSUME NEW d \in Procs, NEW k \in 1..Len(queue'[d]),
                        queue'[d][k].type = "drained"
                 PROVE  DrainsBehind(queue[d][k].ids)'
      BY DEF QueuedDrains
    <2>1. queue'[d][k].ids \in SUBSET OutboxIds
      <3>1. queue'[d] \in Seq(Entries)
        BY DEF TypeOK
      <3>2. queue'[d][k] \in Entries
        BY <3>1
      <3> QED
        BY <3>2, EntryParts
    <2>2. PICK ids \in SUBSET OutboxIds : ids = queue'[d][k].ids
      BY <2>1
    <2>3. DrainsBehind(ids)
      BY <1>3, <2>2 DEF OutboxInv, QueuedDrains
    <2>4. DrainsBehind(ids)'
      BY <1>5, <2>3
    <2> QED
      BY <2>2, <2>4 DEF DrainsBehind
  <1> QED
    BY <1>5, <1>6 DEF OutboxInv

LEMMA OutboxStep == (Init => OutboxInv) /\ (OutboxInv /\ [Next]_vars => OutboxInv')
  <1>1. Init => OutboxInv
    <2>1. Init => TypeOK
      BY TypeStep
    <2>2. Init => outbox = <<>> /\ \A c \in Procs : queue[c] = <<>>
      BY DEF Init
    <2> QED
      BY <2>1, <2>2 DEF OutboxInv, AllAnnounced, InOrder, TruthBehind, QueuedDrains
  <1>2. OutboxInv /\ [Next]_vars => OutboxInv'
    <2> SUFFICES ASSUME OutboxInv, [Next]_vars PROVE OutboxInv'
      OBVIOUS
    <2>0. TypeOK'
      BY TypeStep DEF OutboxInv
    <2>1. ASSUME NEW c \in Procs, AppendEntry(c) PROVE OutboxInv'
      BY <2>0, <2>1, AppendKeepsOutbox
    <2>2. ASSUME NEW c \in Procs, HandOut(c) PROVE OutboxInv'
      BY <2>0, <2>2, OutboxUntouched DEF HandOut, board
    <2>3. ASSUME NEW c \in Procs, Die(c) PROVE OutboxInv'
      <3>1. \A d \in Procs : queue'[d] = IF d = c THEN <<>> ELSE queue[d]
        BY <2>3 DEF Die, OutboxInv, TypeOK
      <3>2. UNCHANGED <<status, outbox>>
        BY <2>3 DEF Die, board
      <3> QED
        BY <2>0, <3>1, <3>2, OutboxUntouched
    <2>4. ASSUME NEW c \in Procs,
                 \/ WriteTodos(c)
                 \/ \E p \in Proposals : EnqueueProposal(c, p)
                 \/ \E p \in Proposals, s \in Known : TransitionProposal(c, p, s)
                 \/ \E p \in Proposals : ApplyProposal(c, p)
                 \/ \E limit \in 1..Len(outbox) : DrainProposalOutbox(c, limit)
          PROVE  OutboxInv'
      BY <2>0, <2>4, CommandsKeepOutbox
    <2>5. CASE UNCHANGED vars
      BY <2>0, <2>5, OutboxUntouched DEF vars, board
    <2> QED
      BY <2>1, <2>2, <2>3, <2>4, <2>5 DEF Next
  <1> QED
    BY <1>1, <1>2

(* Of what stands in the outbox about a proposal the newest entry carries   *)
(* its present status, whatever any processes drained, decided or left half *)
(* recorded (ProposalOutbox in task-board.ts, projected from the journal).  *)
THEOREM OutboxTells == Spec => []OutboxCurrent
  <1>1. OutboxInv => OutboxCurrent
    <2> SUFFICES ASSUME OutboxInv, NEW i \in DOMAIN outbox,
                        \A j \in DOMAIN outbox :
                            j > i => outbox[j].proposal # outbox[i].proposal
                 PROVE  status[outbox[i].proposal] = outbox[i].status
      BY DEF OutboxCurrent
    <2>1. i \in 1..Len(outbox) /\ DOMAIN outbox = 1..Len(outbox)
      BY OutboxTypes DEF OutboxInv
    <2>2. PICK j \in 1..Len(outbox) :
            /\ i =< j /\ outbox[j].proposal = outbox[i].proposal
            /\ outbox[j].status = status[outbox[j].proposal]
      BY <2>1 DEF OutboxInv, TruthBehind
    <2>3. i = j
      BY <2>1, <2>2
    <2> QED
      BY <2>2, <2>3
  <1> QED
    BY <1>1, OutboxStep, PTL DEF Spec

-----------------------------------------------------------------------------
(* Delivery.  A decision announced once is never announced again, because a *)
(* status is left for good; so what a recorded drain took never comes back. *)

\* An entry that moves its proposal.
Strict(e) ==
    e.type \in {"enqueued", "transitioned"} => status[e.id.proposal] # e.id.status

\* What a process that drains is about to return, and what it has recorded.
Draining(c) ==
    \/ queue[c] = <<[type |-> "drained", ids |-> handing[c]]>>
    \/ queue[c] = <<>> /\ \A i \in 1..Len(outbox) : outbox[i] \notin handing[c]

Handed(c) ==
    /\ \A k \in 1..Len(queue[c]) :
          /\ Strict(queue[c][k])
          /\ handing[c] = {} => queue[c][k].type # "drained"
    /\ handing[c] \cap delivered = {}
    /\ \A id \in handing[c] : Announced(id)
    /\ handing[c] # {} => Draining(c)

DeliverInv ==
    ~overlapped =>
        /\ \A i \in 1..Len(outbox) : outbox[i] \notin delivered
        /\ \A id \in delivered : Announced(id)
        /\ \A c \in Procs : Handed(c)

LEMMA IdleHanded == \A c \in Procs : Idle(c) => Handed(c)
  BY DEF Idle, Handed

(* A command begins: it hands nothing yet, or hands what stands in the      *)
(* outbox, which no drain has returned.                                     *)
LEMMA CommandDelivers ==
    ASSUME DeliverInv, TypeOK, NEW c \in Procs, Begins(c),
           UNCHANGED <<status, outbox, delivered>>,
           \A d \in Procs \ {c} : queue'[d] = queue[d] /\ handing'[d] = handing[d],
           ~overlapped => Handed(c)'
    PROVE  DeliverInv'
  <1> SUFFICES ASSUME ~overlapped'
               PROVE  (/\ \A i \in 1..Len(outbox) : outbox[i] \notin delivered
                       /\ \A id \in delivered : Announced(id)
                       /\ \A d \in Procs : Handed(d))'
    BY DEF DeliverInv
  <1>1. ~overlapped /\ \A d \in Procs \ {c} : Idle(d)
    BY DEF Begins
  <1>2. \A d \in Procs \ {c} : Handed(d)'
    BY <1>1 DEF Idle, Handed
  <1> QED
    BY <1>1, <1>2 DEF DeliverInv, Announced

LEMMA CommandsDeliver ==
    ASSUME DeliverInv, OutboxInv, NEW c \in Procs,
           \/ WriteTodos(c)
           \/ \E p \in Proposals : EnqueueProposal(c, p)
           \/ \E p \in Proposals, s \in Known : TransitionProposal(c, p, s)
           \/ \E p \in Proposals : ApplyProposal(c, p)
           \/ \E limit \in 1..Len(outbox) : DrainProposalOutbox(c, limit)
    PROVE  DeliverInv'
  <1>0. TypeOK
    BY DEF OutboxInv
  <1>1. ASSUME NEW entries \in Seq(Entries), Queues(c, entries),
               \A k \in 1..Len(entries) : entries[k].type # "drained" /\ Strict(entries[k])
        PROVE  DeliverInv'
    <2>1. \A d \in Procs : queue'[d] = IF d = c THEN entries ELSE queue[d]
      BY <1>0, <1>1 DEF Queues, TypeOK
    <2>2. /\ UNCHANGED <<status, outbox, delivered, handing>> /\ Begins(c)
          /\ handing[c] = {}
      BY <1>1 DEF Queues, Free, Idle, board
    <2>3. Handed(c)'
      BY <1>1, <2>1, <2>2 DEF Handed, Strict
    <2> QED
      BY <1>0, <2>1, <2>2, <2>3, CommandDelivers
  <1>2. ASSUME NEW e \in Entries, e.type # "drained", Strict(e), Queues(c, <<e>>)
        PROVE  DeliverInv'
    <2>1. /\ <<e>> \in Seq(Entries) /\ Len(<<e>>) = 1 /\ <<e>>[1] = e
          /\ \A k \in 1..1 : k = 1
      OBVIOUS
    <2> QED
      BY <1>1, <1>2, <2>1
  <1>3. CASE WriteTodos(c)
    BY <1>2, <1>3, EntryTypes DEF WriteTodos, TodoEntry, Strict
  <1>4. ASSUME NEW p \in Proposals, EnqueueProposal(c, p) PROVE DeliverInv'
    <2>1. \A t \in Stamps : /\ DecisionEntry("enqueued", p, "pending", t).type # "drained"
                            /\ Strict(DecisionEntry("enqueued", p, "pending", t))
      BY <1>4 DEF DecisionEntry, Strict, EnqueueProposal
    <2> QED
      BY <1>2, <1>4, <2>1, EntryTypes DEF EnqueueProposal, Known
  <1>5. ASSUME NEW p \in Proposals, NEW s \in Known, TransitionProposal(c, p, s)
        PROVE  DeliverInv'
    <2>1. \A t \in Stamps : /\ DecisionEntry("transitioned", p, s, t).type # "drained"
                            /\ Strict(DecisionEntry("transitioned", p, s, t))
      BY <1>5 DEF DecisionEntry, Strict, TransitionProposal
    <2> QED
      BY <1>2, <1>5, <2>1, EntryTypes DEF TransitionProposal
  <1>6. ASSUME NEW p \in Proposals, ApplyProposal(c, p) PROVE DeliverInv'
    <2>1. PICK t \in Stamps : Queues(c, ApplyEntries(p, t))
      BY <1>6 DEF ApplyProposal
    <2> DEFINE a == TodoEntry(p)
               b == DecisionEntry("transitioned", p, "applied", t)
    <2>2. a \in Entries /\ b \in Entries
      BY EntryTypes DEF Known
    <2>3. /\ a.type # "drained" /\ b.type # "drained"
          /\ Strict(a) /\ Strict(b)
      BY <1>6 DEF TodoEntry, DecisionEntry, Strict, ApplyProposal, Appliable
    <2>4. Queues(c, <<a, b>>)
      BY <2>1 DEF ApplyEntries
    <2> HIDE DEF a, b
    <2>5. /\ <<a, b>> \in Seq(Entries)
          /\ \A k \in 1..Len(<<a, b>>) : <<a, b>>[k] = a \/ <<a, b>>[k] = b
      BY <2>2
    <2> QED
      BY <1>1, <2>3, <2>4, <2>5
  <1>7. ASSUME NEW limit \in 1..Len(outbox), DrainProposalOutbox(c, limit)
        PROVE  DeliverInv'
    <2> DEFINE ids == {outbox[i] : i \in 1..limit}
               entry == [type |-> "drained", ids |-> ids]
    <2>1. \A id \in ids : \E i \in 1..Len(outbox) : id = outbox[i]
      BY OutboxTypes, <1>0
    <2>2. /\ queue' = [queue EXCEPT ![c] = <<entry>>]
          /\ handing' = [handing EXCEPT ![c] = ids]
          /\ Begins(c) /\ UNCHANGED <<status, outbox, delivered>>
      BY <1>7 DEF DrainProposalOutbox, board
    <2>3. entry.type = "drained" /\ entry.ids = ids
      OBVIOUS
    <2>4. ids # {}
      BY OutboxTypes, <1>0
    <2> HIDE DEF ids
    <2>5. /\ \A d \in Procs \ {c} : queue'[d] = queue[d] /\ handing'[d] = handing[d]
          /\ queue'[c] = <<entry>> /\ handing'[c] = ids
      BY <1>0, <2>2 DEF TypeOK
    <2>6. ASSUME ~overlapped PROVE Handed(c)'
      <3>1. \A id \in ids : Announced(id) /\ id \notin delivered
        BY <2>1, <2>6 DEF OutboxInv, AllAnnounced, DeliverInv
      <3>2. \A id \in handing'[c] : Announced(id)'
        BY <2>2, <2>5, <3>1 DEF Announced
      <3>3. \A k \in 1..Len(queue'[c]) : queue'[c][k] = entry
        BY <2>5
      <3>4. \A k \in 1..Len(queue'[c]) : Strict(queue[c][k])'
        BY <2>3, <3>3 DEF Strict
      <3>5. Draining(c)'
        BY <2>5 DEF Draining
      <3> QED
        BY <2>2, <2>4, <2>5, <3>1, <3>2, <3>4, <3>5 DEF Handed
    <2> QED
      BY <1>0, <2>2, <2>5, <2>6, CommandDelivers
  <1> QED
    BY <1>3, <1>4, <1>5, <1>6, <1>7

(* While one command is in progress it alone has something to append or to  *)
(* hand out.                                                                *)
LEMMA OneDelivers ==
    ASSUME DeliverInv, AloneInv, NEW c \in Procs, ~Idle(c), UNCHANGED overlapped,
           \A d \in Procs \ {c} : queue'[d] = queue[d] /\ handing'[d] = handing[d],
           ~overlapped => (/\ \A i \in 1..Len(outbox) : outbox[i] \notin delivered
                           /\ \A id \in delivered : Announced(id)
                           /\ Handed(c))'
    PROVE  DeliverInv'
  <1> SUFFICES ASSUME ~overlapped PROVE \A d \in Procs \ {c} : Handed(d)'
    BY DEF DeliverInv
  <1>1. \A d \in Procs \ {c} : Idle(d)
    BY DEF AloneInv, OneBusy
  <1> QED
    BY <1>1 DEF Idle, Handed

LEMMA AppendDelivers ==
    ASSUME DeliverInv, AloneInv, OutboxInv, NEW c \in Procs, AppendEntry(c)
    PROVE  DeliverInv'
  <1> DEFINE e == Head(queue[c])
  <1>1. /\ queue[c] # <<>> /\ Replay(e) /\ queue' = [queue EXCEPT ![c] = Tail(queue[c])]
        /\ UNCHANGED <<handing, delivered, overlapped>>
    BY DEF AppendEntry
  <1>2. /\ e \in Entries
        /\ 1 \in 1..Len(queue[c]) /\ e = queue[c][1]
        /\ \A k \in 1..Len(Tail(queue[c])) :
              k + 1 \in 1..Len(queue[c]) /\ Tail(queue[c])[k] = queue[c][k + 1]
    BY <1>1, HeadOfQueue DEF OutboxInv
  <1>3. /\ \A d \in Procs \ {c} : queue'[d] = queue[d] /\ handing'[d] = handing[d]
        /\ queue'[c] = Tail(queue[c]) /\ handing'[c] = handing[c]
    BY <1>1 DEF OutboxInv, TypeOK
  <1>4. ~Idle(c)
    BY <1>1 DEF Idle
  <1>5. /\ TypeOK /\ delivered \subseteq OutboxIds /\ handing[c] \subseteq OutboxIds
        /\ status \in [Proposals -> Known \cup {"none"}]
    BY DEF OutboxInv, TypeOK
  <1>6. ASSUME ~overlapped
        PROVE  (/\ \A i \in 1..Len(outbox) : outbox[i] \notin delivered
                /\ \A id \in delivered : Announced(id)
                /\ Handed(c))'
    <2>1. /\ readable /\ Alone(c) /\ Handed(c)
          /\ \A i \in 1..Len(outbox) : outbox[i] \notin delivered
          /\ \A id \in delivered : Announced(id)
      BY <1>6 DEF DeliverInv, AloneInv
    <2>2. CASE e.type = "drained"
      <3>1. handing[c] # {} /\ queue[c] = <<[type |-> "drained", ids |-> handing[c]]>>
        BY <1>1, <1>2, <2>1, <2>2 DEF Handed, Draining
      <3>2. e.ids = handing[c] /\ Tail(queue[c]) = <<>>
        BY <3>1
      <3> HIDE DEF e
      <3>3. outbox' = Drained(handing[c]) /\ UNCHANGED status
        BY <1>1, <2>1, <2>2, <3>2 DEF Replay, ReplayDrained
      <3>4. \A n \in 1..Len(outbox') :
              \E i \in 1..Len(outbox) : outbox'[n] = outbox[i] /\ outbox[i] \notin handing[c]
        <4> DEFINE I == {i \in DOMAIN outbox : outbox[i] \notin handing[c]}
        <4>1. PICK f : From(f, outbox', outbox, I)
          BY <1>5, <3>3, DrainedFrom
        <4>2. \A i \in I : i \in 1..Len(outbox) /\ outbox[i] \notin handing[c]
          BY <1>5, OutboxTypes
        <4> HIDE DEF I
        <4> QED
          BY <4>1, <4>2 DEF From
      <3>5. queue'[c] = <<>>
        BY <1>3, <3>2
      <3>6. (\A id \in delivered : Announced(id))' /\ \A id \in handing'[c] : Announced(id)'
        BY <1>1, <1>3, <2>1, <3>3 DEF Announced, Handed
      <3>7. Draining(c)'
        BY <1>3, <3>4, <3>5 DEF Draining
      <3>8. Handed(c)'
        BY <1>1, <1>3, <2>1, <3>5, <3>6, <3>7 DEF Handed
      <3> QED
        BY <1>1, <2>1, <3>4, <3>6, <3>8
    <2>3. ASSUME e.type # "drained" PROVE handing[c] = {}
      <3> SUFFICES ASSUME handing[c] # {} PROVE FALSE
        OBVIOUS
      <3>1. queue[c] = <<[type |-> "drained", ids |-> handing[c]]>>
        BY <1>1, <2>1 DEF Handed, Draining
      <3> QED
        BY <2>3, <3>1
    <2>4. CASE e.type = "todo_write"
      <3> HIDE DEF e
      <3>1. UNCHANGED <<status, outbox>>
        BY <1>1, <2>1, <2>4 DEF Replay, ReplayTodoWrite
      <3>2. \A k \in 1..Len(queue'[c]) :
              Strict(queue[c][k])' /\ queue'[c][k].type # "drained"
        BY <1>2, <1>3, <2>1, <2>3, <2>4, <3>1 DEF Handed, Strict
      <3> QED
        BY <1>1, <1>3, <2>1, <2>3, <2>4, <3>1, <3>2 DEF Handed, Announced
    <2>5. CASE e.type \in {"enqueued", "transitioned"}
      <3>1. ReplayDecision(e) /\ e.id \in OutboxIds /\ Strict(e)
        BY <1>1, <1>2, <2>1, <2>5, EntryParts DEF Replay, Handed
      <3>2. Tail(queue[c]) = <<>> /\ Replayable(e)
        <4>1. ASSUME NEW x, Fits(x), queue[c] = <<x>>
              PROVE  Tail(queue[c]) = <<>> /\ Replayable(e)
          BY <2>5, <4>1 DEF Fits
        <4>2. ASSUME NEW p \in Proposals, NEW t \in Stamps, queue[c] = ApplyEntries(p, t)
              PROVE  FALSE
          BY <2>5, <4>2 DEF ApplyEntries, TodoEntry
        <4> QED
          BY <1>1, <2>1, <4>1, <4>2 DEF Alone
      <3> HIDE DEF e
      <3>3. \A id \in OutboxIds : Announced(id) => Announced(id)'
        BY <2>5, <3>1, DecisionKeepsOutbox
      <3>4. e.id \notin delivered
        <4> SUFFICES ASSUME Announced(e.id) PROVE FALSE
          BY <2>1
        <4>1. /\ e.id.proposal \in Proposals /\ e.id.status \in Known
              /\ status[e.id.proposal] \in Known
              /\ Reaches(e.id.status, status[e.id.proposal])
          BY <3>1 DEF OutboxIds, Announced, Reaches
        <4>2. CanTransition(status[e.id.proposal], e.id.status)
          BY <3>2, <4>1 DEF Replayable, Known
        <4> QED
          BY <2>5, <3>1, <4>1, <4>2, ReachesOrder DEF Strict
      <3>5. outbox' = Append(outbox, e.id) /\ outbox \in Seq(OutboxIds)
        BY <1>5, <3>1, <3>2 DEF ReplayDecision, TypeOK
      <3>6. \A i \in 1..Len(outbox') : outbox'[i] \notin delivered
        <4>1. \A i \in 1..Len(outbox') :
                outbox'[i] = e.id \/ (i \in 1..Len(outbox) /\ outbox'[i] = outbox[i])
          BY <3>5
        <4> QED
          BY <2>1, <3>4, <4>1
      <3>7. queue'[c] = <<>> /\ handing'[c] = {}
        BY <1>3, <2>3, <2>5, <3>2
      <3>8. Handed(c)'
        BY <3>7 DEF Handed
      <3> QED
        BY <1>1, <1>5, <2>1, <3>3, <3>6, <3>8
    <2> QED
      BY <1>2, <2>2, <2>4, <2>5 DEF Entries
  <1> QED
    BY <1>1, <1>3, <1>4, <1>6, OneDelivers

(* Commands one after another never return an announcement twice, whichever *)
(* drain died before, between or after its two effects, the recorded entry  *)
(* and the returned value (drainProposalOutbox).                            *)
THEOREM DeliveredAtMostOnce == Spec => []DeliveredOnce
  <1>1. Init => DeliverInv
    BY DEF Init, DeliverInv, Handed
  <1>2. DeliverInv /\ AloneInv /\ OutboxInv /\ [Next]_vars => DeliverInv'
    <2> SUFFICES ASSUME DeliverInv, AloneInv, OutboxInv, [Next]_vars PROVE DeliverInv'
      OBVIOUS
    <2>0. TypeOK
      BY DEF OutboxInv
    <2>1. ASSUME NEW c \in Procs, AppendEntry(c) PROVE DeliverInv'
      BY <2>1, AppendDelivers
    <2>2. ASSUME NEW c \in Procs, HandOut(c) PROVE DeliverInv'
      <3>1. /\ queue[c] = <<>> /\ handing[c] # {}
            /\ delivered' = delivered \cup handing[c]
            /\ UNCHANGED <<status, outbox, queue, overlapped>>
            /\ \A d \in Procs \ {c} : handing'[d] = handing[d]
            /\ handing'[c] = {}
        BY <2>0, <2>2 DEF HandOut, board, TypeOK
      <3>2. ~Idle(c)
        BY <3>1 DEF Idle
      <3>3. Handed(c)'
        BY <3>1 DEF Handed
      <3>4. ASSUME ~overlapped
            PROVE  (/\ \A i \in 1..Len(outbox) : outbox[i] \notin delivered
                    /\ \A id \in delivered : Announced(id))'
        <4>1. /\ Handed(c)
              /\ \A i \in 1..Len(outbox) : outbox[i] \notin delivered
              /\ \A id \in delivered : Announced(id)
          BY <3>4 DEF DeliverInv
        <4>2. Draining(c) /\ \A id \in handing[c] : Announced(id)
          BY <3>1, <4>1 DEF Handed
        <4>3. \A i \in 1..Len(outbox) : outbox[i] \notin handing[c]
          BY <3>1, <4>2 DEF Draining
        <4>4. \A id : Announced(id) => Announced(id)'
          BY <3>1 DEF Announced
        <4> QED
          BY <3>1, <4>1, <4>2, <4>3, <4>4
      <3> QED
        BY <3>1, <3>2, <3>3, <3>4, OneDelivers
    <2>3. ASSUME NEW c \in Procs, Die(c) PROVE DeliverInv'
      <3>1. /\ ~Idle(c) /\ UNCHANGED <<status, outbox, delivered, overlapped>>
            /\ \A d \in Procs \ {c} : queue'[d] = queue[d] /\ handing'[d] = handing[d]
            /\ queue'[c] = <<>> /\ handing'[c] = {}
        BY <2>0, <2>3 DEF Die, board, TypeOK
      <3>2. Handed(c)'
        BY <3>1 DEF Handed
      <3> QED
        BY <3>1, <3>2, OneDelivers DEF DeliverInv, Announced
    <2>4. ASSUME NEW c \in Procs,
                 \/ WriteTodos(c)
                 \/ \E p \in Proposals : EnqueueProposal(c, p)
                 \/ \E p \in Proposals, s \in Known : TransitionProposal(c, p, s)
                 \/ \E p \in Proposals : ApplyProposal(c, p)
                 \/ \E limit \in 1..Len(outbox) : DrainProposalOutbox(c, limit)
          PROVE  DeliverInv'
      BY <2>4, CommandsDeliver
    <2>5. CASE UNCHANGED vars
      BY <2>5 DEF vars, board, DeliverInv, Handed, Draining, Strict, Announced
    <2> QED
      BY <2>1, <2>2, <2>3, <2>4, <2>5 DEF Next
  <1>3. DeliverInv => DeliveredOnce
    BY DEF DeliverInv, Handed, DeliveredOnce
  <1> QED
    BY <1>1, <1>2, <1>3, AloneStep, OutboxStep, PTL DEF Spec
=============================================================================
