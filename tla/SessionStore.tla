---------------------------- MODULE SessionStore ----------------------------
(***************************************************************************)
(* One session of packages/sessions: its row, journal and checkpoints in   *)
(* the SQLite file that several processes (CLI, gateway, worker-jobs) open *)
(* together.                                                               *)
(*                                                                         *)
(* A SessionStore call is synchronous inside its process, but it reads the *)
(* session row with lifecycle.require/requireActive BEFORE the             *)
(* `BEGIN IMMEDIATE` transaction that does the work, so a call is two      *)
(* steps here: Begin* keeps the row the process read, and the second step  *)
(* is the transaction, which may find another row there.  A process may    *)
(* crash between the two.                                                  *)
(*                                                                         *)
(* The persisted state is abstracted to a register: a "write" row stands   *)
(* for an event that the caller's reducer folds into the state             *)
(* (tasks.todo_write), a "step" row for one that it ignores, and the state *)
(* is the seq of the write last applied, 0 for the initial state.          *)
(***************************************************************************)
EXTENDS Integers, FiniteSets

CONSTANTS
    Clients,    \* processes that have the database open
    Turns,      \* turn ids
    NoTurn,     \* "no turn id" (NULL)
    Calls,      \* the calls the processes make, a subset of Writes \cup Closings
    MaxSeq,     \* bound: journal rows of the session
    MaxId       \* bound: checkpoints ever created

ASSUME BoundsAssumption == MaxSeq \in Nat /\ MaxId \in Nat
ASSUME NoTurnAssumption == NoTurn \notin Turns

VARIABLES
    session,      \* the sessions row: status, and whether metadata holds runtime.latestTurn
    journal,      \* the journal_entries rows
    checkpoints,  \* the checkpoints rows
    lastId,       \* the AUTOINCREMENT counter of checkpoint_id
    client        \* per process: the call in progress and what it has read

vars == <<session, journal, checkpoints, lastId, client>>

MaybeTurn == Turns \cup {NoTurn}
Statuses == {"absent", "active", "archived"}
SessionRow == [status : Statuses, observed : BOOLEAN]

\* The state value of a process that has not recovered the session yet.
NotLoaded == -1
State == 0..MaxSeq

\* `target` is the checkpoint id a control.rewind row names, 0 in other rows.
JournalRow == [seq : 1..MaxSeq, kind : {"write", "step", "rewind"},
               turn : MaybeTurn, target : 0..MaxId]

\* `scope` is metadata.scope ("general" when absent); `turn` is its turn hint.
Checkpoint == [id : 1..MaxId, uptoSeq : 0..MaxSeq, state : State,
               scope : {"general", "step", "rewind"}, turn : MaybeTurn]

Writes == {"append", "checkpoint", "rewind", "metadata"}
Closings == {"archive", "delete"}

ClientRecord == [op : Writes \cup Closings \cup {"idle", "recover"},
                 row : SessionRow,             \* the session row read by Begin*
                 base : [state : State, uptoSeq : 0..MaxSeq],
                 view : State \cup {NotLoaded}, \* the caller's in-memory state
                 seen : 0..MaxSeq]             \* the last seq the caller knows of

AbsentRow == [status |-> "absent", observed |-> FALSE]
NoBase == [state |-> 0, uptoSeq |-> 0]
IdleClient == [op |-> "idle", row |-> AbsentRow, base |-> NoBase,
               view |-> NotLoaded, seen |-> 0]

-----------------------------------------------------------------------------
(* What the queries of storage.ts and the replay of recovery.ts return.     *)

LatestSeq(rows) ==
    IF rows = {} THEN 0
    ELSE CHOOSE n \in {r.seq : r \in rows} : \A r \in rows : r.seq <= n

\* Mutant: number rows by how many there are, not counting control rows.
NextSeqByCount(rows) == Cardinality({r \in rows : r.kind # "rewind"}) + 1

NextSeq(rows) == LatestSeq(rows) + 1

\* ORDER BY upto_seq DESC, checkpoint_id DESC
Newer(c, d) == c.uptoSeq > d.uptoSeq \/ (c.uptoSeq = d.uptoSeq /\ c.id > d.id)

LatestCheckpoint(cps) ==
    CHOOSE c \in cps : \A d \in cps \ {c} : Newer(c, d)

RecoveryBase(cps) ==
    IF cps = {} THEN NoBase
    ELSE LET c == LatestCheckpoint(cps)
         IN  [state |-> c.state, uptoSeq |-> c.uptoSeq]

\* Mutant: add the event to the state it replaces.
ReplayAdding(base, rows) ==
    LET after == {r \in rows : r.kind = "write" /\ r.seq > base.uptoSeq}
    IN  IF after = {} THEN base.state ELSE base.state + LatestSeq(after)

\* Fold the rows after the base's uptoSeq into its state: the last write wins.
Replay(base, rows) ==
    LET after == {r \in rows : r.kind = "write" /\ r.seq > base.uptoSeq}
    IN  IF after = {} THEN base.state ELSE LatestSeq(after)

RecoveredState == Replay(RecoveryBase(checkpoints), journal)

\* Mutant: the rows after the checkpoint that is the latest by now.
ReplayPastNewest(base) ==
    Replay([base EXCEPT !.uptoSeq = RecoveryBase(checkpoints).uptoSeq], journal)

\* The second statement of recover: the rows after the checkpoint the first one read.
ReplayFrom(base) == Replay(base, journal)

\* A step or rewind checkpoint decides the latest turn; a general one does not.
HasTurnHint(c) == c.scope # "general"

LatestTurnId ==
    IF checkpoints # {} /\ HasTurnHint(LatestCheckpoint(checkpoints))
    THEN LatestCheckpoint(checkpoints).turn
    ELSE LET ofTurn == {r \in journal : r.turn # NoTurn}
         IN  IF ofTurn = {} THEN NoTurn
             ELSE (CHOOSE r \in ofTurn : r.seq = LatestSeq(ofTurn)).turn

-----------------------------------------------------------------------------
(* The statements of a transaction.                                         *)

\* The foreign key of both tables: rows only under an existing session.
ForeignKeyHolds == session.status # "absent"

NewRow(kind, turn, target) ==
    [seq |-> NextSeq(journal), kind |-> kind, turn |-> turn, target |-> target]

\* Mutant: without the uptoSeq check.
CheckpointUnchecked(rows, upto) == \A c \in checkpoints : c.uptoSeq # upto

\* CheckpointAllowed(rows, upto): what checkpoints.create and the UNIQUE index accept.
CheckpointAllowed(rows, upto) ==
    /\ upto <= LatestSeq(rows)
    /\ \A c \in checkpoints : c.uptoSeq # upto

NewCheckpoint(upto, state, scope, turn) ==
    [id |-> lastId + 1, uptoSeq |-> upto, state |-> state,
     scope |-> scope, turn |-> turn]

\* Mutants: the checkpoint keeps the target's uptoSeq; it holds the current state.
RewindInPlace(target, upto) ==
    NewCheckpoint(target.uptoSeq, target.state, target.scope, target.turn)

RewindToCurrent(target, upto) ==
    NewCheckpoint(upto, RecoveredState, "rewind", NoTurn)

\* buildRewindCheckpointMetadata: a step checkpoint keeps its metadata,
\* any other becomes scope "rewind" with the hint it had.
RewindCheckpoint(target, upto) ==
    NewCheckpoint(upto, target.state,
                  IF target.scope = "step" THEN "step" ELSE "rewind",
                  IF HasTurnHint(target) THEN target.turn ELSE NoTurn)

\* clearLatestTurnObservationMetadata, applied to the row the process read.
ClearObservation(row) == [session EXCEPT !.observed = @ /\ ~row.observed]

Finish(c) == client' = [client EXCEPT ![c] = [@ EXCEPT !.op = "idle", !.row = AbsentRow]]

-----------------------------------------------------------------------------
Init ==
    /\ session = AbsentRow
    /\ journal = {}
    /\ checkpoints = {}
    /\ lastId = 0
    /\ client = [c \in Clients |-> IdleClient]

\* createSession: the primary key refuses a second row.
Create(c) ==
    /\ client[c].op = "idle"
    /\ session.status = "absent"
    /\ session' = [status |-> "active", observed |-> FALSE]
    /\ client' = [client EXCEPT ![c] = IdleClient]
    /\ UNCHANGED <<journal, checkpoints, lastId>>

\* requireActive, outside the transaction.
BeginWrite(c, op) ==
    /\ client[c].op = "idle"
    /\ op \in Writes \cap Calls
    /\ session.status = "active"
    /\ client' = [client EXCEPT ![c] = [@ EXCEPT !.op = op, !.row = session]]
    /\ UNCHANGED <<session, journal, checkpoints, lastId>>

\* require, which also accepts an archived session.
BeginClose(c, op) ==
    /\ client[c].op = "idle"
    /\ op \in Closings \cap Calls
    /\ session.status # "absent"
    /\ client' = [client EXCEPT ![c] = [@ EXCEPT !.op = op, !.row = session]]
    /\ UNCHANGED <<session, journal, checkpoints, lastId>>

\* appendJournal, appendStepJournal, appendStreamEvent, appendAuditEvent,
\* createHandoffSummary: one row at MAX(seq) + 1.
Append(c, kind, turn) ==
    /\ client[c].op = "append"
    /\ ForeignKeyHolds
    /\ NextSeq(journal) <= MaxSeq
    /\ LET row == NewRow(kind, turn, 0)
       IN  /\ journal' = journal \cup {row}
           /\ client' = [client EXCEPT ![c] = [@ EXCEPT
                !.op = "idle",
                !.row = AbsentRow,
                !.seen = row.seq,
                !.view = IF kind = "write" /\ client[c].view # NotLoaded
                         THEN row.seq ELSE client[c].view]]
    /\ UNCHANGED <<session, checkpoints, lastId>>

\* createCheckpoint and createStepCheckpoint: the caller's state at the latest
\* seq, or at an explicit uptoSeq the caller remembers.
CreateCheckpoint(c, explicit, turn) ==
    /\ client[c].op = "checkpoint"
    /\ client[c].view # NotLoaded
    /\ ForeignKeyHolds
    /\ lastId < MaxId
    /\ LET upto == IF explicit THEN client[c].seen ELSE LatestSeq(journal)
       IN  /\ CheckpointAllowed(journal, upto)
           /\ checkpoints' = checkpoints \cup
                {NewCheckpoint(upto, client[c].view,
                               IF turn = NoTurn THEN "general" ELSE "step", turn)}
    /\ lastId' = lastId + 1
    /\ Finish(c)
    /\ UNCHANGED <<session, journal>>

\* rewind: a control.rewind row, then a checkpoint with the target's state at
\* the latest seq, then the observation cleared if the row read outside the
\* transaction had one.  The caller recovers again before it goes on.
Rewind(c, target) ==
    /\ client[c].op = "rewind"
    /\ Cardinality(checkpoints) >= 2
    /\ target \in checkpoints \ {LatestCheckpoint(checkpoints)}
    /\ NextSeq(journal) <= MaxSeq
    /\ lastId < MaxId
    /\ LET row == NewRow("rewind", NoTurn, target.id)
           rows == journal \cup {row}
           upto == LatestSeq(rows)
       IN  /\ journal' = rows
           /\ CheckpointAllowed(rows, upto)
           /\ checkpoints' = checkpoints \cup {RewindCheckpoint(target, upto)}
           /\ client' = [client EXCEPT ![c] = [@ EXCEPT
                !.op = "idle", !.row = AbsentRow, !.seen = row.seq, !.view = NotLoaded]]
    /\ lastId' = lastId + 1
    /\ session' = ClearObservation(client[c].row)

\* updateMetadata with the latest-turn observation: one autocommit UPDATE that
\* touches no row when the session is gone.
UpdateMetadata(c) ==
    /\ client[c].op = "metadata"
    /\ session' = IF ForeignKeyHolds THEN [session EXCEPT !.observed = TRUE] ELSE session
    /\ Finish(c)
    /\ UNCHANGED <<journal, checkpoints, lastId>>

\* archiveSession: a row read as archived is returned as it was read.
Archive(c) ==
    /\ client[c].op = "archive"
    /\ client[c].row.status = "archived" \/ ForeignKeyHolds
    /\ session' = IF client[c].row.status = "archived" THEN session
                  ELSE [session EXCEPT !.status = "archived"]
    /\ Finish(c)
    /\ UNCHANGED <<journal, checkpoints, lastId>>

\* deleteSession: DELETE with ON DELETE CASCADE; ids are never used again.
Delete(c) ==
    /\ client[c].op = "delete"
    /\ ForeignKeyHolds
    /\ session' = AbsentRow
    /\ journal' = {}
    /\ checkpoints' = {}
    /\ client' = [client EXCEPT ![c] = IdleClient]
    /\ UNCHANGED lastId

\* The transaction throws and is rolled back: the session is gone, the UNIQUE
\* index or the uptoSeq check refuses the checkpoint, there is no earlier
\* checkpoint to rewind to or the requested one is missing or already current.
Refused(c) ==
    /\ \/ /\ client[c].op \in (Writes \cup Closings) \ {"metadata"}
          /\ ~ForeignKeyHolds
       \/ /\ client[c].op = "checkpoint"
          /\ \/ client[c].view = NotLoaded
             \/ ~CheckpointAllowed(journal, LatestSeq(journal))
             \/ ~CheckpointAllowed(journal, client[c].seen)
       \/ client[c].op = "rewind"
    /\ Finish(c)
    /\ UNCHANGED <<session, journal, checkpoints, lastId>>

\* recover reads the latest checkpoint and then, in another statement and no
\* transaction, the rows after it.
BeginRecover(c) ==
    /\ client[c].op = "idle"
    /\ session.status # "absent"
    /\ client' = [client EXCEPT ![c] = [@ EXCEPT
         !.op = "recover", !.row = session, !.base = RecoveryBase(checkpoints)]]
    /\ UNCHANGED <<session, journal, checkpoints, lastId>>

FinishRecover(c) ==
    /\ client[c].op = "recover"
    /\ client' = [client EXCEPT ![c] = [@ EXCEPT
         !.op = "idle",
         !.row = AbsentRow,
         !.base = NoBase,
         !.view = ReplayFrom(client[c].base),
         !.seen = IF LatestSeq(journal) > client[c].base.uptoSeq
                  THEN LatestSeq(journal) ELSE client[c].base.uptoSeq]]
    /\ UNCHANGED <<session, journal, checkpoints, lastId>>

\* The process dies: what it held in memory is gone, its transaction rolled back.
Crash(c) ==
    /\ client[c] # IdleClient
    /\ client' = [client EXCEPT ![c] = IdleClient]
    /\ UNCHANGED <<session, journal, checkpoints, lastId>>

ClientStep(c) ==
    \/ Create(c)
    \/ \E op \in Writes : BeginWrite(c, op)
    \/ \E op \in Closings : BeginClose(c, op)
    \/ \E kind \in {"write", "step"}, turn \in MaybeTurn : Append(c, kind, turn)
    \/ \E explicit \in BOOLEAN, turn \in MaybeTurn : CreateCheckpoint(c, explicit, turn)
    \/ \E target \in checkpoints : Rewind(c, target)
    \/ UpdateMetadata(c)
    \/ Archive(c)
    \/ Delete(c)
    \/ Refused(c)
    \/ BeginRecover(c)
    \/ FinishRecover(c)
    \/ Crash(c)

Next == \E c \in Clients : ClientStep(c)

Spec == Init /\ [][Next]_vars

-----------------------------------------------------------------------------
(* Properties.                                                              *)

\* Every variable stays in its domain.
TypeOK ==
    /\ session \in SessionRow
    /\ journal \subseteq JournalRow
    /\ checkpoints \subseteq Checkpoint
    /\ lastId \in 0..MaxId
    /\ client \in [Clients -> ClientRecord]

\* The seqs of a session are 1, 2, ... with no gap and no repetition, whatever
\* processes interleave and however often the session is deleted and created
\* again (getNextJournalSeq with UNIQUE(session_id, seq)).
JournalDense ==
    /\ \E n \in 0..MaxSeq : {r.seq : r \in journal} = 1..n
    /\ \A r, q \in journal : r.seq = q.seq => r = q

\* A checkpoint never claims to cover rows the journal does not have: an
\* uptoSeq remembered from before a delete is refused, so replay never skips
\* rows that are appended later (checkpoints.create).
CheckpointsCovered ==
    \A c \in checkpoints : c.uptoSeq <= LatestSeq(journal)

\* No row survives its session: a process whose requireActive is stale cannot
\* leave rows behind a deleted session (foreign keys and their cascade).
NoOrphanRows ==
    session.status = "absent" => journal = {} /\ checkpoints = {}

\* What the proofs need of UNIQUE(session_id, upto_seq) and AUTOINCREMENT: the
\* CHOOSE of LatestCheckpoint is of one, and a rewind's target is known by its id.
LatestCheckpointUnique ==
    /\ \A c \in checkpoints : c.id <= lastId
    /\ \A c, d \in checkpoints : (c.uptoSeq = d.uptoSeq \/ c.id = d.id) => c = d

\* A rewind takes effect at once and destroys nothing: recovery now yields the
\* target's state and turn hint, and every earlier row and checkpoint is still
\* there (store.rewind; "rewinds to the previous checkpoint without deleting
\* history").
RewindLands ==
    [][\A r \in journal' \ journal : r.kind = "rewind" =>
          /\ journal \subseteq journal' /\ checkpoints \subseteq checkpoints'
          /\ \E t \in checkpoints :
                /\ t.id = r.target
                /\ RecoveredState' = t.state
                /\ LatestTurnId' = (IF HasTurnHint(t) THEN t.turn ELSE NoTurn)]_vars

-----------------------------------------------------------------------------
(* The promise to a single process, DurableSession: the session holds the    *)
(* last write or what was last rewound to, and forgets neither.              *)

Durable == INSTANCE DurableSession
    WITH status <- session.status,
         writes <- {r.seq : r \in {q \in journal : q.kind = "write"}},
         returns <- {<<r.seq, r.target>> : r \in {q \in journal : q.kind = "rewind"}},
         value <- RecoveredState,
         saved <- {[id |-> k.id, state |-> k.state] : k \in checkpoints},
         Moments <- 1..MaxSeq,
         Ids <- 1..MaxId

DurableSpec == Durable!Spec
=============================================================================
