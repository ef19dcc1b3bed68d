------------------------- MODULE SessionStoreProofs -------------------------
(***************************************************************************)
(* SessionStore for every number of turns, rows and checkpoints.  For every *)
(* number of processes: the row invariants of a session, proved from one    *)
(* inductive invariant, that a rewind takes effect, and that recovery is    *)
(* faithful.  For one process: that it implements DurableSession.           *)
(***************************************************************************)
EXTENDS SessionHistory, TLAPS, WellFoundedInduction

-----------------------------------------------------------------------------
(* The CHOOSE of LatestSeq and LatestCheckpoint finds what it looks for.    *)

\* A bounded, non-empty set of naturals has a greatest element.
LEMMA MaxExists ==
  ASSUME NEW N \in Nat, NEW S, S \subseteq 0..N, S # {}
  PROVE \E m \in S : \A x \in S : x <= m
<1> DEFINE T == {N - s : s \in S}
<1>0. \A x \in S : x \in Int /\ 0 <= x /\ x <= N   OBVIOUS
<1>1. T \subseteq Nat /\ T # {}
  <2>1. \A x \in S : N - x \in Nat  BY <1>0
  <2>2. T \subseteq Nat  BY <2>1
  <2>3. PICK x \in S : TRUE  OBVIOUS
  <2>4. N - x \in T  OBVIOUS
  <2> QED BY <2>2, <2>4
<1>2. \E m \in T : \A y \in T : <<y, m>> \notin OpToRel(<, Nat)
  BY <1>1, NatLessThanWellFounded, WFMin
<1>3. PICK m \in T : \A y \in T : <<y, m>> \notin OpToRel(<, Nat)  BY <1>2
<1>4. \A y \in T : ~(y < m)  BY <1>1, <1>3 DEF OpToRel
<1>5. PICK s \in S : m = N - s  OBVIOUS
<1>6. \A x \in S : x <= s
  <2> SUFFICES ASSUME NEW x \in S PROVE x <= s  OBVIOUS
  <2>1. N - x \in T  OBVIOUS
  <2>2. ~(N - x < N - s)  BY <2>1, <1>4, <1>5
  <2> QED BY <2>2, <1>0
<1> QED BY <1>5, <1>6

\* LatestSeq of rows is 0, or the seq of one of them.
LEMMA LatestSeqType ==
  ASSUME NEW rows, rows \subseteq JournalRow
  PROVE /\ LatestSeq(rows) \in 0..MaxSeq
        /\ \A r \in rows : r.seq <= LatestSeq(rows)
<1>1. CASE rows = {}
  BY <1>1, BoundsAssumption DEF LatestSeq
<1>2. CASE rows # {}
  <2> DEFINE S == {r.seq : r \in rows}
  <2>1. S \subseteq 0..MaxSeq /\ S # {}  BY <1>2, BoundsAssumption DEF JournalRow
  <2>2. \E m \in S : \A x \in S : x <= m  BY <2>1, MaxExists, BoundsAssumption
  <2>3. \E m \in S : \A r \in rows : r.seq <= m  BY <2>2
  <2>4. LatestSeq(rows) = CHOOSE n \in S : \A r \in rows : r.seq <= n
    BY <1>2 DEF LatestSeq
  <2>5. LatestSeq(rows) \in S /\ \A r \in rows : r.seq <= LatestSeq(rows)
    BY <2>3, <2>4
  <2> QED BY <2>1, <2>5
<1> QED BY <1>1, <1>2

\* Of rows numbered 1..n the latest seq is n.
LEMMA LatestSeqDense ==
  ASSUME NEW rows, rows \subseteq JournalRow,
         NEW n \in 0..MaxSeq, {r.seq : r \in rows} = 1..n
  PROVE LatestSeq(rows) = n
<1>1. CASE n = 0
  <2>1. rows = {}
    <3> SUFFICES ASSUME NEW r \in rows PROVE FALSE  OBVIOUS
    <3>1. r.seq \in 1..n  OBVIOUS
    <3> QED BY <3>1, <1>1
  <2> QED BY <2>1, <1>1 DEF LatestSeq
<1>2. CASE n # 0
  <2>1. n \in 1..n /\ n \in Int  BY <1>2, BoundsAssumption
  <2>2. PICK r \in rows : r.seq = n  BY <2>1
  <2>3. \A q \in rows : q.seq \in 1..n  OBVIOUS
  <2>4. LatestSeq(rows) = CHOOSE m \in {q.seq : q \in rows} : \A q \in rows : q.seq <= m
    BY <2>2 DEF LatestSeq
  <2>5. \E m \in {q.seq : q \in rows} : \A q \in rows : q.seq <= m
    BY <2>1, <2>2, <2>3
  <2>6. LatestSeq(rows) \in 1..n /\ \A q \in rows : q.seq <= LatestSeq(rows)
    BY <2>4, <2>5
  <2>7. n <= LatestSeq(rows)  BY <2>2, <2>6
  <2> QED BY <2>1, <2>6, <2>7
<1> QED BY <1>1, <1>2

\* The latest checkpoint is the one that covers most.
LEMMA LatestCheckpointType ==
  ASSUME NEW cps, cps \subseteq Checkpoint, cps # {},
         \A c, d \in cps : c.uptoSeq = d.uptoSeq => c = d
  PROVE /\ LatestCheckpoint(cps) \in cps
        /\ \A d \in cps \ {LatestCheckpoint(cps)} : d.uptoSeq < LatestCheckpoint(cps).uptoSeq
<1> DEFINE S == {c.uptoSeq : c \in cps}
<1>1. S \subseteq 0..MaxSeq /\ S # {}  BY DEF Checkpoint
<1>2. PICK m \in S : \A x \in S : x <= m  BY <1>1, MaxExists, BoundsAssumption
<1>3. PICK c \in cps : c.uptoSeq = m  OBVIOUS
<1>4. \A d \in cps : d.uptoSeq \in Int /\ d.uptoSeq <= c.uptoSeq
  BY <1>1, <1>2, <1>3, BoundsAssumption
<1>5. \A d \in cps \ {c} : c.uptoSeq > d.uptoSeq
  BY <1>4
<1>6. \A d \in cps \ {c} : Newer(c, d)  BY <1>5 DEF Newer
<1>7. \E b \in cps : \A d \in cps \ {b} : Newer(b, d)  BY <1>6
<1>8. /\ LatestCheckpoint(cps) \in cps
      /\ \A d \in cps \ {LatestCheckpoint(cps)} : Newer(LatestCheckpoint(cps), d)
  BY <1>7 DEF LatestCheckpoint
<1>9. \A d \in cps \ {LatestCheckpoint(cps)} : d.uptoSeq # LatestCheckpoint(cps).uptoSeq
  BY <1>8
<1> QED BY <1>4, <1>8, <1>9 DEF Newer

-----------------------------------------------------------------------------
(* The inductive invariant.  CheckpointsCovered alone is not inductive: a    *)
(* rewind's checkpoint is at the seq of the row it has just appended, which  *)
(* is the latest only because the seqs are dense and unique.                 *)

IInv ==
    /\ TypeOK
    /\ JournalDense
    /\ CheckpointsCovered
    /\ NoOrphanRows
    /\ LatestCheckpointUnique

\* The value recovery starts from is well typed.
LEMMA RecoveryBaseType ==
  ASSUME TypeOK, LatestCheckpointUnique
  PROVE RecoveryBase(checkpoints) \in [state : State, uptoSeq : 0..MaxSeq]
<1>1. CASE checkpoints = {}
  BY <1>1, BoundsAssumption DEF RecoveryBase, NoBase, State
<1>2. CASE checkpoints # {}
  <2>1. LatestCheckpoint(checkpoints) \in checkpoints
    BY <1>2, LatestCheckpointType DEF TypeOK, LatestCheckpointUnique
  <2>2. LatestCheckpoint(checkpoints) \in Checkpoint  BY <2>1 DEF TypeOK
  <2> QED BY <1>2, <2>2 DEF RecoveryBase, Checkpoint
<1> QED BY <1>1, <1>2

\* Replay yields a state.
LEMMA ReplayType ==
  ASSUME NEW rows, rows \subseteq JournalRow,
         NEW base \in [state : State, uptoSeq : 0..MaxSeq]
  PROVE Replay(base, rows) \in State
<1> DEFINE after == {r \in rows : r.kind = "write" /\ r.seq > base.uptoSeq}
<1>1. after \subseteq JournalRow  OBVIOUS
<1>2. LatestSeq(after) \in 0..MaxSeq  BY <1>1, LatestSeqType
<1>3. base.state \in State  OBVIOUS
<1> QED BY <1>2, <1>3 DEF Replay, State

\* Appending the next row keeps the seqs dense and moves LatestSeq by one.
LEMMA AppendRow ==
  ASSUME TypeOK, JournalDense, NextSeq(journal) <= MaxSeq,
         NEW row \in JournalRow, row.seq = NextSeq(journal)
  PROVE /\ NextSeq(journal) \in 1..MaxSeq
        /\ LatestSeq(journal \cup {row}) = LatestSeq(journal) + 1
        /\ \E n \in 0..MaxSeq : {r.seq : r \in journal \cup {row}} = 1..n
        /\ \A r, q \in journal \cup {row} : r.seq = q.seq => r = q
<1>1. journal \subseteq JournalRow  BY DEF TypeOK
<1>2. PICK n \in 0..MaxSeq : {r.seq : r \in journal} = 1..n  BY DEF JournalDense
<1>3. LatestSeq(journal) = n  BY <1>1, <1>2, LatestSeqDense
<1>4. row.seq = n + 1 /\ n + 1 \in 1..MaxSeq
  BY <1>2, <1>3, BoundsAssumption DEF NextSeq
<1>5. {r.seq : r \in journal \cup {row}} = 1..(n + 1)
  <2>1. {r.seq : r \in journal \cup {row}} = {r.seq : r \in journal} \cup {row.seq}
    OBVIOUS
  <2>2. 1..(n + 1) = (1..n) \cup {n + 1}  BY <1>2, BoundsAssumption
  <2> QED BY <2>1, <2>2, <1>2, <1>4
<1>6. journal \cup {row} \subseteq JournalRow /\ n + 1 \in 0..MaxSeq
  BY <1>1, <1>4
<1>7. LatestSeq(journal \cup {row}) = n + 1  BY <1>5, <1>6, LatestSeqDense
<1>8. \A r \in journal : r.seq # row.seq
  <2> SUFFICES ASSUME NEW r \in journal PROVE r.seq # row.seq  OBVIOUS
  <2>1. r.seq \in 1..n  BY <1>2
  <2> QED BY <2>1, <1>2, <1>4, BoundsAssumption
<1>9. \A r, q \in journal \cup {row} : r.seq = q.seq => r = q
  BY <1>8 DEF JournalDense
<1> QED BY <1>3, <1>4, <1>5, <1>6, <1>7, <1>9 DEF NextSeq

LEMMA InitIInv == Init => IInv
<1> SUFFICES ASSUME Init PROVE IInv  OBVIOUS
<1> USE BoundsAssumption, NoTurnAssumption DEF Init
<1>1. TypeOK
  BY DEF TypeOK, AbsentRow, SessionRow, Statuses, IdleClient, ClientRecord,
         Writes, Closings, NoBase, State, NotLoaded
<1>2. JournalDense
  <2>1. {r.seq : r \in journal} = 1..0  OBVIOUS
  <2>2. 0 \in 0..MaxSeq  OBVIOUS
  <2>3. \A r, q \in journal : r.seq = q.seq => r = q  OBVIOUS
  <2> QED BY ONLY <2>1, <2>2, <2>3 DEF JournalDense
<1>3. CheckpointsCovered /\ NoOrphanRows /\ LatestCheckpointUnique
  BY DEF CheckpointsCovered, NoOrphanRows, LatestCheckpointUnique
<1> QED BY <1>1, <1>2, <1>3 DEF IInv

\* Every action keeps the variables in their domains.
LEMMA TypeStep ==
  ASSUME IInv, [Next]_vars
  PROVE TypeOK'
<1> USE BoundsAssumption, NoTurnAssumption
<1>t. TypeOK  BY DEF IInv
<1>a. AbsentRow \in SessionRow /\ IdleClient \in ClientRecord /\ NoBase \in [state : State, uptoSeq : 0..MaxSeq]
  BY DEF AbsentRow, SessionRow, Statuses, IdleClient, ClientRecord, Writes,
         Closings, NoBase, State, NotLoaded
<1>b. \A c \in Clients : client[c] \in ClientRecord  BY <1>t DEF TypeOK
<1>f. \A c \in Clients : Finish(c) => client' \in [Clients -> ClientRecord]
  <2> SUFFICES ASSUME NEW c \in Clients, Finish(c)
               PROVE client' \in [Clients -> ClientRecord]
    OBVIOUS
  <2>1. [client[c] EXCEPT !.op = "idle", !.row = AbsentRow] \in ClientRecord
    BY <1>a, <1>b DEF ClientRecord
  <2> QED BY <1>t, <2>1 DEF TypeOK, Finish
<1>1. ASSUME NEW c \in Clients, Create(c) PROVE TypeOK'
  BY <1>1, <1>t, <1>a DEF Create, TypeOK, SessionRow, Statuses
<1>2. ASSUME NEW c \in Clients, NEW op \in Writes, BeginWrite(c, op) PROVE TypeOK'
  <2>1. [client[c] EXCEPT !.op = op, !.row = session] \in ClientRecord
    BY <1>2, <1>t, <1>b DEF TypeOK, ClientRecord
  <2> QED BY <1>2, <1>t, <2>1 DEF BeginWrite, TypeOK
<1>3. ASSUME NEW c \in Clients, NEW op \in Closings, BeginClose(c, op) PROVE TypeOK'
  <2>1. [client[c] EXCEPT !.op = op, !.row = session] \in ClientRecord
    BY <1>3, <1>t, <1>b DEF TypeOK, ClientRecord
  <2> QED BY <1>3, <1>t, <2>1 DEF BeginClose, TypeOK
<1>4. ASSUME NEW c \in Clients, NEW kind \in {"write", "step"}, NEW turn \in MaybeTurn,
             Append(c, kind, turn)
      PROVE TypeOK'
  <2> DEFINE row == NewRow(kind, turn, 0)
  <2>1. NextSeq(journal) \in 1..MaxSeq
    <3>1. LatestSeq(journal) \in 0..MaxSeq  BY <1>t, LatestSeqType DEF TypeOK
    <3> QED BY <1>4, <3>1 DEF Append, NextSeq
  <2>2. row \in JournalRow /\ row.seq \in 1..MaxSeq
    BY <2>1 DEF NewRow, JournalRow
  <2>3. journal' = journal \cup {row}  BY <1>4 DEF Append
  <2>4. journal' \subseteq JournalRow  BY <1>t, <2>2, <2>3 DEF TypeOK
  <2>   DEFINE view == IF kind = "write" /\ client[c].view # NotLoaded
                       THEN row.seq ELSE client[c].view
               record == [client[c] EXCEPT !.op = "idle", !.row = AbsentRow,
                                           !.seen = row.seq, !.view = view]
  <2>6. client' \in [Clients -> ClientRecord]
    <3>1. client[c].view \in State \cup {NotLoaded}  BY <1>b DEF ClientRecord
    <3>2. row.seq \in State  BY <2>2 DEF State
    <3>3. view \in State \cup {NotLoaded}  BY <3>1, <3>2
    <3>4. row.seq \in 0..MaxSeq  BY <2>2
    <3>5. record \in ClientRecord
      <4> HIDE DEF view, row
      <4> QED BY <1>a, <1>b, <3>3, <3>4 DEF ClientRecord
    <3>6. client' = [client EXCEPT ![c] = record]  BY <1>4 DEF Append
    <3> HIDE DEF record
    <3> QED BY <1>t, <3>5, <3>6 DEF TypeOK
  <2> QED BY <1>4, <1>t, <2>4, <2>6 DEF Append, TypeOK
<1>5. ASSUME NEW c \in Clients, NEW explicit \in BOOLEAN, NEW turn \in MaybeTurn,
             CreateCheckpoint(c, explicit, turn)
      PROVE TypeOK'
  <2> DEFINE upto == IF explicit THEN client[c].seen ELSE LatestSeq(journal)
             new == NewCheckpoint(upto, client[c].view,
                               IF turn = NoTurn THEN "general" ELSE "step", turn)
  <2>1. lastId + 1 \in 1..MaxId  BY <1>5, <1>t DEF CreateCheckpoint, TypeOK
  <2>2. upto \in 0..MaxSeq
    BY <1>b, <1>t, LatestSeqType DEF ClientRecord, TypeOK
  <2>3. client[c].view \in State
    BY <1>5, <1>b DEF CreateCheckpoint, ClientRecord
  <2>4. new \in Checkpoint  BY <2>1, <2>2, <2>3 DEF NewCheckpoint, Checkpoint
  <2>5. checkpoints' = checkpoints \cup {new}  BY <1>5 DEF CreateCheckpoint
  <2>6. client' \in [Clients -> ClientRecord]  BY <1>5, <1>f DEF CreateCheckpoint
  <2> QED BY <1>5, <1>t, <2>1, <2>4, <2>5, <2>6 DEF CreateCheckpoint, TypeOK
<1>6. ASSUME NEW c \in Clients, NEW target \in checkpoints, Rewind(c, target)
      PROVE TypeOK'
  <2> DEFINE row == NewRow("rewind", NoTurn, target.id)
             rows == journal \cup {row}
  <2>1. NextSeq(journal) \in 1..MaxSeq
    <3>1. LatestSeq(journal) \in 0..MaxSeq  BY <1>t, LatestSeqType DEF TypeOK
    <3> QED BY <1>6, <3>1 DEF Rewind, NextSeq
  <2>2. target \in Checkpoint  BY <1>t DEF TypeOK
  <2>3. row \in JournalRow /\ row.seq \in 1..MaxSeq
    BY <2>1, <2>2 DEF NewRow, JournalRow, Checkpoint, MaybeTurn
  <2>4. rows \subseteq JournalRow  BY <1>t, <2>3 DEF TypeOK
  <2>5. LatestSeq(rows) \in 0..MaxSeq  BY <2>4, LatestSeqType
  <2>6. lastId + 1 \in 1..MaxId  BY <1>6, <1>t DEF Rewind, TypeOK
  <2>7. RewindCheckpoint(target, LatestSeq(rows)) \in Checkpoint
    BY <2>2, <2>5, <2>6 DEF RewindCheckpoint, NewCheckpoint, Checkpoint, MaybeTurn
  <2>8. journal' = rows /\ checkpoints' = checkpoints \cup {RewindCheckpoint(target, LatestSeq(rows))}
    BY <1>6 DEF Rewind
  <2>9. client' \in [Clients -> ClientRecord]
    <3> DEFINE record == [client[c] EXCEPT !.op = "idle", !.row = AbsentRow,
                                           !.seen = row.seq, !.view = NotLoaded]
    <3>1. row.seq \in 0..MaxSeq  BY <2>3
    <3>2. record \in ClientRecord
      <4> HIDE DEF row
      <4> QED BY <1>a, <1>b, <3>1 DEF ClientRecord
    <3>3. client' = [client EXCEPT ![c] = record]  BY <1>6 DEF Rewind
    <3> HIDE DEF record
    <3> QED BY <1>t, <3>2, <3>3 DEF TypeOK
  <2>10. session' \in SessionRow
    <3>1. session' = [session EXCEPT !.observed = session.observed /\ ~client[c].row.observed]
      BY <1>6 DEF Rewind, ClearObservation
    <3>2. (session.observed /\ ~client[c].row.observed) \in BOOLEAN  OBVIOUS
    <3> QED BY <1>t, <3>1, <3>2 DEF TypeOK, SessionRow
  <2> QED BY <1>6, <1>t, <2>4, <2>6, <2>7, <2>8, <2>9, <2>10 DEF Rewind, TypeOK
<1>7. ASSUME NEW c \in Clients, UpdateMetadata(c) PROVE TypeOK'
  BY <1>7, <1>t, <1>f DEF UpdateMetadata, TypeOK, SessionRow
<1>8. ASSUME NEW c \in Clients, Archive(c) PROVE TypeOK'
  BY <1>8, <1>t, <1>f DEF Archive, TypeOK, SessionRow, Statuses
<1>9. ASSUME NEW c \in Clients, Delete(c) PROVE TypeOK'
  BY <1>9, <1>t, <1>a DEF Delete, TypeOK
<1>10. ASSUME NEW c \in Clients, Refused(c) PROVE TypeOK'
  BY <1>10, <1>t, <1>f DEF Refused, TypeOK
<1>11. ASSUME NEW c \in Clients, BeginRecover(c) PROVE TypeOK'
  <2>1. RecoveryBase(checkpoints) \in [state : State, uptoSeq : 0..MaxSeq]
    BY RecoveryBaseType DEF IInv
  <2>2. [client[c] EXCEPT !.op = "recover", !.row = session,
                          !.base = RecoveryBase(checkpoints)] \in ClientRecord
    BY <1>t, <1>b, <2>1 DEF TypeOK, ClientRecord
  <2> QED BY <1>11, <1>t, <2>2 DEF BeginRecover, TypeOK
<1>12. ASSUME NEW c \in Clients, FinishRecover(c) PROVE TypeOK'
  <2> DEFINE base == client[c].base
  <2>1. base \in [state : State, uptoSeq : 0..MaxSeq]  BY <1>b DEF ClientRecord
  <2>2. ReplayFrom(base) \in State  BY <1>t, <2>1, ReplayType DEF TypeOK, ReplayFrom
  <2>3. LatestSeq(journal) \in 0..MaxSeq  BY <1>t, LatestSeqType DEF TypeOK
  <2> DEFINE seen == IF LatestSeq(journal) > base.uptoSeq
                     THEN LatestSeq(journal) ELSE base.uptoSeq
             record == [client[c] EXCEPT !.op = "idle", !.row = AbsentRow, !.base = NoBase,
                                         !.view = ReplayFrom(base), !.seen = seen]
  <2>4. seen \in 0..MaxSeq  BY <2>1, <2>3
  <2>5. client' \in [Clients -> ClientRecord]
    <3>1. record \in ClientRecord
      <4> HIDE DEF seen, base
      <4> QED BY <1>a, <1>b, <2>2, <2>4 DEF ClientRecord
    <3>2. client' = [client EXCEPT ![c] = record]  BY <1>12 DEF FinishRecover
    <3> HIDE DEF record
    <3> QED BY <1>t, <3>1, <3>2 DEF TypeOK
  <2> QED BY <1>12, <1>t, <2>5 DEF FinishRecover, TypeOK
<1>13. ASSUME NEW c \in Clients, Crash(c) PROVE TypeOK'
  BY <1>13, <1>t, <1>a DEF Crash, TypeOK
<1>14. ASSUME UNCHANGED vars PROVE TypeOK'
  BY <1>14, <1>t DEF vars, TypeOK
<1> QED
  BY <1>1, <1>2, <1>3, <1>4, <1>5, <1>6, <1>7, <1>8, <1>9, <1>10, <1>11, <1>12,
     <1>13, <1>14 DEF Next, ClientStep

RowsInv == JournalDense /\ CheckpointsCovered /\ NoOrphanRows /\ LatestCheckpointUnique

\* A step that leaves the rows alone and removes no session keeps what is said of them.
LEMMA RowsSame ==
  ASSUME IInv, UNCHANGED <<journal, checkpoints, lastId>>,
         session'.status = "absent" => session.status = "absent"
  PROVE RowsInv'
BY DEF IInv, RowsInv, JournalDense, CheckpointsCovered, NoOrphanRows,
       LatestCheckpointUnique

\* A new checkpoint gets a fresh id, and CheckpointAllowed keeps it apart from the others.
LEMMA AddCheckpoint ==
  ASSUME IInv, NEW new \in Checkpoint,
         new.id = lastId + 1, \A c \in checkpoints : c.uptoSeq # new.uptoSeq,
         checkpoints' = checkpoints \cup {new}, lastId' = lastId + 1
  PROVE LatestCheckpointUnique'
<1>1. lastId \in Int /\ \A c \in checkpoints : c.id \in Int /\ c.id <= lastId
  BY BoundsAssumption DEF IInv, TypeOK, LatestCheckpointUnique, Checkpoint
<1>2. \A c \in checkpoints' : c.id <= lastId'
  BY <1>1
<1>3. \A c \in checkpoints : c.id # new.id
  BY <1>1
<1>4. \A c, d \in checkpoints' : (c.uptoSeq = d.uptoSeq \/ c.id = d.id) => c = d
  BY <1>3 DEF IInv, LatestCheckpointUnique
<1> QED BY <1>2, <1>4 DEF LatestCheckpointUnique

\* Every action keeps the rows of the session as they must be.
LEMMA RowsStep ==
  ASSUME IInv, [Next]_vars
  PROVE RowsInv'
<1> USE BoundsAssumption
<1>t. TypeOK /\ JournalDense /\ CheckpointsCovered /\ NoOrphanRows /\ LatestCheckpointUnique
  BY DEF IInv
<1>l. LatestSeq(journal) \in 0..MaxSeq  BY <1>t, LatestSeqType DEF TypeOK
<1>1. ASSUME NEW c \in Clients, Create(c) PROVE RowsInv'
  BY <1>1, RowsSame DEF Create
<1>2. ASSUME NEW c \in Clients, NEW op \in Writes, BeginWrite(c, op) PROVE RowsInv'
  BY <1>2, RowsSame DEF BeginWrite
<1>3. ASSUME NEW c \in Clients, NEW op \in Closings, BeginClose(c, op) PROVE RowsInv'
  BY <1>3, RowsSame DEF BeginClose
<1>4. ASSUME NEW c \in Clients, NEW kind \in {"write", "step"}, NEW turn \in MaybeTurn,
             Append(c, kind, turn)
      PROVE RowsInv'
  <2> DEFINE row == NewRow(kind, turn, 0)
  <2>1. NextSeq(journal) <= MaxSeq /\ NextSeq(journal) \in 1..MaxSeq
    BY <1>4, <1>l DEF Append, NextSeq
  <2>2. row \in JournalRow /\ row.seq = NextSeq(journal)
    BY <2>1 DEF NewRow, JournalRow
  <2>3. journal' = journal \cup {row}  BY <1>4 DEF Append
  <2>4. UNCHANGED <<session, checkpoints, lastId>> /\ session.status # "absent"
    BY <1>4 DEF Append, ForeignKeyHolds
  <2>5. /\ LatestSeq(journal') = LatestSeq(journal) + 1
        /\ JournalDense'
    BY <1>t, <2>1, <2>2, <2>3, AppendRow DEF JournalDense
  <2>6. CheckpointsCovered'
    <3>1. \A k \in checkpoints : k.uptoSeq \in Int /\ k.uptoSeq <= LatestSeq(journal)
      BY <1>t DEF CheckpointsCovered, TypeOK, Checkpoint
    <3> QED BY <2>4, <2>5, <3>1, <1>l DEF CheckpointsCovered
  <2>7. NoOrphanRows' /\ LatestCheckpointUnique'
    BY <1>t, <2>4 DEF NoOrphanRows, LatestCheckpointUnique
  <2> QED BY <2>5, <2>6, <2>7 DEF RowsInv
<1>5. ASSUME NEW c \in Clients, NEW explicit \in BOOLEAN, NEW turn \in MaybeTurn,
             CreateCheckpoint(c, explicit, turn)
      PROVE RowsInv'
  <2> DEFINE upto == IF explicit THEN client[c].seen ELSE LatestSeq(journal)
             new == NewCheckpoint(upto, client[c].view,
                               IF turn = NoTurn THEN "general" ELSE "step", turn)
  <2>1. checkpoints' = checkpoints \cup {new} /\ lastId' = lastId + 1
    BY <1>5 DEF CreateCheckpoint
  <2>2. UNCHANGED <<session, journal>> /\ session.status # "absent"
    BY <1>5 DEF CreateCheckpoint, ForeignKeyHolds
  <2>3. upto <= LatestSeq(journal) /\ \A k \in checkpoints : k.uptoSeq # upto
    BY <1>5 DEF CreateCheckpoint, CheckpointAllowed
  <2>4. new \in checkpoints' /\ TypeOK'  BY <2>1, TypeStep
  <2>5. new \in Checkpoint /\ new.id = lastId + 1 /\ new.uptoSeq = upto
    BY <2>4 DEF TypeOK, NewCheckpoint
  <2>6. LatestCheckpointUnique'
    <3> HIDE DEF new, upto
    <3> QED BY <2>1, <2>3, <2>5, AddCheckpoint
  <2>7. CheckpointsCovered'
    <3> HIDE DEF new, upto
    <3> QED BY <1>t, <2>1, <2>2, <2>3, <2>5 DEF CheckpointsCovered
  <2>8. JournalDense' /\ NoOrphanRows'
    BY <1>t, <2>2 DEF JournalDense, NoOrphanRows
  <2> QED BY <2>6, <2>7, <2>8 DEF RowsInv
<1>6. ASSUME NEW c \in Clients, NEW target \in checkpoints, Rewind(c, target)
      PROVE RowsInv'
  <2> DEFINE row == NewRow("rewind", NoTurn, target.id)
             rows == journal \cup {row}
             new == RewindCheckpoint(target, LatestSeq(rows))
  <2>1. NextSeq(journal) <= MaxSeq /\ NextSeq(journal) \in 1..MaxSeq
    BY <1>6, <1>l DEF Rewind, NextSeq
  <2>2. row \in JournalRow /\ row.seq = NextSeq(journal)
    BY <2>1, <1>t DEF NewRow, JournalRow, MaybeTurn, TypeOK, Checkpoint
  <2>3. journal' = rows /\ checkpoints' = checkpoints \cup {new} /\ lastId' = lastId + 1
    BY <1>6 DEF Rewind
  <2>4. /\ LatestSeq(rows) = LatestSeq(journal) + 1
        /\ JournalDense'
    BY <1>t, <2>1, <2>2, <2>3, AppendRow DEF JournalDense
  <2>5. new \in checkpoints' /\ TypeOK'  BY <2>3, TypeStep
  <2>6. new \in Checkpoint /\ new.id = lastId + 1 /\ new.uptoSeq = LatestSeq(rows)
    BY <2>5 DEF TypeOK, RewindCheckpoint, NewCheckpoint
  <2>7. \A k \in checkpoints : k.uptoSeq \in Int /\ k.uptoSeq <= LatestSeq(journal)
    BY <1>t DEF CheckpointsCovered, TypeOK, Checkpoint
  <2>8. \A k \in checkpoints : k.uptoSeq # new.uptoSeq
    BY <2>4, <2>6, <2>7, <1>l
  <2>9. LatestCheckpointUnique'
    <3> HIDE DEF new, rows
    <3> QED BY <2>3, <2>6, <2>8, AddCheckpoint
  <2>10. CheckpointsCovered'
    <3> HIDE DEF new, rows
    <3> QED BY <2>3, <2>4, <2>6, <2>7, <1>l DEF CheckpointsCovered
  <2>11. NoOrphanRows'
    <3>1. session.status # "absent"  BY <1>6, <1>t DEF Rewind, NoOrphanRows
    <3>2. session'.status = session.status  BY <1>6, <1>t DEF Rewind, ClearObservation, TypeOK, SessionRow
    <3> QED BY <3>1, <3>2 DEF NoOrphanRows
  <2> QED BY <2>4, <2>9, <2>10, <2>11 DEF RowsInv
<1>7. ASSUME NEW c \in Clients, UpdateMetadata(c) PROVE RowsInv'
  <2>1. session'.status = session.status  BY <1>7, <1>t DEF UpdateMetadata, TypeOK, SessionRow
  <2> QED BY <1>7, <2>1, RowsSame DEF UpdateMetadata
<1>8. ASSUME NEW c \in Clients, Archive(c) PROVE RowsInv'
  <2>1. session'.status = "absent" => session.status = "absent"
    BY <1>8, <1>t DEF Archive, TypeOK, SessionRow
  <2> QED BY <1>8, <2>1, RowsSame DEF Archive
<1>9. ASSUME NEW c \in Clients, Delete(c) PROVE RowsInv'
  <2>1. journal' = {} /\ checkpoints' = {} /\ lastId' = lastId  BY <1>9 DEF Delete
  <2>2. {r.seq : r \in journal'} = 1..0 /\ 0 \in 0..MaxSeq  BY <2>1
  <2>3. JournalDense'
    BY ONLY <2>1, <2>2 DEF JournalDense
  <2> QED BY <2>1, <2>3 DEF RowsInv, CheckpointsCovered, NoOrphanRows, LatestCheckpointUnique
<1>10. ASSUME NEW c \in Clients, Refused(c) PROVE RowsInv'
  BY <1>10, RowsSame DEF Refused
<1>11. ASSUME NEW c \in Clients, BeginRecover(c) PROVE RowsInv'
  BY <1>11, RowsSame DEF BeginRecover
<1>12. ASSUME NEW c \in Clients, FinishRecover(c) PROVE RowsInv'
  BY <1>12, RowsSame DEF FinishRecover
<1>13. ASSUME NEW c \in Clients, Crash(c) PROVE RowsInv'
  BY <1>13, RowsSame DEF Crash
<1>14. ASSUME UNCHANGED vars PROVE RowsInv'
  BY <1>14, RowsSame DEF vars
<1> QED
  BY <1>1, <1>2, <1>3, <1>4, <1>5, <1>6, <1>7, <1>8, <1>9, <1>10, <1>11, <1>12,
     <1>13, <1>14 DEF Next, ClientStep

-----------------------------------------------------------------------------
(* The theorems.                                                            *)

\* The inductive invariant holds of every behaviour, for any number of processes.
THEOREM Invariance == Spec => []IInv
<1>1. IInv /\ [Next]_vars => IInv'
  BY TypeStep, RowsStep DEF IInv, RowsInv
<1> QED BY InitIInv, <1>1, PTL DEF Spec

\* Every variable of the store stays in its domain.
THEOREM TypeCorrect == Spec => []TypeOK
<1>1. IInv => TypeOK  BY DEF IInv
<1> QED BY Invariance, <1>1, PTL

\* Whatever processes interleave, a session's journal seqs stay 1, 2, ... with
\* no gap and no repetition, across deletes and re-creations.
THEOREM Dense == Spec => []JournalDense
<1>1. IInv => JournalDense  BY DEF IInv
<1> QED BY Invariance, <1>1, PTL

\* No checkpoint ever claims rows that the journal does not have, so recovery
\* never skips a row appended later.
THEOREM Covered == Spec => []CheckpointsCovered
<1>1. IInv => CheckpointsCovered  BY DEF IInv
<1> QED BY Invariance, <1>1, PTL

\* A call whose requireActive is stale leaves no row behind a deleted session.
THEOREM NoOrphans == Spec => []NoOrphanRows
<1>1. IInv => NoOrphanRows  BY DEF IInv
<1> QED BY Invariance, <1>1, PTL

-----------------------------------------------------------------------------
(* What recovery returns after a step.                                      *)

\* The row with the greatest seq decides LatestSeq.
LEMMA LatestSeqIs ==
  ASSUME NEW rows, rows \subseteq JournalRow, NEW row \in rows,
         \A r \in rows : r.seq <= row.seq
  PROVE LatestSeq(rows) = row.seq
<1>1. LatestSeq(rows) \in {r.seq : r \in rows} /\ \A r \in rows : r.seq <= LatestSeq(rows)
  <2> DEFINE P(n) == \A r \in rows : r.seq <= n
             S == {r.seq : r \in rows}
  <2>1. row.seq \in S /\ P(row.seq)  OBVIOUS
  <2>2. LatestSeq(rows) = CHOOSE n \in S : P(n)
    <3>1. rows # {}  OBVIOUS
    <3> QED BY <3>1 DEF LatestSeq
  <2> HIDE DEF P, S
  <2>3. LatestSeq(rows) \in S /\ P(LatestSeq(rows))  BY <2>1, <2>2
  <2> QED BY <2>3 DEF P, S
<1>2. row.seq <= LatestSeq(rows)  BY <1>1
<1>3. LatestSeq(rows) <= row.seq  BY <1>1
<1>4. row.seq \in Int /\ LatestSeq(rows) \in Int  BY <1>1 DEF JournalRow
<1> QED BY <1>2, <1>3, <1>4

\* The checkpoint that covers most is the latest.
LEMMA LatestCheckpointIs ==
  ASSUME NEW cps, cps \subseteq Checkpoint, NEW c \in cps,
         \A d \in cps \ {c} : d.uptoSeq < c.uptoSeq
  PROVE LatestCheckpoint(cps) = c
<1>1. \A d \in cps : d.uptoSeq \in Int  BY DEF Checkpoint
<1>2. \A d \in cps \ {c} : Newer(c, d)  BY <1>1 DEF Newer
<1>3. \A d \in cps \ {c} : ~Newer(d, c)  BY <1>1 DEF Newer
<1> DEFINE P(b) == \A d \in cps \ {b} : Newer(b, d)
<1>4. P(c) /\ \A b \in cps : P(b) => b = c  BY <1>2, <1>3
<1>5. LatestCheckpoint(cps) = CHOOSE b \in cps : P(b)  BY DEF LatestCheckpoint
<1> HIDE DEF P
<1> QED BY <1>4, <1>5

\* Recovery starts within the journal, whatever is archived or deleted meanwhile.
LEMMA BaseCovered ==
  ASSUME IInv
  PROVE /\ RecoveryBase(checkpoints) \in [state : State, uptoSeq : 0..MaxSeq]
        /\ RecoveryBase(checkpoints).uptoSeq <= LatestSeq(journal)
        /\ LatestSeq(journal) \in 0..MaxSeq
        /\ \A r \in journal : r.seq <= LatestSeq(journal)
<1>1. TypeOK /\ LatestCheckpointUnique /\ CheckpointsCovered  BY DEF IInv
<1>2. RecoveryBase(checkpoints) \in [state : State, uptoSeq : 0..MaxSeq]
  BY <1>1, RecoveryBaseType
<1>3. LatestSeq(journal) \in 0..MaxSeq /\ \A r \in journal : r.seq <= LatestSeq(journal)
  BY <1>1, LatestSeqType DEF TypeOK
<1>4. CASE checkpoints = {}
  BY <1>2, <1>3, <1>4, BoundsAssumption DEF RecoveryBase, NoBase
<1>5. CASE checkpoints # {}
  <2>1. LatestCheckpoint(checkpoints) \in checkpoints
    BY <1>1, <1>5, LatestCheckpointType DEF TypeOK, LatestCheckpointUnique
  <2> QED BY <1>1, <1>2, <1>3, <1>5, <2>1 DEF RecoveryBase, CheckpointsCovered
<1> QED BY <1>2, <1>3, <1>4, <1>5

\* A checkpoint at the latest seq is what recovery starts from, and nothing
\* is left to replay.
LEMMA RecoveredFrom ==
  ASSUME NEW rows, rows \subseteq JournalRow, NEW cps, cps \subseteq Checkpoint,
         NEW new \in cps, \A r \in rows : r.seq <= new.uptoSeq,
         \A d \in cps \ {new} : d.uptoSeq < new.uptoSeq
  PROVE LatestCheckpoint(cps) = new /\ Replay(RecoveryBase(cps), rows) = new.state
<1>1. LatestCheckpoint(cps) = new  BY LatestCheckpointIs
<1> DEFINE base == RecoveryBase(cps)
<1>2. base = [state |-> new.state, uptoSeq |-> new.uptoSeq]  BY <1>1 DEF RecoveryBase
<1>3. base.state = new.state /\ base.uptoSeq = new.uptoSeq  BY <1>2
<1> HIDE DEF base
<1>4. {r \in rows : r.kind = "write" /\ r.seq > base.uptoSeq} = {}
  <2> SUFFICES ASSUME NEW r \in rows, r.seq > base.uptoSeq PROVE FALSE  OBVIOUS
  <2>1. r.seq \in Int /\ new.uptoSeq \in Int  BY DEF JournalRow, Checkpoint
  <2> QED BY <1>3, <2>1
<1>5. Replay(base, rows) = new.state  BY <1>3, <1>4 DEF Replay
<1> QED BY <1>1, <1>5 DEF base

\* What is saved, each state under its id.
Saved(cps) == {[id |-> k.id, state |-> k.state] : k \in cps}

\* A rewind's checkpoint holds the target's state at the row just appended.
LEMMA RewindRecovers ==
  ASSUME IInv, IInv', NEW c \in Clients, NEW target \in checkpoints, Rewind(c, target)
  PROVE /\ journal' = journal \cup {NewRow("rewind", NoTurn, target.id)}
        /\ checkpoints \subseteq checkpoints'
        /\ RecoveredState' = target.state
        /\ LatestTurnId' = IF HasTurnHint(target) THEN target.turn ELSE NoTurn
        /\ Saved(checkpoints') = Saved(checkpoints) \cup {[id |-> lastId + 1, state |-> target.state]}
        /\ LatestSeq(journal') = NewRow("rewind", NoTurn, target.id).seq
<1> DEFINE row == NewRow("rewind", NoTurn, target.id)
           rows == journal \cup {row}
<1>1. PICK upto : upto = LatestSeq(rows)  OBVIOUS
<1>2. PICK new : new = RewindCheckpoint(target, upto)  OBVIOUS
<1>3. journal' = rows /\ checkpoints' = checkpoints \cup {new} /\ NextSeq(journal) <= MaxSeq
  BY <1>1, <1>2 DEF Rewind
<1>4. TypeOK /\ JournalDense /\ CheckpointsCovered /\ TypeOK'  BY DEF IInv
<1>5. journal' \subseteq JournalRow /\ checkpoints' \subseteq Checkpoint /\ new \in Checkpoint
  BY <1>3, <1>4 DEF TypeOK
<1>6. row \in JournalRow /\ row.seq = NextSeq(journal)  BY <1>3, <1>5 DEF NewRow
<1>7. upto = LatestSeq(journal) + 1
  BY <1>1, <1>3, <1>4, <1>6, AppendRow
<1>8. /\ new.state = target.state /\ new.uptoSeq = upto
      /\ new.scope = IF target.scope = "step" THEN "step" ELSE "rewind"
      /\ new.turn = IF HasTurnHint(target) THEN target.turn ELSE NoTurn
  BY <1>2 DEF RewindCheckpoint, NewCheckpoint
<1>9. \A d \in checkpoints : d.uptoSeq < new.uptoSeq
  <2>1. \A d \in checkpoints : d.uptoSeq \in Int /\ d.uptoSeq <= LatestSeq(journal)
    BY <1>4 DEF CheckpointsCovered, TypeOK, Checkpoint
  <2>2. LatestSeq(journal) \in Int  BY <1>4, LatestSeqType, BoundsAssumption DEF TypeOK
  <2> QED BY <1>7, <1>8, <2>1, <2>2
<1>10. \A r \in journal' : r.seq <= new.uptoSeq
  BY <1>1, <1>3, <1>5, <1>8, LatestSeqType
<1>11. LatestCheckpoint(checkpoints') = new /\ RecoveredState' = new.state
  <2>1. PICK js \in SUBSET JournalRow, cps \in SUBSET Checkpoint :
          js = journal' /\ cps = checkpoints'
    BY <1>5
  <2>2. LatestCheckpoint(cps) = new /\ Replay(RecoveryBase(cps), js) = new.state
    BY <1>3, <1>9, <1>10, <2>1, RecoveredFrom
  <2> QED BY <2>1, <2>2 DEF RecoveredState
<1>12. LatestTurnId' = new.turn
  <2>1. HasTurnHint(new) /\ checkpoints' # {}  BY <1>3, <1>8 DEF HasTurnHint
  <2> QED BY <1>11, <2>1 DEF LatestTurnId
<1>13. Saved(checkpoints') = Saved(checkpoints) \cup {[id |-> lastId + 1, state |-> target.state]}
  <2>1. new.id = lastId + 1  BY <1>2 DEF RewindCheckpoint, NewCheckpoint
  <2> QED BY <1>3, <1>8, <2>1 DEF Saved
<1>14. LatestSeq(journal') = row.seq
  BY <1>1, <1>3, <1>6, <1>7 DEF NextSeq
<1> QED BY <1>3, <1>8, <1>11, <1>12, <1>13, <1>14

\* A rewind takes effect at once and destroys nothing, whichever processes
\* interleave with it: its checkpoint is the one recovery starts from, and
\* every row and checkpoint from before is still there (store.rewind).
THEOREM RewindTakesEffect == Spec => RewindLands
<1> DEFINE Lands ==
      \A r \in journal' \ journal : r.kind = "rewind" =>
          /\ journal \subseteq journal' /\ checkpoints \subseteq checkpoints'
          /\ \E t \in checkpoints :
                /\ t.id = r.target
                /\ RecoveredState' = t.state
                /\ LatestTurnId' = (IF HasTurnHint(t) THEN t.turn ELSE NoTurn)
<1>1. IInv /\ IInv' /\ [Next]_vars => [Lands]_vars
  <2> SUFFICES ASSUME IInv, IInv', Next, NEW r \in journal' \ journal, r.kind = "rewind"
               PROVE /\ journal \subseteq journal' /\ checkpoints \subseteq checkpoints'
                     /\ \E t \in checkpoints :
                           /\ t.id = r.target
                           /\ RecoveredState' = t.state
                           /\ LatestTurnId' = (IF HasTurnHint(t) THEN t.turn ELSE NoTurn)
    OBVIOUS
  <2>1. PICK c \in Clients :
          \/ \E target \in checkpoints : Rewind(c, target)
          \/ \E kind \in {"write", "step"}, turn \in MaybeTurn : Append(c, kind, turn)
          \/ journal' \subseteq journal
    BY DEF Next, ClientStep, Create, BeginWrite, BeginClose, CreateCheckpoint, UpdateMetadata,
           Archive, Delete, Refused, BeginRecover, FinishRecover, Crash
  <2>2. ASSUME NEW kind \in {"write", "step"}, NEW turn \in MaybeTurn, Append(c, kind, turn)
        PROVE FALSE
    <3>1. r = NewRow(kind, turn, 0)  BY <2>2 DEF Append
    <3> QED BY <3>1 DEF NewRow
  <2>3. ASSUME NEW target \in checkpoints, Rewind(c, target)
        PROVE /\ journal \subseteq journal' /\ checkpoints \subseteq checkpoints'
              /\ \E t \in checkpoints :
                    /\ t.id = r.target
                    /\ RecoveredState' = t.state
                    /\ LatestTurnId' = (IF HasTurnHint(t) THEN t.turn ELSE NoTurn)
    <3>1. /\ journal' = journal \cup {NewRow("rewind", NoTurn, target.id)}
          /\ checkpoints \subseteq checkpoints'
          /\ RecoveredState' = target.state
          /\ LatestTurnId' = IF HasTurnHint(target) THEN target.turn ELSE NoTurn
      BY <2>3, RewindRecovers
    <3>2. r.target = target.id  BY <3>1 DEF NewRow
    <3> QED BY <3>1, <3>2
  <2> QED BY <2>1, <2>2, <2>3
<1>2. RewindLands <=> [][Lands]_vars  BY PTL DEF RewindLands
<1> HIDE DEF Lands
<1> QED BY <1>1, <1>2, Invariance, PTL DEF Spec

-----------------------------------------------------------------------------
(* What recovery returns, in terms of the rows alone.                       *)

\* LatestSeq of rows is the seq of one of them.
LEMMA LatestSeqIn ==
  ASSUME NEW rows, rows \subseteq JournalRow, rows # {}
  PROVE \E r \in rows : r.seq = LatestSeq(rows) /\ \A q \in rows : q.seq <= r.seq
<1> DEFINE S == {r.seq : r \in rows}
<1>1. S \subseteq 0..MaxSeq /\ S # {}  BY BoundsAssumption DEF JournalRow
<1>2. PICK m \in S : \A x \in S : x <= m  BY <1>1, MaxExists, BoundsAssumption
<1>3. PICK r \in rows : r.seq = m  OBVIOUS
<1>4. \A q \in rows : q.seq <= r.seq  BY <1>2, <1>3
<1>5. LatestSeq(rows) = r.seq  BY <1>4, LatestSeqIs
<1> QED BY <1>4, <1>5

\* The latest of the rows that change the state decides what is intended.
LEMMA LastEvent ==
  ASSUME NEW rows, rows \subseteq JournalRow, \A r, q \in rows : r.seq = q.seq => r = q,
         NEW cps, NEW row \in Events(rows), \A r \in Events(rows) : r.seq <= row.seq
  PROVE Intended(rows, cps) = IF row.kind = "write" THEN row.seq
                              ELSE StateSaved(row.target, cps)
<1> DEFINE events == Events(rows)
<1>1. events \subseteq rows /\ events \subseteq JournalRow /\ row \in events
  BY DEF Events
<1>2. LatestSeq(events) = row.seq
  <2> HIDE DEF events
  <2> QED BY <1>1, LatestSeqIs DEF events
<1>3. LastOf(events) = row
  <2>1. \A r \in events : r.seq = row.seq => r = row  BY <1>1
  <2> HIDE DEF events
  <2> QED BY <1>1, <1>2, <2>1 DEF LastOf
<1> HIDE DEF events
<1>4. events # {} /\ events = Events(rows)  BY <1>1 DEF events
<1> QED BY <1>3, <1>4 DEF Intended

\* A row that is no event changes nothing of what is intended.
LEMMA StepRowIntended ==
  ASSUME NEW rows, NEW cps, NEW row, row.kind = "step"
  PROVE Events(rows \cup {row}) = Events(rows) /\ Intended(rows \cup {row}, cps) = Intended(rows, cps)
<1>1. Events(rows \cup {row}) = Events(rows)  BY DEF Events
<1> QED BY <1>1 DEF Intended

\* A new checkpoint is not what an earlier rewind went back to.
LEMMA CheckpointIntended ==
  ASSUME NEW rows, rows \subseteq JournalRow, \A r, q \in rows : r.seq = q.seq => r = q,
         NEW cps, NEW new, \A k \in cps : k.id # new.id,
         \A k, d \in cps : k.id = d.id => k = d,
         \A r \in rows : r.kind = "rewind" => \E k \in cps : k.id = r.target
  PROVE Intended(rows, cps \cup {new}) = Intended(rows, cps)
<1>1. CASE Events(rows) = {}
  BY <1>1 DEF Intended
<1>2. CASE Events(rows) # {}
  <2>1. Events(rows) \subseteq JournalRow /\ Events(rows) \subseteq rows  BY DEF Events
  <2>2. PICK row \in Events(rows) : \A r \in Events(rows) : r.seq <= row.seq
    BY <1>2, <2>1, LatestSeqIn
  <2>3. ASSUME row.kind # "write"
        PROVE StateSaved(row.target, cps) = StateSaved(row.target, cps \cup {new})
    <3>1. row.kind = "rewind" /\ row \in rows  BY <2>1, <2>3 DEF Events
    <3>2. PICK k \in cps : k.id = row.target  BY <3>1
    <3>3. \A d \in cps \cup {new} : d.id = row.target => d = k  BY <3>2
    <3>4. (CHOOSE d \in cps : d.id = row.target) = k  BY <3>2, <3>3
    <3>5. (CHOOSE d \in cps \cup {new} : d.id = row.target) = k  BY <3>2, <3>3
    <3> QED BY <3>4, <3>5 DEF StateSaved
  <2>4. /\ Intended(rows, cps) = IF row.kind = "write" THEN row.seq
              ELSE StateSaved(row.target, cps)
        /\ Intended(rows, cps \cup {new}) = IF row.kind = "write" THEN row.seq
              ELSE StateSaved(row.target, cps \cup {new})
    <3>1. PICK all : all = cps \cup {new}  OBVIOUS
    <3>2. /\ Intended(rows, cps) = IF row.kind = "write" THEN row.seq
                ELSE StateSaved(row.target, cps)
          /\ Intended(rows, all) = IF row.kind = "write" THEN row.seq
                ELSE StateSaved(row.target, all)
      BY <2>2, LastEvent
    <3> QED BY <3>1, <3>2
  <2> QED BY <2>3, <2>4
<1> QED BY <1>1, <1>2

\* Replaying one row more: a write is what it yields, any other row nothing.
LEMMA ReplayRow ==
  ASSUME NEW rows, rows \subseteq JournalRow, NEW row \in JournalRow,
         \A r \in rows : r.seq < row.seq,
         NEW base, base.uptoSeq < row.seq
  PROVE Replay(base, rows \cup {row}) = IF row.kind = "write" THEN row.seq ELSE Replay(base, rows)
<1> DEFINE after(rs) == {r \in rs : r.kind = "write" /\ r.seq > base.uptoSeq}
<1>1. CASE row.kind = "write"
  <2>0. \A r \in rows \cup {row} : r.seq \in Int  BY DEF JournalRow
  <2>1. PICK rs : rs = after(rows \cup {row})  OBVIOUS
  <2>2. row \in rs /\ rs \subseteq JournalRow /\ \A r \in rs : r.seq <= row.seq
    BY <1>1, <2>0, <2>1
  <2>3. LatestSeq(rs) = row.seq  BY <2>2, LatestSeqIs
  <2> QED BY <1>1, <2>1, <2>2, <2>3 DEF Replay
<1>2. CASE row.kind # "write"
  <2>1. after(rows \cup {row}) = after(rows)  BY <1>2
  <2> QED BY <1>2, <2>1 DEF Replay
<1> QED BY <1>1, <1>2

\* A checkpoint of the recovered state that covers every event leaves it what it is,
\* whether or not it becomes the latest.
LEMMA CheckpointReplays ==
  ASSUME NEW rows, rows \subseteq JournalRow, NEW cps, NEW new, cps \cup {new} \subseteq Checkpoint,
         \A k, d \in cps : k.uptoSeq = d.uptoSeq => k = d,
         \A k \in cps : k.uptoSeq # new.uptoSeq,
         \A r \in Events(rows) : r.seq <= new.uptoSeq,
         new.state = Replay(RecoveryBase(cps), rows)
  PROVE Replay(RecoveryBase(cps \cup {new}), rows) = Replay(RecoveryBase(cps), rows)
<1>0. \A k \in cps \cup {new} : k.uptoSeq \in Int  BY DEF Checkpoint
<1>1. CASE \A d \in cps : d.uptoSeq < new.uptoSeq
  <2>1. LatestCheckpoint(cps \cup {new}) = new
    <3>1. PICK all : all = cps \cup {new}  OBVIOUS
    <3>2. LatestCheckpoint(all) = new  BY <1>1, <3>1, LatestCheckpointIs
    <3> QED BY <3>1, <3>2
  <2>2. PICK base : base = RecoveryBase(cps \cup {new})  OBVIOUS
  <2>3. base.state = new.state /\ base.uptoSeq = new.uptoSeq
    BY <2>1, <2>2 DEF RecoveryBase
  <2>4. {r \in rows : r.kind = "write" /\ r.seq > base.uptoSeq} = {}
    <3> SUFFICES ASSUME NEW r \in rows, r.kind = "write", r.seq > base.uptoSeq PROVE FALSE
      OBVIOUS
    <3>1. r \in Events(rows)  BY DEF Events
    <3>2. r.seq \in Int /\ r.seq <= new.uptoSeq  BY <3>1 DEF JournalRow
    <3> QED BY <1>0, <2>3, <3>2
  <2>5. Replay(base, rows) = base.state  BY <2>4 DEF Replay
  <2> QED BY <2>2, <2>3, <2>5
<1>2. CASE \E d \in cps : ~(d.uptoSeq < new.uptoSeq)
  <2>1. PICK last : last = LatestCheckpoint(cps)  OBVIOUS
  <2>2. last \in cps /\ \A d \in cps \ {last} : d.uptoSeq < last.uptoSeq
    BY <1>2, <2>1, LatestCheckpointType
  <2>3. new.uptoSeq < last.uptoSeq  BY <1>0, <1>2, <2>2
  <2>4. PICK all : all = cps \cup {new}  OBVIOUS
  <2>5. last \in all /\ \A d \in all \ {last} : d.uptoSeq < last.uptoSeq
    BY <2>2, <2>3, <2>4
  <2>6. LatestCheckpoint(all) = last  BY <2>4, <2>5, LatestCheckpointIs
  <2>7. RecoveryBase(all) = RecoveryBase(cps)
    BY <2>1, <2>2, <2>5, <2>6 DEF RecoveryBase
  <2> QED BY <2>4, <2>7
<1> QED BY <1>1, <1>2

-----------------------------------------------------------------------------
(* The promise to a single process.  Nobody else writes between its steps,  *)
(* so the row and the base it has read are still the session's, and what it *)
(* holds in memory is what recovery would return.                           *)

Alone(c) ==
    /\ client[c].op # "idle" => client[c].row = session
    /\ client[c].op \in Writes => session.status = "active"
    /\ client[c].op = "recover" => client[c].base = RecoveryBase(checkpoints)
    /\ client[c].view # NotLoaded =>
          client[c].view = RecoveredState /\ client[c].seen = LatestSeq(journal)

\* An appended write is what recovery returns from then on; no other row matters.
LEMMA AppendRecovers ==
  ASSUME IInv, IInv', NEW c \in Clients, NEW kind \in {"write", "step"}, NEW turn \in MaybeTurn,
         Append(c, kind, turn)
  PROVE /\ LatestSeq(journal') = NewRow(kind, turn, 0).seq
        /\ RecoveredState' = IF kind = "write" THEN LatestSeq(journal') ELSE RecoveredState
        /\ LatestSeq(journal') \in 0..MaxSeq
<1> DEFINE base == RecoveryBase(checkpoints)
           writes(rows) == {r \in rows : r.kind = "write" /\ r.seq > base.uptoSeq}
<1>1. PICK row : row = NewRow(kind, turn, 0)  OBVIOUS
<1>2. /\ journal' = journal \cup {row} /\ checkpoints' = checkpoints
      /\ NextSeq(journal) <= MaxSeq
  BY <1>1 DEF Append
<1>3. TypeOK /\ JournalDense /\ journal' \subseteq JournalRow  BY DEF IInv, TypeOK
<1>4. row \in JournalRow /\ row.seq = NextSeq(journal) /\ row.kind = kind
  BY <1>1, <1>2, <1>3 DEF NewRow
<1>5. LatestSeq(journal') = LatestSeq(journal) + 1 /\ row.seq = LatestSeq(journal')
  BY <1>2, <1>3, <1>4, AppendRow DEF NextSeq
<1>6. /\ base.uptoSeq \in Int /\ base.uptoSeq <= LatestSeq(journal)
      /\ LatestSeq(journal) \in Int /\ \A r \in journal : r.seq <= LatestSeq(journal)
  BY BaseCovered, BoundsAssumption
<1>7. /\ RecoveredState = IF writes(journal) = {} THEN base.state
                          ELSE LatestSeq(writes(journal))
      /\ RecoveredState' = IF writes(journal') = {} THEN base.state
                           ELSE LatestSeq(writes(journal'))
  BY <1>2 DEF RecoveredState, Replay
<1> HIDE DEF base
<1>8. CASE kind = "write"
  <2>1. row \in writes(journal')  BY <1>2, <1>4, <1>5, <1>6, <1>8
  <2>2. \A r \in writes(journal') : r.seq <= row.seq
    <3>1. \A r \in journal' : r.seq \in Int /\ (r = row \/ r.seq <= LatestSeq(journal))
      BY <1>2, <1>3, <1>6 DEF JournalRow
    <3> QED BY <1>4, <1>5, <1>6, <3>1
  <2>3. LatestSeq(writes(journal')) = row.seq
    <3>1. PICK rows \in SUBSET JournalRow : rows = writes(journal')  BY <1>3
    <3> HIDE DEF writes
    <3> QED BY <2>1, <2>2, <3>1, LatestSeqIs
  <2> QED BY <1>1, <1>4, <1>5, <1>7, <1>8, <2>1, <2>3 DEF JournalRow
<1>9. CASE kind # "write"
  <2>1. writes(journal') = writes(journal)  BY <1>2, <1>4, <1>9
  <2>2. row.seq \in 0..MaxSeq  BY <1>4, BoundsAssumption DEF JournalRow
  <2> HIDE DEF writes
  <2>3. RecoveredState' = RecoveredState  BY <1>7, <2>1
  <2> QED BY <1>1, <1>5, <1>9, <2>2, <2>3
<1> QED BY <1>8, <1>9

\* A checkpoint of what the only process holds saves what recovery returns.
LEMMA CheckpointRecovers ==
  ASSUME IInv, IInv', NEW c \in Clients, Alone(c),
         NEW explicit \in BOOLEAN, NEW turn \in MaybeTurn, CreateCheckpoint(c, explicit, turn)
  PROVE /\ RecoveredState' = RecoveredState
        /\ Saved(checkpoints') = Saved(checkpoints) \cup {[id |-> lastId + 1, state |-> RecoveredState]}
<1>1. client[c].view = RecoveredState /\ client[c].seen = LatestSeq(journal)
  BY DEF Alone, CreateCheckpoint
<1>2. PICK upto : upto = IF explicit THEN client[c].seen ELSE LatestSeq(journal)  OBVIOUS
<1>3. PICK new : new = NewCheckpoint(upto, client[c].view,
                                     IF turn = NoTurn THEN "general" ELSE "step", turn)
  OBVIOUS
<1>4. /\ checkpoints' = checkpoints \cup {new} /\ journal' = journal
      /\ \A k \in checkpoints : k.uptoSeq # upto
  BY <1>2, <1>3 DEF CreateCheckpoint, CheckpointAllowed
<1>5. /\ new.uptoSeq = LatestSeq(journal) /\ new.state = RecoveredState /\ upto = new.uptoSeq
      /\ new.id = lastId + 1
  BY <1>1, <1>2, <1>3 DEF NewCheckpoint
<1>6. checkpoints' \subseteq Checkpoint /\ journal \subseteq JournalRow
  BY DEF IInv, TypeOK
<1>7. \A d \in checkpoints : d.uptoSeq < new.uptoSeq
  <2>1. \A d \in checkpoints : d.uptoSeq \in Int /\ d.uptoSeq <= LatestSeq(journal)
    BY DEF IInv, CheckpointsCovered, TypeOK, Checkpoint
  <2>2. LatestSeq(journal) \in Int  BY BaseCovered, BoundsAssumption
  <2> QED BY <1>4, <1>5, <2>1, <2>2
<1>8. \A r \in journal : r.seq <= new.uptoSeq  BY <1>5, BaseCovered
<1>9. RecoveredState' = new.state
  <2>1. PICK js \in SUBSET JournalRow, cps \in SUBSET Checkpoint :
          js = journal' /\ cps = checkpoints'
    BY <1>4, <1>6
  <2>2. Replay(RecoveryBase(cps), js) = new.state
    BY <1>4, <1>7, <1>8, <2>1, RecoveredFrom
  <2> QED BY <2>1, <2>2 DEF RecoveredState
<1> QED BY <1>4, <1>5, <1>9 DEF Saved

\* A deleted, or not yet created, session recovers to the initial value.
LEMMA EmptyRecovers ==
  ASSUME journal = {}, checkpoints = {}
  PROVE RecoveredState = 0 /\ LatestSeq(journal) = 0
BY DEF RecoveredState, Replay, RecoveryBase, NoBase, LatestSeq

\* What a lone process has read stays current: nothing moves between its steps.
LEMMA AloneStep ==
  ASSUME NEW c, Clients = {c}, IInv, IInv', Alone(c), ClientStep(c)
  PROVE Alone(c)'
<1>c. c \in Clients  OBVIOUS
<1>t. client \in [Clients -> ClientRecord]  BY DEF IInv, TypeOK
<1>1. ASSUME client'[c].op = "idle", client'[c].view = NotLoaded PROVE Alone(c)'
  BY <1>1 DEF Alone, Writes
<1>2. ASSUME client'[c].op = "idle", client'[c].view # NotLoaded =>
                client'[c].view = RecoveredState' /\ client'[c].seen = LatestSeq(journal')
      PROVE Alone(c)'
  BY <1>2 DEF Alone, Writes
<1>3. ASSUME UNCHANGED <<journal, checkpoints>>, Finish(c) PROVE Alone(c)'
  <2>1. /\ client'[c].op = "idle" /\ client'[c].view = client[c].view
        /\ client'[c].seen = client[c].seen
    BY <1>3, <1>c, <1>t DEF Finish, ClientRecord
  <2>2. RecoveredState' = RecoveredState /\ LatestSeq(journal') = LatestSeq(journal)
    BY <1>3 DEF RecoveredState
  <2> QED BY <1>2, <2>1, <2>2 DEF Alone
<1>4. CASE Create(c) \/ Delete(c) \/ Crash(c)
  <2>1. client'[c] = IdleClient  BY <1>4, <1>c, <1>t DEF Create, Delete, Crash
  <2> QED BY <1>1, <2>1 DEF IdleClient
<1>5. ASSUME NEW op \in Writes, BeginWrite(c, op) PROVE Alone(c)'
  <2>1. /\ client'[c].op = op /\ client'[c].row = session /\ client'[c].view = client[c].view
        /\ client'[c].seen = client[c].seen /\ session.status = "active"
        /\ UNCHANGED <<session, journal, checkpoints>>
    BY <1>5, <1>c, <1>t DEF BeginWrite, ClientRecord
  <2>2. RecoveredState' = RecoveredState  BY <2>1 DEF RecoveredState
  <2> QED BY <2>1, <2>2 DEF Alone, Writes
<1>6. ASSUME NEW op \in Closings, BeginClose(c, op) PROVE Alone(c)'
  <2>1. /\ client'[c].op = op /\ client'[c].row = session /\ client'[c].view = client[c].view
        /\ client'[c].seen = client[c].seen
        /\ UNCHANGED <<session, journal, checkpoints>>
    BY <1>6, <1>c, <1>t DEF BeginClose, ClientRecord
  <2>2. RecoveredState' = RecoveredState  BY <2>1 DEF RecoveredState
  <2> QED BY <2>1, <2>2 DEF Alone, Writes, Closings
<1>7. ASSUME NEW kind \in {"write", "step"}, NEW turn \in MaybeTurn, Append(c, kind, turn)
      PROVE Alone(c)'
  <2>1. PICK row : row = NewRow(kind, turn, 0)  OBVIOUS
  <2>2. /\ LatestSeq(journal') = row.seq
        /\ RecoveredState' = IF kind = "write" THEN row.seq ELSE RecoveredState
    BY <1>7, <1>c, <2>1, AppendRecovers
  <2>3. /\ client'[c].op = "idle" /\ client'[c].seen = row.seq
        /\ client'[c].view = IF kind = "write" /\ client[c].view # NotLoaded
                             THEN row.seq ELSE client[c].view
    BY <1>7, <1>c, <1>t, <2>1 DEF Append, ClientRecord
  <2> QED BY <1>2, <2>2, <2>3 DEF Alone
<1>8. ASSUME NEW explicit \in BOOLEAN, NEW turn \in MaybeTurn,
             CreateCheckpoint(c, explicit, turn)
      PROVE Alone(c)'
  <2>1. RecoveredState' = RecoveredState  BY <1>8, <1>c, CheckpointRecovers
  <2>2. journal' = journal /\ Finish(c)  BY <1>8 DEF CreateCheckpoint
  <2>3. /\ client'[c].op = "idle" /\ client'[c].view = client[c].view
        /\ client'[c].seen = client[c].seen
    BY <2>2, <1>c, <1>t DEF Finish, ClientRecord
  <2> QED BY <1>2, <2>1, <2>2, <2>3 DEF Alone
<1>9. ASSUME NEW target \in checkpoints, Rewind(c, target) PROVE Alone(c)'
  <2>1. client'[c].op = "idle" /\ client'[c].view = NotLoaded
    BY <1>9, <1>c, <1>t DEF Rewind, ClientRecord
  <2> QED BY <1>1, <2>1
<1>10. CASE UpdateMetadata(c) \/ Archive(c) \/ Refused(c)
  BY <1>3, <1>10 DEF UpdateMetadata, Archive, Refused
<1>11. CASE BeginRecover(c)
  <2>1. /\ client'[c].op = "recover" /\ client'[c].row = session
        /\ client'[c].view = client[c].view /\ client'[c].seen = client[c].seen
        /\ client'[c].base = RecoveryBase(checkpoints)
        /\ UNCHANGED <<session, journal, checkpoints>>
    BY <1>11, <1>c, <1>t DEF BeginRecover, ClientRecord
  <2>2. RecoveredState' = RecoveredState  BY <2>1 DEF RecoveredState
  <2> QED BY <2>1, <2>2 DEF Alone, Writes
<1>12. CASE FinishRecover(c)
  <2>1. client[c].base = RecoveryBase(checkpoints)  BY <1>12 DEF FinishRecover, Alone
  <2>2. /\ client'[c].op = "idle" /\ client'[c].view = RecoveredState
        /\ client'[c].seen = IF LatestSeq(journal) > client[c].base.uptoSeq
                             THEN LatestSeq(journal) ELSE client[c].base.uptoSeq
        /\ UNCHANGED <<journal, checkpoints>>
    BY <1>12, <1>c, <1>t, <2>1 DEF FinishRecover, ReplayFrom, ClientRecord, RecoveredState
  <2>3. client'[c].seen = LatestSeq(journal)
    <3>1. /\ LatestSeq(journal) \in Int /\ client[c].base.uptoSeq \in Int
          /\ client[c].base.uptoSeq <= LatestSeq(journal)
      BY <2>1, BaseCovered, BoundsAssumption
    <3> QED BY <2>2, <3>1
  <2>4. RecoveredState' = RecoveredState  BY <2>2 DEF RecoveredState
  <2> QED BY <1>2, <2>2, <2>3, <2>4
<1> QED BY <1>4, <1>5, <1>6, <1>7, <1>8, <1>9, <1>10, <1>11, <1>12 DEF ClientStep

\* The rows by what they mean to the owner.
WriteSeqs(rows) == {r.seq : r \in {q \in rows : q.kind = "write"}}
ReturnPairs(rows) == {<<r.seq, r.target>> : r \in {q \in rows : q.kind = "rewind"}}
Held == <<session.status, WriteSeqs(journal), ReturnPairs(journal), RecoveredState,
          Saved(checkpoints)>>

\* One row more, and its seq is a moment after all the others.
LEMMA RowAdded ==
  ASSUME IInv, IInv', NEW row, row \notin journal, journal' = journal \cup {row},
         row.seq = NextSeq(journal)
  PROVE /\ row.seq \in 1..MaxSeq
        /\ Durable!Later(row.seq)
        /\ WriteSeqs(journal') = WriteSeqs(journal) \cup
              (IF row.kind = "write" THEN {row.seq} ELSE {})
        /\ ReturnPairs(journal') = ReturnPairs(journal) \cup
              (IF row.kind = "rewind" THEN {<<row.seq, row.target>>} ELSE {})
<1>1. journal \subseteq JournalRow /\ row \in JournalRow  BY DEF IInv, TypeOK
<1>2. /\ LatestSeq(journal) \in 0..MaxSeq
      /\ \A r \in journal : r.seq \in Int /\ r.seq <= LatestSeq(journal)
  BY <1>1, LatestSeqType DEF JournalRow
<1>3. \A r \in journal : r.seq < row.seq  BY <1>2, BoundsAssumption DEF NextSeq
<1>4. Durable!Later(row.seq)  BY <1>3 DEF Durable!Later
<1>5. row.seq \in 1..MaxSeq  BY <1>1 DEF JournalRow
<1>6. /\ WriteSeqs(journal') = WriteSeqs(journal) \cup
            (IF row.kind = "write" THEN {row.seq} ELSE {})
      /\ ReturnPairs(journal') = ReturnPairs(journal) \cup
            (IF row.kind = "rewind" THEN {<<row.seq, row.target>>} ELSE {})
  BY DEF WriteSeqs, ReturnPairs
<1> QED BY <1>4, <1>5, <1>6

\* The id of the next checkpoint is one the session has not given away.
LEMMA IdFresh ==
  ASSUME IInv, lastId < MaxId
  PROVE lastId + 1 \in 1..MaxId /\ Durable!Fresh(lastId + 1)
<1>1. lastId \in 0..MaxId /\ \A k \in checkpoints : k.id \in Int /\ k.id <= lastId
  BY DEF IInv, TypeOK, LatestCheckpointUnique, Checkpoint
<1>2. \A k \in checkpoints : k.id # lastId + 1  BY <1>1, BoundsAssumption
<1> QED BY <1>1, <1>2, BoundsAssumption DEF Durable!Fresh

\* Every step of a lone process is one of the session's, or changes nothing of it.
LEMMA DurableStep ==
  ASSUME NEW c, Clients = {c}, IInv, IInv', Alone(c), ClientStep(c)
  PROVE Durable!Next \/ UNCHANGED Held
<1>c. c \in Clients  OBVIOUS
<1>s. session \in SessionRow  BY DEF IInv, TypeOK
<1>1. ASSUME UNCHANGED <<journal, checkpoints>>
      PROVE UNCHANGED <<WriteSeqs(journal), ReturnPairs(journal), RecoveredState,
                        Saved(checkpoints)>>
  BY <1>1 DEF RecoveredState
<1>2. CASE Create(c)
  <2>1. session.status = "absent" /\ session'.status = "active" /\ UNCHANGED <<journal, checkpoints>>
    BY <1>2 DEF Create
  <2> QED
    BY <1>1, <2>1 DEF Durable!Next, Durable!Create, WriteSeqs, ReturnPairs, Saved
<1>3. CASE (\E op \in Writes : BeginWrite(c, op)) \/ (\E op \in Closings : BeginClose(c, op))
           \/ Refused(c) \/ BeginRecover(c) \/ FinishRecover(c) \/ Crash(c)
  <2>1. UNCHANGED <<session, journal, checkpoints>>
    BY <1>3 DEF BeginWrite, BeginClose, Refused, BeginRecover, FinishRecover, Crash
  <2> QED BY <1>1, <2>1 DEF Held
<1>4. ASSUME NEW kind \in {"write", "step"}, NEW turn \in MaybeTurn, Append(c, kind, turn)
      PROVE Durable!Next \/ UNCHANGED Held
  <2>1. PICK row : row = NewRow(kind, turn, 0)  OBVIOUS
  <2>2. /\ session.status = "active" /\ UNCHANGED <<session, checkpoints>>
        /\ journal' = journal \cup {row} /\ row.seq = NextSeq(journal) /\ row.kind = kind
    BY <1>4, <2>1 DEF Append, Alone, Writes, NewRow
  <2>3. /\ RecoveredState' = IF kind = "write" THEN row.seq ELSE RecoveredState
    BY <1>4, <1>c, <2>1, AppendRecovers
  <2>4. row \notin journal
    <3>1. LatestSeq(journal) \in Int /\ \A r \in journal : r.seq <= LatestSeq(journal)
      BY BaseCovered, BoundsAssumption
    <3> QED BY <2>2, <3>1 DEF NextSeq
  <2>5. /\ row.seq \in 1..MaxSeq /\ Durable!Later(row.seq)
        /\ WriteSeqs(journal') = WriteSeqs(journal) \cup
              (IF kind = "write" THEN {row.seq} ELSE {})
        /\ ReturnPairs(journal') = ReturnPairs(journal)
    BY <2>2, <2>4, RowAdded
  <2>6. CASE kind = "write"
    <3>1. Durable!Write(row.seq)
      BY <2>2, <2>3, <2>5, <2>6 DEF Durable!Write, WriteSeqs, ReturnPairs, Saved
    <3> QED BY <2>5, <3>1 DEF Durable!Next
  <2>7. CASE kind # "write"
    BY <2>2, <2>3, <2>5, <2>7 DEF Held
  <2> QED BY <2>6, <2>7
<1>5. ASSUME NEW explicit \in BOOLEAN, NEW turn \in MaybeTurn,
             CreateCheckpoint(c, explicit, turn)
      PROVE Durable!Next
  <2>1. session.status = "active" /\ UNCHANGED <<session, journal>> /\ lastId < MaxId
    BY <1>5 DEF CreateCheckpoint, Alone, Writes
  <2>2. /\ RecoveredState' = RecoveredState
        /\ Saved(checkpoints') = Saved(checkpoints) \cup {[id |-> lastId + 1, state |-> RecoveredState]}
    BY <1>5, <1>c, CheckpointRecovers
  <2>3. PICK id \in 1..MaxId : id = lastId + 1 /\ Durable!Fresh(id)
    BY <2>1, IdFresh DEF Durable!Fresh
  <2>4. Durable!Save(id)
    BY <2>1, <2>2, <2>3 DEF Durable!Save, Saved
  <2> QED BY <2>4 DEF Durable!Next
<1>6. ASSUME NEW target \in checkpoints, Rewind(c, target) PROVE Durable!Next
  <2>1. session.status = "active" /\ session'.status = session.status /\ lastId < MaxId
    BY <1>6, <1>s DEF Rewind, ClearObservation, Alone, Writes, SessionRow
  <2>2. PICK row : row = NewRow("rewind", NoTurn, target.id)  OBVIOUS
  <2>3. /\ RecoveredState' = target.state
        /\ Saved(checkpoints') = Saved(checkpoints) \cup {[id |-> lastId + 1, state |-> target.state]}
        /\ journal' = journal \cup {row}
    BY <1>6, <1>c, <2>2, RewindRecovers
  <2>4. row.seq = NextSeq(journal) /\ row.kind = "rewind" /\ row.target = target.id
    BY <2>2 DEF NewRow
  <2>5. row \notin journal
    <3>1. LatestSeq(journal) \in Int /\ \A r \in journal : r.seq <= LatestSeq(journal)
      BY BaseCovered, BoundsAssumption
    <3> QED BY <2>4, <3>1 DEF NextSeq
  <2>6. /\ row.seq \in 1..MaxSeq /\ Durable!Later(row.seq)
        /\ WriteSeqs(journal') = WriteSeqs(journal)
        /\ ReturnPairs(journal') = ReturnPairs(journal) \cup {<<row.seq, target.id>>}
    BY <2>3, <2>4, <2>5, RowAdded
  <2>7. PICK s : s = [id |-> target.id, state |-> target.state]  OBVIOUS
  <2>8. s \in Saved(checkpoints)  BY <2>7 DEF Saved
  <2>9. PICK id \in 1..MaxId : id = lastId + 1 /\ Durable!Fresh(id)
    BY <2>1, IdFresh DEF Durable!Fresh
  <2>10. PICK n \in 1..MaxSeq : n = row.seq  BY <2>6
  <2>11. Durable!GoBack(n, s, id)
    BY <2>1, <2>3, <2>6, <2>7, <2>9, <2>10
       DEF Durable!GoBack, Durable!Later, WriteSeqs, ReturnPairs, Saved
  <2> QED BY <2>8, <2>11 DEF Durable!Next, Saved
<1>7. CASE UpdateMetadata(c)
  <2>1. session'.status = session.status /\ UNCHANGED <<journal, checkpoints>>
    BY <1>7, <1>s DEF UpdateMetadata, SessionRow
  <2> QED BY <1>1, <2>1 DEF Held
<1>8. CASE Archive(c)
  <2>1. client[c].row = session /\ UNCHANGED <<journal, checkpoints>>
    BY <1>8 DEF Archive, Alone
  <2>2. \/ session' = session
        \/ session.status = "active" /\ session'.status = "archived"
    BY <1>8, <1>s, <2>1 DEF Archive, ForeignKeyHolds, SessionRow, Statuses
  <2> QED
    BY <1>1, <2>1, <2>2 DEF Durable!Next, Durable!Archive, Held, WriteSeqs, ReturnPairs, Saved
<1>9. CASE Delete(c)
  <2>1. /\ session.status # "absent" /\ session'.status = "absent"
        /\ journal' = {} /\ checkpoints' = {}
    BY <1>9 DEF Delete, ForeignKeyHolds, AbsentRow
  <2>2. RecoveredState' = 0
    BY <2>1 DEF RecoveredState, Replay, RecoveryBase, NoBase
  <2>3. Durable!Delete  BY <2>1, <2>2 DEF Durable!Delete
  <2> QED BY <2>3 DEF Durable!Next
<1> QED BY <1>2, <1>3, <1>4, <1>5, <1>6, <1>7, <1>8, <1>9 DEF ClientStep

\* SessionStore used by one process keeps DurableSession's promise: recovery
\* returns the last write, or what the last rewind went back to, and no write,
\* rewind or saved state is forgotten, whatever is checkpointed, archived,
\* refused, recovered or lost in a crash in between (recovery.ts, store.rewind;
\* test "replays journal after latest checkpoint").
THEOREM DurableForOne ==
  ASSUME NEW c, Clients = {c}
  PROVE Spec => DurableSpec
<1>1. Init => Durable!Init /\ Alone(c)
  <2> SUFFICES ASSUME Init PROVE Durable!Init /\ Alone(c)  OBVIOUS
  <2>1. RecoveredState = 0  BY EmptyRecovers DEF Init
  <2>2. client[c].op = "idle" /\ client[c].view = NotLoaded  BY DEF Init, IdleClient
  <2> QED BY <2>1, <2>2 DEF Init, Durable!Init, AbsentRow, Alone, Writes
<1>2. IInv /\ IInv' /\ Alone(c) /\ [Next]_vars => [Durable!Next]_(Durable!vars) /\ Alone(c)'
  <2> SUFFICES ASSUME IInv, IInv', Alone(c), [Next]_vars
               PROVE [Durable!Next]_(Durable!vars) /\ Alone(c)'
    OBVIOUS
  <2>1. CASE UNCHANGED vars
    BY <2>1 DEF vars, Durable!vars, Alone, RecoveredState
  <2>2. CASE ClientStep(c)
    BY <2>2, AloneStep, DurableStep DEF Durable!vars, Held, WriteSeqs, ReturnPairs, Saved
  <2> QED BY <2>1, <2>2 DEF Next
<1> QED BY <1>1, <1>2, Invariance, PTL DEF Spec, DurableSpec, Durable!Spec

-----------------------------------------------------------------------------
(* Recovery beside other processes.  RecoveryFaithful alone says nothing of  *)
(* a process between the two reads of recover, nor which rows a process that *)
(* saves its state covers, nor that the target of a rewind is still there.   *)

TargetsSaved == \A r \in journal : r.kind = "rewind" => \E k \in checkpoints : k.id = r.target

UpToDate(c) ==
    /\ client[c].op # "recover" /\ client[c].view # NotLoaded =>
          /\ client[c].view = Intended(journal, checkpoints)
          /\ \A r \in Events(journal) : r.seq <= client[c].seen
    /\ client[c].op = "recover" =>
          /\ Replay(client[c].base, journal) = Intended(journal, checkpoints)
          /\ client[c].base.uptoSeq <= LatestSeq(journal)

HInv ==
    /\ behind \in [Clients -> BOOLEAN] /\ lost \in BOOLEAN
    /\ TargetsSaved
    /\ ~lost => /\ RecoveredState = Intended(journal, checkpoints)
                /\ \A c \in Clients : ~behind[c] => UpToDate(c)

\* A step that leaves rows and checkpoints alone, and the other processes with them.
LEMMA QuietStep ==
  ASSUME IInv, HInv, NEW c \in Clients, Remember(c), UNCHANGED <<journal, checkpoints>>, ~Deleted,
         \A d \in Clients \ {c} : client'[d] = client[d],
         ~lost /\ ~behind'[c] => UpToDate(c)'
  PROVE HInv'
<1>1. ~Appended("rewind") /\ ~Appended("write")  BY DEF Appended
<1>2. /\ lost' = lost
      /\ behind' \in [Clients -> BOOLEAN] /\ lost' \in BOOLEAN
      /\ \A d \in Clients \ {c} : behind'[d] = behind[d]
  BY <1>1 DEF Remember, MissedBy, HInv
<1>3. TargetsSaved'  BY DEF HInv, TargetsSaved
<1>4. RecoveredState' = RecoveredState  BY DEF RecoveredState
<1>5. ASSUME NEW d \in Clients, ~lost, ~behind'[d] PROVE UpToDate(d)'
  <2>1. CASE d = c  BY <1>5, <2>1
  <2>2. CASE d # c
    <3>1. UpToDate(d) /\ client'[d] = client[d]  BY <1>2, <1>5, <2>2 DEF HInv
    <3> QED BY <3>1 DEF UpToDate
  <2> QED BY <2>1, <2>2
<1> QED BY <1>2, <1>3, <1>4, <1>5 DEF HInv

\* A process that holds nothing is up to date.
LEMMA HoldsNothing ==
  ASSUME NEW c, client'[c].op # "recover", client'[c].view = NotLoaded
  PROVE UpToDate(c)'
BY DEF UpToDate

\* What a process holds is up to date after a step if it was and the step is quiet.
LEMMA HoldsStill ==
  ASSUME NEW c, UpToDate(c), UNCHANGED <<journal, checkpoints>>,
         client[c].op # "recover", client'[c].op # "recover",
         client'[c].view = client[c].view, client'[c].seen = client[c].seen
  PROVE UpToDate(c)'
BY DEF UpToDate

\* The steps that leave rows and checkpoints alone.
LEMMA QuietSteps ==
  ASSUME IInv, IInv', HInv, NEW c \in Clients, Remember(c),
         \/ Create(c)
         \/ \E op \in Writes : BeginWrite(c, op)
         \/ \E op \in Closings : BeginClose(c, op)
         \/ UpdateMetadata(c) \/ Archive(c) \/ Refused(c)
         \/ BeginRecover(c) \/ FinishRecover(c) \/ Crash(c)
  PROVE HInv'
<1>t. client \in [Clients -> ClientRecord] /\ session \in SessionRow  BY DEF IInv, TypeOK
<1>b. behind'[c] = (behind[c] /\ client'[c].op # "recover")  BY DEF Remember
<1>1. CASE Create(c) \/ Crash(c)
  <2>1. client'[c] = IdleClient /\ \A d \in Clients \ {c} : client'[d] = client[d]
    BY <1>1, <1>t DEF Create, Crash
  <2>2. UNCHANGED <<journal, checkpoints>> /\ ~Deleted
    BY <1>1 DEF Create, Crash, Deleted
  <2>3. UpToDate(c)'  BY <2>1, HoldsNothing DEF IdleClient
  <2> QED BY <2>1, <2>2, <2>3, QuietStep
<1>2. CASE (\E op \in Writes : BeginWrite(c, op)) \/ (\E op \in Closings : BeginClose(c, op))
  <2>1. /\ client[c].op # "recover" /\ client'[c].op # "recover"
        /\ client'[c].view = client[c].view /\ client'[c].seen = client[c].seen
        /\ \A d \in Clients \ {c} : client'[d] = client[d]
    <3>1. PICK op \in Writes \cup Closings :
            /\ client[c].op = "idle"
            /\ client' = [client EXCEPT ![c] = [@ EXCEPT !.op = op, !.row = session]]
      BY <1>2 DEF BeginWrite, BeginClose
    <3>2. op # "recover"  BY DEF Writes, Closings
    <3> QED BY <1>t, <3>1, <3>2 DEF ClientRecord
  <2>2. UNCHANGED <<journal, checkpoints>> /\ ~Deleted
    BY <1>2 DEF BeginWrite, BeginClose, Deleted
  <2>3. ~lost /\ ~behind'[c] => UpToDate(c)'
    BY <1>b, <2>1, <2>2, HoldsStill DEF HInv
  <2> QED BY <2>1, <2>2, <2>3, QuietStep
<1>3. CASE UpdateMetadata(c) \/ Archive(c) \/ Refused(c)
  <2>1. /\ client[c].op # "recover" /\ client'[c].op # "recover"
        /\ client'[c].view = client[c].view /\ client'[c].seen = client[c].seen
        /\ \A d \in Clients \ {c} : client'[d] = client[d]
    <3>1. Finish(c) /\ client[c].op # "recover"
      BY <1>3 DEF UpdateMetadata, Archive, Refused, Writes, Closings
    <3> QED BY <1>t, <3>1 DEF Finish, ClientRecord
  <2>2. UNCHANGED <<journal, checkpoints>>
    BY <1>3 DEF UpdateMetadata, Archive, Refused
  <2>3. ~Deleted
    BY <1>3, <1>t DEF UpdateMetadata, Archive, Refused, Deleted, SessionRow, Statuses
  <2>4. ~lost /\ ~behind'[c] => UpToDate(c)'
    BY <1>b, <2>1, <2>2, HoldsStill DEF HInv
  <2> QED BY <2>1, <2>2, <2>3, <2>4, QuietStep
<1>4. CASE BeginRecover(c)
  <2>1. /\ client'[c].op = "recover" /\ client'[c].base = RecoveryBase(checkpoints)
        /\ \A d \in Clients \ {c} : client'[d] = client[d]
    BY <1>4, <1>t DEF BeginRecover, ClientRecord
  <2>2. UNCHANGED <<journal, checkpoints>> /\ ~Deleted
    BY <1>4 DEF BeginRecover, Deleted
  <2>3. ~lost => UpToDate(c)'
    BY <2>1, <2>2, BaseCovered DEF HInv, UpToDate, RecoveredState
  <2> QED BY <2>1, <2>2, <2>3, QuietStep
<1>5. CASE FinishRecover(c)
  <2>1. /\ client[c].op = "recover" /\ client'[c].op = "idle"
        /\ client'[c].view = Replay(client[c].base, journal)
        /\ client'[c].seen = IF LatestSeq(journal) > client[c].base.uptoSeq
                             THEN LatestSeq(journal) ELSE client[c].base.uptoSeq
        /\ \A d \in Clients \ {c} : client'[d] = client[d]
    BY <1>5, <1>t DEF FinishRecover, ReplayFrom, ClientRecord
  <2>2. UNCHANGED <<journal, checkpoints>> /\ ~Deleted
    BY <1>5 DEF FinishRecover, Deleted
  <2>3. ASSUME ~lost, ~behind'[c] PROVE UpToDate(c)'
    <3>1. UpToDate(c)  BY <1>b, <2>1, <2>3 DEF HInv
    <3>2. client[c].base.uptoSeq \in Int  BY <1>t, BoundsAssumption DEF ClientRecord
    <3>3. client'[c].seen = LatestSeq(journal)
      BY <2>1, <3>1, <3>2, BaseCovered, BoundsAssumption DEF UpToDate
    <3>4. \A r \in Events(journal) : r.seq <= LatestSeq(journal)
      BY BaseCovered DEF Events
    <3> QED BY <2>1, <2>2, <3>1, <3>3, <3>4 DEF UpToDate
  <2> QED BY <2>1, <2>2, <2>3, QuietStep
<1> QED BY <1>1, <1>2, <1>3, <1>4, <1>5

\* A row: a write is the state of whoever knows of it, another row of nobody.
LEMMA AppendKeeps ==
  ASSUME IInv, IInv', HInv, NEW c \in Clients, Remember(c),
         NEW kind \in {"write", "step"}, NEW turn \in MaybeTurn, Append(c, kind, turn)
  PROVE HInv'
<1>t. client \in [Clients -> ClientRecord] /\ journal \subseteq JournalRow
  BY DEF IInv, TypeOK
<1>1. PICK row : row = NewRow(kind, turn, 0)  OBVIOUS
<1>2. /\ journal' = journal \cup {row} /\ UNCHANGED <<session, checkpoints>>
      /\ row.kind = kind /\ row.seq = LatestSeq(journal) + 1
  BY <1>1 DEF Append, NewRow, NextSeq
<1>3. /\ client[c].op = "append" /\ client'[c].op = "idle" /\ client'[c].seen = row.seq
      /\ client'[c].view = IF kind = "write" /\ client[c].view # NotLoaded
                           THEN row.seq ELSE client[c].view
      /\ \A d \in Clients \ {c} : client'[d] = client[d]
  BY <1>1, <1>t DEF Append, ClientRecord
<1>4. row \in JournalRow  BY <1>2 DEF IInv, TypeOK
<1>5. /\ LatestSeq(journal) \in Int
      /\ \A r \in journal : r.seq \in Int /\ r.seq <= LatestSeq(journal) /\ r.seq < row.seq
  BY <1>2, <1>t, BaseCovered, BoundsAssumption DEF JournalRow
<1>6. row \notin journal  BY <1>4, <1>5 DEF JournalRow
<1>7. ~Deleted /\ ~Appended("rewind") /\ (Appended("write") <=> kind = "write")
  BY <1>2, <1>6 DEF Deleted, Appended
<1>8. /\ lost' = lost /\ lost' \in BOOLEAN /\ behind' \in [Clients -> BOOLEAN]
      /\ behind'[c] = behind[c]
      /\ \A d \in Clients \ {c} :
            ~behind'[d] => ~behind[d] /\ (kind = "write" => client[d].op = "recover")
  BY <1>2, <1>3, <1>7 DEF Remember, MissedBy, HInv
<1>9. TargetsSaved'  BY <1>2 DEF HInv, TargetsSaved
<1>10. /\ LatestSeq(journal') = row.seq
       /\ RecoveredState' = IF kind = "write" THEN row.seq ELSE RecoveredState
  BY <1>1, AppendRecovers
<1>11. /\ \A r \in Events(journal') : r.seq <= row.seq
       /\ Intended(journal', checkpoints) =
             IF kind = "write" THEN row.seq ELSE Intended(journal, checkpoints)
       /\ kind # "write" => Events(journal') = Events(journal)
  <2>1. \A r \in Events(journal') : r.seq <= row.seq
    BY <1>2, <1>4, <1>5 DEF Events, JournalRow
  <2>2. PICK js : js = journal'  OBVIOUS
  <2>3. /\ js \subseteq JournalRow /\ \A r, q \in js : r.seq = q.seq => r = q
        /\ \A r \in Events(js) : r.seq <= row.seq
    BY <2>1, <2>2 DEF IInv, TypeOK, JournalDense
  <2>4. CASE kind = "write"
    <3>1. row \in Events(js)  BY <1>2, <2>2, <2>4 DEF Events
    <3>2. Intended(js, checkpoints) = row.seq  BY <1>2, <2>3, <2>4, <3>1, LastEvent
    <3> QED BY <2>1, <2>2, <2>4, <3>2
  <2>5. CASE kind # "write"
    <3>1. row.kind = "step"  BY <1>2, <2>5
    <3>2. /\ Events(journal \cup {row}) = Events(journal)
          /\ Intended(journal \cup {row}, checkpoints) = Intended(journal, checkpoints)
      BY <3>1, StepRowIntended
    <3> QED BY <1>2, <2>1, <2>5, <3>2
  <2> QED BY <2>4, <2>5
<1>12. ASSUME NEW d \in Clients, ~lost, ~behind'[d] PROVE UpToDate(d)'
  <2>1. UpToDate(d)  BY <1>8, <1>12 DEF HInv
  <2>2. CASE d = c
    <3>1. client'[d].view # NotLoaded => client'[d].view = Intended(journal', checkpoints')
      BY <1>2, <1>3, <1>11, <2>1, <2>2 DEF UpToDate
    <3> QED BY <1>3, <1>11, <2>2, <3>1 DEF UpToDate
  <2>3. CASE d # c /\ client[d].op # "recover"
    <3>1. kind # "write" /\ client'[d] = client[d]  BY <1>3, <1>8, <1>12, <2>3
    <3> QED BY <1>2, <1>11, <2>1, <2>3, <3>1 DEF UpToDate
  <2>4. CASE d # c /\ client[d].op = "recover"
    <3>1. client'[d] = client[d]  BY <1>3, <2>4
    <3>2. PICK base : base = client[d].base  OBVIOUS
    <3>3. base.uptoSeq \in Int /\ base.uptoSeq <= LatestSeq(journal)
      BY <1>t, <2>1, <2>4, <3>2, BoundsAssumption DEF UpToDate, ClientRecord
    <3>4. base.uptoSeq < row.seq /\ base.uptoSeq <= row.seq  BY <1>2, <1>5, <3>3
    <3>5. Replay(base, journal \cup {row}) =
             IF kind = "write" THEN row.seq ELSE Replay(base, journal)
      BY <1>2, <1>4, <1>5, <1>t, <3>4, ReplayRow
    <3>6. Replay(base, journal) = Intended(journal, checkpoints)
      BY <2>1, <2>4, <3>2 DEF UpToDate
    <3>7. Replay(base, journal') = Intended(journal', checkpoints')
      BY <1>2, <1>11, <3>5, <3>6
    <3> QED BY <1>10, <2>4, <3>1, <3>2, <3>4, <3>7 DEF UpToDate
  <2> QED BY <2>2, <2>3, <2>4
<1>13. ~lost => RecoveredState' = Intended(journal', checkpoints')
  BY <1>2, <1>10, <1>11 DEF HInv
<1> QED BY <1>8, <1>9, <1>12, <1>13 DEF HInv

\* A process that is up to date saves the intended state; any other is remembered.
LEMMA SaveKeeps ==
  ASSUME IInv, IInv', HInv, NEW c \in Clients, Remember(c),
         NEW explicit \in BOOLEAN, NEW turn \in MaybeTurn, CreateCheckpoint(c, explicit, turn)
  PROVE HInv'
<1>t. client \in [Clients -> ClientRecord] /\ journal \subseteq JournalRow
  BY DEF IInv, TypeOK
<1>1. PICK upto : upto = IF explicit THEN client[c].seen ELSE LatestSeq(journal)  OBVIOUS
<1>2. PICK new : new = NewCheckpoint(upto, client[c].view,
                                     IF turn = NoTurn THEN "general" ELSE "step", turn)
  OBVIOUS
<1>3. /\ checkpoints' = checkpoints \cup {new} /\ UNCHANGED <<session, journal>>
      /\ client[c].op = "checkpoint" /\ client[c].view # NotLoaded /\ Finish(c)
      /\ \A k \in checkpoints : k.uptoSeq # upto
  BY <1>1, <1>2 DEF CreateCheckpoint, CheckpointAllowed
<1>4. new.uptoSeq = upto /\ new.state = client[c].view /\ new.id = lastId + 1
  BY <1>2 DEF NewCheckpoint
<1>5. /\ client'[c].op = "idle" /\ client'[c].view = client[c].view
      /\ client'[c].seen = client[c].seen
      /\ \A d \in Clients \ {c} : client'[d] = client[d]
  BY <1>3, <1>t DEF Finish, ClientRecord
<1>6. new \notin checkpoints /\ \A k \in checkpoints : k.id # new.id
  <2>1. \A k \in checkpoints : k.id \in Int /\ k.id <= lastId
    BY DEF IInv, TypeOK, LatestCheckpointUnique, Checkpoint
  <2>2. lastId \in Int  BY BoundsAssumption DEF IInv, TypeOK
  <2> QED BY <1>4, <2>1, <2>2
<1>7. ~Deleted /\ ~Appended("rewind") /\ ~Appended("write")
  BY <1>3 DEF Deleted, Appended
<1>8. /\ lost' = (lost \/ behind[c]) /\ behind' \in [Clients -> BOOLEAN]
      /\ \A d \in Clients : behind'[d] = behind[d]
  BY <1>3, <1>5, <1>6, <1>7 DEF Remember, MissedBy, HInv
<1>9. lost' \in BOOLEAN  BY <1>8 DEF HInv
<1>10. TargetsSaved'  BY <1>3 DEF HInv, TargetsSaved
<1>11. Intended(journal, checkpoints') = Intended(journal, checkpoints)
  <2>1. \A r, q \in journal : r.seq = q.seq => r = q  BY DEF IInv, JournalDense
  <2>2. \A k, d \in checkpoints : k.id = d.id => k = d  BY DEF IInv, LatestCheckpointUnique
  <2>3. \A r \in journal : r.kind = "rewind" => \E k \in checkpoints : k.id = r.target
    BY DEF HInv, TargetsSaved
  <2>4. Intended(journal, checkpoints \cup {new}) = Intended(journal, checkpoints)
    BY <1>t, <1>6, <2>1, <2>2, <2>3, CheckpointIntended
  <2> QED BY <1>3, <2>4
<1>12. ASSUME ~lost, ~behind[c] PROVE RecoveredState' = Intended(journal', checkpoints')
  <2>1. UpToDate(c) /\ RecoveredState = Intended(journal, checkpoints)  BY <1>12 DEF HInv
  <2>2. new.state = RecoveredState /\ \A r \in Events(journal) : r.seq <= client[c].seen
    BY <1>3, <1>4, <2>1 DEF UpToDate
  <2>3. \A r \in Events(journal) : r.seq <= upto
    BY <1>1, <2>2, BaseCovered DEF Events
  <2>4. \A k, d \in checkpoints : k.uptoSeq = d.uptoSeq => k = d
    BY DEF IInv, LatestCheckpointUnique
  <2>5. checkpoints \cup {new} \subseteq Checkpoint  BY <1>3 DEF IInv, TypeOK
  <2>6. Replay(RecoveryBase(checkpoints \cup {new}), journal) = Replay(RecoveryBase(checkpoints), journal)
    BY <1>t, <1>3, <1>4, <2>2, <2>3, <2>4, <2>5, CheckpointReplays DEF RecoveredState
  <2>7. RecoveredState' = RecoveredState  BY <1>3, <2>6 DEF RecoveredState
  <2> QED BY <1>3, <1>11, <2>1, <2>7
<1>13. ASSUME NEW d \in Clients, ~lost, ~behind[d] PROVE UpToDate(d)'
  <2>1. UpToDate(d)  BY <1>13 DEF HInv
  <2>2. CASE d = c
    BY <1>3, <1>5, <1>11, <2>1, <2>2 DEF UpToDate
  <2>3. CASE d # c
    <3>1. client'[d] = client[d]  BY <1>5, <2>3
    <3> QED BY <1>3, <1>11, <2>1, <3>1 DEF UpToDate
  <2> QED BY <2>2, <2>3
<1> QED BY <1>8, <1>9, <1>10, <1>12, <1>13 DEF HInv

\* A rewind leaves the others behind, and makes what it went back to the intended state.
LEMMA RewindKeeps ==
  ASSUME IInv, IInv', HInv, NEW c \in Clients, Remember(c),
         NEW target \in checkpoints, Rewind(c, target)
  PROVE HInv'
<1>t. client \in [Clients -> ClientRecord] /\ session \in SessionRow  BY DEF IInv, TypeOK
<1>1. PICK row : row = NewRow("rewind", NoTurn, target.id)  OBVIOUS
<1>2. /\ journal' = journal \cup {row} /\ checkpoints \subseteq checkpoints'
      /\ RecoveredState' = target.state /\ LatestSeq(journal') = row.seq
  BY <1>1, RewindRecovers
<1>3. row.kind = "rewind" /\ row.target = target.id /\ row.seq = LatestSeq(journal) + 1
  BY <1>1 DEF NewRow, NextSeq
<1>4. row \notin journal
  <2>1. LatestSeq(journal) \in Int /\ \A r \in journal : r.seq <= LatestSeq(journal)
    BY BaseCovered, BoundsAssumption
  <2> QED BY <1>3, <2>1
<1>5. Appended("rewind")  BY <1>2, <1>3, <1>4 DEF Appended
<1>6. ~Deleted  BY <1>t DEF Rewind, ClearObservation, Deleted, SessionRow
<1>7. client'[c].op = "idle" /\ client'[c].view = NotLoaded
  BY <1>t DEF Rewind, ClientRecord
<1>8. /\ behind' \in [Clients -> BOOLEAN] /\ lost' = lost /\ lost' \in BOOLEAN
      /\ \A d \in Clients \ {c} : behind'[d]
  BY <1>5, <1>6 DEF Remember, MissedBy, HInv
<1>9. TargetsSaved'  BY <1>2, <1>3 DEF HInv, TargetsSaved
<1>10. Intended(journal', checkpoints') = target.state
  <2>1. PICK js, cps : js = journal' /\ cps = checkpoints'  OBVIOUS
  <2>2. /\ js \subseteq JournalRow /\ \A r, q \in js : r.seq = q.seq => r = q
        /\ \A r \in js : r.seq <= row.seq
    BY <1>2, <2>1, BaseCovered, LatestSeqType DEF IInv, TypeOK, JournalDense
  <2>3. row \in Events(js) /\ \A r \in Events(js) : r.seq <= row.seq
    BY <1>2, <1>3, <2>1, <2>2 DEF Events
  <2>4. Intended(js, cps) = StateSaved(target.id, cps)
    BY <1>3, <2>2, <2>3, LastEvent
  <2>5. target \in cps /\ \A k \in cps : k.id = target.id => k = target
    BY <1>2, <2>1 DEF IInv, LatestCheckpointUnique
  <2>6. (CHOOSE k \in cps : k.id = target.id) = target  BY <2>5
  <2> QED BY <2>1, <2>4, <2>6 DEF StateSaved
<1>11. ASSUME NEW d \in Clients, ~behind'[d] PROVE UpToDate(d)'
  BY <1>7, <1>8, <1>11, HoldsNothing
<1> QED BY <1>2, <1>8, <1>9, <1>10, <1>11 DEF HInv

\* A delete leaves nothing to recover, and the others behind.
LEMMA DeleteKeeps ==
  ASSUME IInv, HInv, NEW c \in Clients, Remember(c), Delete(c)
  PROVE HInv'
<1>t. client \in [Clients -> ClientRecord]  BY DEF IInv, TypeOK
<1>1. journal' = {} /\ checkpoints' = {} /\ Deleted
  BY DEF Delete, Deleted, ForeignKeyHolds, AbsentRow
<1>2. client'[c].op = "idle" /\ client'[c].view = NotLoaded
  BY <1>t DEF Delete, IdleClient
<1>3. /\ behind' \in [Clients -> BOOLEAN] /\ lost' = FALSE
      /\ \A d \in Clients \ {c} : behind'[d]
  BY <1>1 DEF Remember, MissedBy, HInv
<1>4. RecoveredState' = Intended(journal', checkpoints')
  <2>1. Events(journal') = {}  BY <1>1 DEF Events
  <2>2. Intended(journal', checkpoints') = 0  BY <2>1 DEF Intended
  <2>3. RecoveredState' = 0  BY <1>1 DEF RecoveredState, Replay, RecoveryBase, NoBase
  <2> QED BY <2>2, <2>3
<1>5. ASSUME NEW d \in Clients, ~behind'[d] PROVE UpToDate(d)'
  BY <1>2, <1>3, <1>5, HoldsNothing
<1>6. TargetsSaved'  BY <1>1 DEF TargetsSaved
<1> QED BY <1>3, <1>4, <1>5, <1>6 DEF HInv

\* The history only remembers: every behaviour with it is one of the store.
THEOREM HistoryRemembers == SpecH => Spec
<1>1. InitH => Init  BY DEF InitH
<1>2. [NextH]_varsH => [Next]_vars  BY DEF NextH, Next, varsH, vars
<1> QED BY <1>1, <1>2, PTL DEF SpecH, Spec

\* Among any number of processes recovery returns the last write or what was
\* last rewound to, and a process that no other has overtaken holds it, until
\* a process that was overtaken saves its state (recoverSessionState).
THEOREM Faithful == SpecH => []RecoveryFaithful
<1>1. InitH => HInv
  <2> SUFFICES ASSUME InitH PROVE HInv  OBVIOUS
  <2>1. RecoveredState = 0  BY EmptyRecovers DEF InitH, Init
  <2>2. Events(journal) = {}  BY DEF InitH, Init, Events
  <2>3. Intended(journal, checkpoints) = 0  BY <2>2 DEF Intended
  <2>4. \A c \in Clients : client[c].op = "idle" /\ client[c].view = NotLoaded
    BY DEF InitH, Init, IdleClient
  <2>5. \A c \in Clients : UpToDate(c)  BY <2>4 DEF UpToDate
  <2>6. TargetsSaved  BY DEF InitH, Init, TargetsSaved
  <2> QED BY <2>1, <2>3, <2>5, <2>6 DEF InitH, HInv
<1>2. IInv /\ IInv' /\ HInv /\ [NextH]_varsH => HInv'
  <2> SUFFICES ASSUME IInv, IInv', HInv, [NextH]_varsH PROVE HInv'  OBVIOUS
  <2>1. CASE UNCHANGED varsH
    BY <2>1 DEF varsH, vars, HInv, TargetsSaved, UpToDate, RecoveredState
  <2>2. CASE NextH
    <3>1. PICK c \in Clients : ClientStep(c) /\ Remember(c)  BY <2>2 DEF NextH
    <3> QED BY <3>1, QuietSteps, AppendKeeps, SaveKeeps, RewindKeeps, DeleteKeeps DEF ClientStep
  <2> QED BY <2>1, <2>2
<1>3. HInv => RecoveryFaithful  BY DEF HInv, UpToDate, RecoveryFaithful
<1> QED BY <1>1, <1>2, <1>3, HistoryRemembers, Invariance, PTL DEF SpecH
=============================================================================
