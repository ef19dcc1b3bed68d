--------------------------- MODULE SessionHistory ---------------------------
(***************************************************************************)
(* SessionStore with two history variables, which say what a process could *)
(* know of the session.  No guard reads them: SpecH is Spec with a memory. *)
(***************************************************************************)
EXTENDS SessionStore

VARIABLES
    behind,   \* per process: another one changed the session after it was read
    lost      \* a checkpoint was saved by a process that was behind

varsH == <<vars, behind, lost>>

Appended(kind) == \E r \in journal' \ journal : r.kind = kind
Deleted == session.status # "absent" /\ session'.status = "absent"

\* A write that falls between the two reads of recover is read by the second:
\* it leaves the process up to date.  A rewind or a delete there does not.
MissedBy(d) ==
    \/ Appended("rewind") \/ Deleted
    \/ Appended("write") /\ client[d].op # "recover"

\* What a step of c leaves remembered; to begin to recover is to catch up.
Remember(c) ==
    /\ behind' = [d \in Clients |->
          IF d = c THEN behind[c] /\ client'[c].op # "recover"
                   ELSE behind[d] \/ MissedBy(d)]
    /\ lost' = (~Deleted /\ (lost \/ (/\ behind[c]
                                      /\ checkpoints' # checkpoints
                                      /\ ~Appended("rewind"))))

InitH == Init /\ behind = [c \in Clients |-> FALSE] /\ lost = FALSE
NextH == \E c \in Clients : ClientStep(c) /\ Remember(c)
SpecH == InitH /\ [][NextH]_varsH

-----------------------------------------------------------------------------
(* Properties.                                                              *)

\* The rows that change the state, and the state they leave: the last write,
\* or what the last rewind went back to.  No checkpoint decides it.
Events(rows) == {r \in rows : r.kind \in {"write", "rewind"}}
LastOf(rows) == CHOOSE r \in rows : r.seq = LatestSeq(rows)
StateSaved(id, cps) == (CHOOSE k \in cps : k.id = id).state

Intended(rows, cps) ==
    IF Events(rows) = {} THEN 0
    ELSE LET last == LastOf(Events(rows))
         IN  IF last.kind = "write" THEN last.seq ELSE StateSaved(last.target, cps)

\* Recovery returns the last write or what was last rewound to, whatever other
\* processes append, checkpoint, rewind or delete between any two steps; and a
\* process holds that state unless another one changed it since (or rewound or
\* deleted between the two reads of its recover).  It holds until a process
\* that is behind saves what it has (recoverSessionState; storage.ts:
\* getLatestCheckpoint, listJournalEntries).
RecoveryFaithful ==
    ~lost => /\ RecoveredState = Intended(journal, checkpoints)
             /\ \A c \in Clients :
                   client[c].op # "recover" /\ client[c].view # NotLoaded /\ ~behind[c]
                      => client[c].view = Intended(journal, checkpoints)
=============================================================================
