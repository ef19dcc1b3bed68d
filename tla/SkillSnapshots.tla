--------------------------- MODULE SkillSnapshots ---------------------------
(***************************************************************************)
(* The approved skills (packages/skills): a head file, one history file    *)
(* per version, and the operations of the CLI, the host API, the desktop   *)
(* and worker-jobs that write them: apply a proposal, change or delete a   *)
(* skill by hand, roll back.                                               *)
(*                                                                         *)
(* Every file is replaced by a rename, and nothing locks them: a process   *)
(* reads the head, writes up to three files, and for a proposal then asks  *)
(* the task plane to call it applied and takes the files back if that      *)
(* fails.  Each read, write and removal is an action here; a process may   *)
(* die between any two.                                                    *)
(***************************************************************************)
EXTENDS Naturals, FiniteSets

CONSTANTS
    Procs,       \* processes with the files open
    Skills,      \* skill ids
    Proposals,   \* proposals of kind skill.snapshot_upsert, reviewed and accepted
    SkillOf,     \* proposal -> the skill it upserts
    Absent,      \* the content of a skill that is not there
    Edited,      \* content that no proposal carries
    NoDoc,       \* a file that does not exist
    NoCall,      \* a process that does nothing
    MaxVersion   \* bound: versions of the head

ASSUME SkillsAssumption ==
    /\ SkillOf \in [Proposals -> Skills]
    /\ Absent \notin Proposals \cup {Edited}
    /\ MaxVersion \in Nat

VARIABLES
    head,        \* approved-skills.json
    history,     \* version -> approved-skills.v<version>.json
    status,      \* proposal -> its status in the task plane
    call,        \* process -> its operation in progress
    overlapped,  \* history: an operation began while another was in progress
    cut,         \* history: a process died before dropping a failed version's file
    shown,       \* history: version -> what the head last held as that version
    standing     \* history: proposals called applied, and nothing done to their skill since

files == <<head, history>>
ghosts == <<overlapped, cut, shown, standing>>
vars == <<files, status, call, ghosts>>

Versions == 1..MaxVersion
Contents == Proposals \cup {Edited, Absent}
SkillMaps == [Skills -> Contents]

\* previous is 0 for previousVersion null.
Document == [version : Versions, previous : 0..MaxVersion, skills : SkillMaps]

\* at: the step that comes next; skills: what will be written; base: the head that
\* writeApproved read; touched: the skills the operation is about.
Call == [kind : {"apply", "job", "edit", "rollback"},
         at : {"read", "keep", "write", "own", "decide", "restore", "drop"},
         proposal : Proposals \cup {Absent}, touched : SUBSET Skills,
         skills : SkillMaps, base : Document \cup {NoDoc}]

ASSUME FilesAssumption == NoDoc \notin Document /\ NoCall \notin Call

SkillsIn(doc) == IF doc = NoDoc THEN [s \in Skills |-> Absent] ELSE doc.skills
HeadSkills == SkillsIn(head)

HeadVersion(doc) == IF doc = NoDoc THEN 0 ELSE doc.version

-----------------------------------------------------------------------------
(* Operations: what each will write, from the head as it is now.            *)

Begins(c, kind, p, touched, skills) ==
    /\ call[c] = NoCall
    /\ call' = [call EXCEPT ![c] = [kind |-> kind, at |-> "read", proposal |-> p,
                                    touched |-> touched, skills |-> skills, base |-> NoDoc]]
    /\ overlapped' = (overlapped \/ \E d \in Procs : call[d] # NoCall)
    /\ UNCHANGED <<files, status, cut, shown, standing>>

\* Mutant: the skills of the head are not carried over.
UpsertedAlone(s, content) == [t \in Skills |-> IF t = s THEN content ELSE Absent]

\* Mutant: the id where the snapshot belongs.
UpsertedId(s, content) == [HeadSkills EXCEPT ![s] = s]

Upserted(s, content) == [HeadSkills EXCEPT ![s] = content]

\* The CLI, the host API and the desktop.
Apply(c, p) ==
    /\ status[p] = "accepted"
    /\ Begins(c, "apply", p, {SkillOf[p]}, Upserted(SkillOf[p], p))

\* The reconcile job, which repeats what was applied before.
Reconcile(c, p) ==
    /\ status[p] \in {"accepted", "applied"}
    /\ Begins(c, "job", p, {SkillOf[p]}, Upserted(SkillOf[p], p))

\* Changing and deleting a skill that is there.
Edit(c, s, content) ==
    /\ HeadSkills[s] # Absent
    /\ Begins(c, "edit", Absent, {s}, Upserted(s, content))

\* To the previous version or to any other with a file.
Rollback(c, v) ==
    /\ head # NoDoc
    /\ history[v] # NoDoc
    /\ Begins(c, "rollback", Absent, Skills, history[v].skills)

-----------------------------------------------------------------------------
(* writeApproved.                                                           *)

Goes(c, at) == call' = [call EXCEPT ![c].at = at]

ReadBase(c) ==
    /\ call[c] # NoCall /\ call[c].at = "read"
    /\ HeadVersion(head) < MaxVersion
    /\ call' = [call EXCEPT ![c].at = "keep", ![c].base = head]
    /\ UNCHANGED <<files, status, ghosts>>

\* writeHistorySnapshotIfMissing
WriteHistory(doc) ==
    history' = IF doc # NoDoc /\ history[doc.version] = NoDoc
                 THEN [history EXCEPT ![doc.version] = doc] ELSE history

\* Mutant: only a version's own writer keeps it.
KeepNothing(c) ==
    /\ call[c] # NoCall /\ call[c].at = "keep"
    /\ Goes(c, "write")
    /\ UNCHANGED <<files, status, ghosts>>

KeepBase(c) ==
    /\ call[c] # NoCall /\ call[c].at = "keep"
    /\ WriteHistory(call[c].base)
    /\ Goes(c, "write")
    /\ UNCHANGED <<head, status, ghosts>>

\* Mutant: keeps the previous version of the head it replaces.
DocOverPrevious(k) ==
    [version |-> HeadVersion(k.base) + 1,
     previous |-> IF k.base = NoDoc THEN 0 ELSE k.base.previous,
     skills |-> k.skills]

Doc(k) == [version |-> HeadVersion(k.base) + 1, previous |-> HeadVersion(k.base),
           skills |-> k.skills]

WriteHead(c) ==
    /\ call[c] # NoCall /\ call[c].at = "write"
    /\ head' = Doc(call[c])
    /\ shown' = [shown EXCEPT ![HeadVersion(call[c].base) + 1] = Doc(call[c])]
    /\ Goes(c, "own")
    /\ UNCHANGED <<history, status, overlapped, cut, standing>>

\* An operation that is over, or whose process died, may have changed its skills.
Overwrites(c) == standing' = {p \in standing : SkillOf[p] \notin call[c].touched}

Ends(c) == call' = [call EXCEPT ![c] = NoCall]

KeepOwn(c) ==
    /\ call[c] # NoCall /\ call[c].at = "own"
    /\ WriteHistory(Doc(call[c]))
    /\ IF call[c].kind \in {"apply", "job"}
         THEN Goes(c, "decide") /\ UNCHANGED standing
         ELSE Ends(c) /\ Overwrites(c)
    /\ UNCHANGED <<head, status, overlapped, cut, shown>>

-----------------------------------------------------------------------------
(* The task plane's answer, and the way back.                               *)

TransitionSucceeds(c) ==
    /\ call[c] # NoCall /\ call[c].at = "decide"
    /\ status[call[c].proposal] \in {"accepted", "applied"}
    /\ status' = [status EXCEPT ![call[c].proposal] = "applied"]
    /\ standing' = {p \in standing : SkillOf[p] \notin call[c].touched} \cup {call[c].proposal}
    /\ Ends(c)
    /\ UNCHANGED <<files, overlapped, cut, shown>>

\* The proposal expired meanwhile, the session was archived, the database was busy.
\* The job leaves the files as they are.
TransitionFails(c) ==
    /\ call[c] # NoCall /\ call[c].at = "decide"
    /\ IF call[c].kind = "apply"
         THEN Goes(c, "restore") /\ UNCHANGED standing
         ELSE Ends(c) /\ Overwrites(c)
    /\ UNCHANGED <<files, status, overlapped, cut, shown>>

\* recoverHead's first half.  With no file of the previous version it throws.
RestoreHead(c) ==
    /\ call[c] # NoCall /\ call[c].at = "restore"
    /\ LET previous == Doc(call[c]).previous IN
         IF previous # 0 /\ history[previous] = NoDoc
           THEN Ends(c) /\ Overwrites(c) /\ UNCHANGED head
           ELSE /\ head' = IF previous = 0 THEN NoDoc ELSE history[previous]
                /\ Goes(c, "drop")
                /\ UNCHANGED standing
    /\ UNCHANGED <<history, status, overlapped, cut, shown>>

\* recoverHead's second half.
DropHistory(c) ==
    /\ call[c] # NoCall /\ call[c].at = "drop"
    /\ history' = [history EXCEPT ![Doc(call[c]).version] = NoDoc]
    /\ Ends(c)
    /\ UNCHANGED <<head, status, ghosts>>

-----------------------------------------------------------------------------

\* Before the head is written, or once it is restored, nothing changed.
Harmless(c) == call[c].at \in {"read", "keep", "write", "drop"}

\* The process ends, or a file operation throws, which ends the operation alike.
Die(c) ==
    /\ call[c] # NoCall
    /\ cut' = (cut \/ call[c].at = "drop")
    /\ IF Harmless(c) THEN UNCHANGED standing ELSE Overwrites(c)
    /\ Ends(c)
    /\ UNCHANGED <<files, status, overlapped, shown>>

\* A decision on the proposal by any other command of the task plane.
Expire(p) ==
    /\ status[p] = "accepted"
    /\ status' = [status EXCEPT ![p] = "expired"]
    /\ UNCHANGED <<files, call, ghosts>>

Init ==
    /\ head = NoDoc
    /\ history = [v \in Versions |-> NoDoc]
    /\ status = [p \in Proposals |-> "accepted"]
    /\ call = [c \in Procs |-> NoCall]
    /\ overlapped = FALSE
    /\ cut = FALSE
    /\ shown = [v \in Versions |-> NoDoc]
    /\ standing = {}

Next ==
    \/ \E c \in Procs :
        \/ \E p \in Proposals : Apply(c, p) \/ Reconcile(c, p)
        \/ \E s \in Skills, content \in {Edited, Absent} : Edit(c, s, content)
        \/ \E v \in Versions : Rollback(c, v)
        \/ ReadBase(c) \/ KeepBase(c) \/ WriteHead(c) \/ KeepOwn(c)
        \/ TransitionSucceeds(c) \/ TransitionFails(c)
        \/ RestoreHead(c) \/ DropHistory(c)
        \/ Die(c)
    \/ \E p \in Proposals : Expire(p)

Spec == Init /\ [][Next]_vars

-----------------------------------------------------------------------------
(* Properties.  Without a lock none of them survives operations that        *)
(* overlap, nor a process that died between the two halves of recoverHead.  *)

Sound == ~overlapped /\ ~cut

(* Type invariant of the files and of the operations in progress.           *)
TypeOK ==
    /\ head \in Document \cup {NoDoc}
    /\ history \in [Versions -> Document \cup {NoDoc}]
    /\ status \in [Proposals -> {"accepted", "applied", "expired"}]
    /\ call \in [Procs -> Call \cup {NoCall}]
    /\ overlapped \in BOOLEAN
    /\ cut \in BOOLEAN
    /\ shown \in [Versions -> Document \cup {NoDoc}]
    /\ standing \subseteq Proposals

(* A version names one snapshot, the one the head held: what a rollback or  *)
(* a recovery finds under a version below the head's is never missing and   *)
(* never that of an apply that failed, though deaths leave versions without *)
(* their file and failed versions are given out again.                      *)
HistoryFaithful ==
    Sound => \A v \in Versions :
        /\ history[v] \in {NoDoc, shown[v]}
        /\ v < HeadVersion(head) => history[v] # NoDoc

(* "restored approved snapshot head" (control-plane.ts): an apply that the  *)
(* task plane refused leaves the head that its write replaced, which it     *)
(* only knows by its version.                                               *)
FailedApplyRestores ==
    Sound => \A c \in Procs :
        call[c] # NoCall /\ call[c].at = "drop" => head = call[c].base

(* What was called applied stays approved: the content of a proposal is in  *)
(* the head until an operation on its skill, or a rollback, takes its       *)
(* place; operations on other skills, failures and deaths do not lose it.   *)
AppliedStands ==
    Sound => \A p \in standing :
        (\A c \in Procs : call[c] # NoCall => SkillOf[p] \notin call[c].touched)
            => HeadSkills[SkillOf[p]] = p
=============================================================================
