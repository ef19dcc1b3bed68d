------------------------ MODULE SkillSnapshotsProofs ------------------------
(***************************************************************************)
(* Proofs about the approved skills, for any number of processes, skills,  *)
(* proposals and versions: the types; and, as long as operations do not    *)
(* overlap and nobody died between the halves of recoverHead, what         *)
(* HistoryFaithful, FailedApplyRestores and AppliedStands say.             *)
(*                                                                         *)
(* The argument is about the one operation in progress: what it read is    *)
(* still the head until it writes, its base is on file from the moment it  *)
(* writes, and no version above the head has a file but the one that       *)
(* recoverHead is about to drop.                                           *)
(***************************************************************************)
EXTENDS SkillSnapshots, TLAPS

Wrote(k) == k.at \in {"own", "decide", "restore"}

\* What an operation in progress holds.
CallShape(k) ==
    /\ k.kind \in {"apply", "job"} => k.proposal \in Proposals
    /\ k.kind \in {"apply", "job"} => k.touched = {SkillOf[k.proposal]}
    /\ k.at \in {"decide", "restore", "drop"} => k.kind \in {"apply", "job"}
    /\ k.at # "read" => HeadVersion(k.base) < MaxVersion

\* The types, whatever overlaps.
Shape ==
    /\ TypeOK
    /\ \A c \in Procs : call[c] # NoCall => CallShape(call[c])

OneBusy == \A c, d \in Procs : call[c] # NoCall /\ call[d] # NoCall => c = d

\* What is on file.
Filed ==
    /\ head # NoDoc => shown[head.version] = head
    /\ \A v \in Versions : shown[v] # NoDoc => shown[v].version = v
    /\ \A v \in Versions : history[v] \in {NoDoc, shown[v]}
    /\ \A v \in Versions : v < HeadVersion(head) => history[v] # NoDoc
    /\ \A v \in Versions : v > HeadVersion(head) /\ history[v] # NoDoc =>
          \E c \in Procs : call[c] # NoCall /\ call[c].at = "drop" /\ v = HeadVersion(head) + 1

\* What the operation in progress knows of it.
Knows(k) ==
    /\ k.at \in {"keep", "write", "drop"} => head = k.base
    /\ Wrote(k) => head = Doc(k)
    /\ k.base # NoDoc /\ k.at \notin {"read", "keep"} => history[k.base.version] = k.base
    /\ k.kind \in {"apply", "job"} => k.skills[SkillOf[k.proposal]] = k.proposal
    /\ \A s \in Skills \ k.touched :
          k.skills[s] = SkillsIn(IF k.at = "read" THEN head ELSE k.base)[s]

\* The standing proposals stand in the head, or in the one it replaced while the
\* operation may still be taken back.
Stands ==
    \A p \in standing :
        /\ (\A c \in Procs : call[c] # NoCall => ~Wrote(call[c])) => HeadSkills[SkillOf[p]] = p
        /\ \A c \in Procs : call[c] # NoCall /\ Wrote(call[c]) =>
              SkillsIn(call[c].base)[SkillOf[p]] = p

Orderly ==
    /\ OneBusy
    /\ Filed
    /\ \A c \in Procs : call[c] # NoCall => Knows(call[c])
    /\ Stands

IInv == Shape /\ (Sound => Orderly)

-----------------------------------------------------------------------------
(* Types.                                                                   *)

(* Versions and skills of a file that may be missing (readHead).            *)
LEMMA Files ==
    ASSUME NEW doc \in Document \cup {NoDoc}
    PROVE  /\ HeadVersion(doc) \in 0..MaxVersion
           /\ doc # NoDoc => HeadVersion(doc) = doc.version /\ doc.version \in Versions
           /\ doc = NoDoc <=> HeadVersion(doc) = 0
           /\ SkillsIn(doc) \in SkillMaps
  <1>1. CASE doc = NoDoc
    BY <1>1, SkillsAssumption DEF HeadVersion, SkillsIn, SkillMaps, Contents
  <1>2. CASE doc # NoDoc
    <2>1. doc \in Document
      BY <1>2
    <2> QED
      BY <1>2, <2>1, SkillsAssumption DEF HeadVersion, SkillsIn, Document, Versions
  <1> QED
    BY <1>1, <1>2

(* The document that an operation writes (writeApproved).                   *)
LEMMA Written ==
    ASSUME NEW k \in Call, HeadVersion(k.base) < MaxVersion
    PROVE  /\ Doc(k) \in Document
           /\ Doc(k) # NoDoc
           /\ Doc(k).version = HeadVersion(k.base) + 1
           /\ Doc(k).previous = HeadVersion(k.base)
           /\ Doc(k).skills = k.skills
  <1>1. k.base \in Document \cup {NoDoc} /\ k.skills \in SkillMaps
    BY DEF Call
  <1>2. HeadVersion(k.base) \in 0..MaxVersion
    BY <1>1, Files
  <1>3. Doc(k) \in Document
    BY <1>1, <1>2, SkillsAssumption DEF Doc, Document, Versions
  <1> QED
    BY <1>3, FilesAssumption DEF Doc

(* An operation that goes on keeps its process's record a record.           *)
LEMMA GoneOn ==
    ASSUME Shape, NEW c \in Procs, call[c] # NoCall,
           NEW at \in {"read", "keep", "write", "own", "decide", "restore", "drop"}, Goes(c, at)
    PROVE  /\ call' \in [Procs -> Call \cup {NoCall}]
           /\ call'[c] = [call[c] EXCEPT !.at = at]
           /\ call'[c] \in Call
           /\ call'[c] # NoCall
           /\ \A d \in Procs \ {c} : call'[d] = call[d]
  <1>1. call[c] \in Call
    BY DEF Shape, TypeOK
  <1>2. [call[c] EXCEPT !.at = at] \in Call
    BY <1>1 DEF Call
  <1> QED
    BY <1>2, FilesAssumption DEF Shape, TypeOK, Goes

(* So does an operation that ends, trivially.                               *)
LEMMA Ended ==
    ASSUME Shape, NEW c \in Procs, Ends(c)
    PROVE  /\ call' \in [Procs -> Call \cup {NoCall}]
           /\ call'[c] = NoCall
           /\ \A d \in Procs \ {c} : call'[d] = call[d]
  BY DEF Shape, TypeOK, Ends

(* A new operation is a record of the right shape.                          *)
LEMMA Begun ==
    ASSUME Shape, NEW c \in Procs, NEW kind \in {"apply", "job", "edit", "rollback"},
           NEW p \in Proposals \cup {Absent}, NEW touched \in SUBSET Skills,
           NEW skills \in SkillMaps, Begins(c, kind, p, touched, skills),
           kind \in {"apply", "job"} => p \in Proposals /\ touched = {SkillOf[p]}
    PROVE  Shape'
  <1> DEFINE k == [kind |-> kind, at |-> "read", proposal |-> p, touched |-> touched,
                   skills |-> skills, base |-> NoDoc]
  <1>1. k \in Call
    BY DEF Call
  <1>2. k # NoCall
    BY <1>1, FilesAssumption
  <1>3. CallShape(k)
    BY DEF CallShape
  <1>4. call' = [call EXCEPT ![c] = k]
    BY DEF Begins
  <1> HIDE DEF k
  <1>5. TypeOK'
    BY <1>1, <1>4 DEF Shape, TypeOK, Begins, files
  <1>6. \A d \in Procs : call'[d] # NoCall => CallShape(call'[d])
    BY <1>2, <1>3, <1>4 DEF Shape, TypeOK
  <1> QED
    BY <1>5, <1>6 DEF Shape, CallShape

(* The step of the operation of process c that keeps its record a record.   *)
LEMMA WentOn ==
    ASSUME Shape, NEW c \in Procs, call[c] # NoCall,
           NEW at \in {"keep", "write", "own", "decide", "restore", "drop"}, Goes(c, at),
           at \in {"decide", "restore", "drop"} => call[c].kind \in {"apply", "job"},
           HeadVersion(call[c].base) < MaxVersion
    PROVE  /\ call' \in [Procs -> Call \cup {NoCall}]
           /\ \A d \in Procs : call'[d] # NoCall => CallShape(call'[d])
  <1>1. /\ call' \in [Procs -> Call \cup {NoCall}]
        /\ call'[c] = [call[c] EXCEPT !.at = at]
        /\ \A d \in Procs \ {c} : call'[d] = call[d]
    BY GoneOn
  <1>2. call[c] \in Call /\ CallShape(call[c])
    BY DEF Shape, TypeOK
  <1>3. CallShape([call[c] EXCEPT !.at = at])
    BY <1>2 DEF CallShape, Call
  <1> QED
    BY <1>1, <1>3 DEF Shape

(* Every step keeps the types (all operations, whatever overlaps).          *)
LEMMA ShapeKept == Shape /\ [Next]_vars => Shape'
  <1> SUFFICES ASSUME Shape, [Next]_vars PROVE Shape'
    OBVIOUS
  <1>t. TypeOK
    BY DEF Shape
  <1>s. \A s \in Skills, content \in Contents : Upserted(s, content) \in SkillMaps
    <2>1. HeadSkills \in SkillMaps
      BY <1>t, Files DEF HeadSkills, TypeOK
    <2> QED
      BY <2>1 DEF Upserted, SkillMaps
  <1>h. \A doc \in Document : WriteHistory(doc) => history' \in [Versions -> Document \cup {NoDoc}]
    BY <1>t, Files DEF WriteHistory, TypeOK
  <1>1. ASSUME NEW c \in Procs, NEW p \in Proposals, Apply(c, p) PROVE Shape'
    BY <1>1, <1>s, Begun, SkillsAssumption DEF Apply, Contents
  <1>2. ASSUME NEW c \in Procs, NEW p \in Proposals, Reconcile(c, p) PROVE Shape'
    BY <1>2, <1>s, Begun, SkillsAssumption DEF Reconcile, Contents
  <1>3. ASSUME NEW c \in Procs, NEW s \in Skills, NEW content \in {Edited, Absent},
               Edit(c, s, content)
        PROVE  Shape'
    BY <1>3, <1>s, Begun DEF Edit, Contents
  <1>4. ASSUME NEW c \in Procs, NEW v \in Versions, Rollback(c, v) PROVE Shape'
    <2>1. history[v] \in Document
      BY <1>4, <1>t DEF Rollback, TypeOK
    <2>2. history[v].skills \in SkillMaps
      BY <2>1 DEF Document
    <2> QED
      BY <1>4, <2>2, Begun DEF Rollback
  <1>5. ASSUME NEW c \in Procs, ReadBase(c) PROVE Shape'
    <2> DEFINE k == [call[c] EXCEPT !.at = "keep", !.base = head]
    <2>1. call[c] \in Call /\ CallShape(call[c])
      BY <1>5 DEF Shape, TypeOK, ReadBase
    <2>2. k \in Call /\ CallShape(k)
      BY <1>5, <1>t, <2>1 DEF Call, CallShape, ReadBase, TypeOK
    <2>3. call' = [call EXCEPT ![c] = k]
      BY <1>5 DEF ReadBase
    <2> HIDE DEF k
    <2>4. /\ call' \in [Procs -> Call \cup {NoCall}]
          /\ \A d \in Procs : call'[d] # NoCall => CallShape(call'[d])
      BY <2>2, <2>3 DEF Shape, TypeOK
    <2> QED
      BY <1>5, <1>t, <2>4 DEF ReadBase, Shape, TypeOK, files, ghosts, CallShape
  <1>6. ASSUME NEW c \in Procs, KeepBase(c) PROVE Shape'
    <2>1. call[c] \in Call /\ CallShape(call[c])
      BY <1>6 DEF Shape, TypeOK, KeepBase
    <2>2. call[c].base \in Document \cup {NoDoc} /\ HeadVersion(call[c].base) < MaxVersion
      BY <1>6, <2>1 DEF Call, CallShape, KeepBase
    <2>3. history' \in [Versions -> Document \cup {NoDoc}]
      BY <1>6, <1>h, <1>t, <2>2 DEF KeepBase, WriteHistory, TypeOK
    <2>4. /\ call' \in [Procs -> Call \cup {NoCall}]
          /\ \A d \in Procs : call'[d] # NoCall => CallShape(call'[d])
      BY <1>6, <2>2, WentOn DEF KeepBase
    <2> QED
      BY <1>6, <1>t, <2>3, <2>4 DEF KeepBase, Shape, TypeOK, ghosts, CallShape
  <1>7. ASSUME NEW c \in Procs, WriteHead(c) PROVE Shape'
    <2>1. call[c] \in Call /\ CallShape(call[c])
      BY <1>7 DEF Shape, TypeOK, WriteHead
    <2>2. call[c].base \in Document \cup {NoDoc} /\ HeadVersion(call[c].base) < MaxVersion
      BY <1>7, <2>1 DEF Call, CallShape, WriteHead
    <2>3. Doc(call[c]) \in Document
      BY <2>1, <2>2, Written
    <2>4. /\ call' \in [Procs -> Call \cup {NoCall}]
          /\ \A d \in Procs : call'[d] # NoCall => CallShape(call'[d])
      BY <1>7, <2>2, WentOn DEF WriteHead
    <2> QED
      BY <1>7, <1>t, <2>3, <2>4 DEF WriteHead, Shape, TypeOK, CallShape
  <1>8. ASSUME NEW c \in Procs, KeepOwn(c) PROVE Shape'
    <2>1. call[c] \in Call /\ CallShape(call[c])
      BY <1>8 DEF Shape, TypeOK, KeepOwn
    <2>2. HeadVersion(call[c].base) < MaxVersion
      BY <1>8, <2>1 DEF CallShape, KeepOwn
    <2>3. Doc(call[c]) \in Document
      BY <2>1, <2>2, Written
    <2>4. history' \in [Versions -> Document \cup {NoDoc}]
      BY <1>8, <1>h, <2>3 DEF KeepOwn
    <2>5. standing' \subseteq Proposals
      BY <1>8, <1>t DEF KeepOwn, Overwrites, TypeOK
    <2>6. /\ call' \in [Procs -> Call \cup {NoCall}]
          /\ \A d \in Procs : call'[d] # NoCall => CallShape(call'[d])
      <3>1. CASE call[c].kind \in {"apply", "job"}
        BY <1>8, <2>2, <3>1, WentOn DEF KeepOwn
      <3>2. CASE call[c].kind \notin {"apply", "job"}
        BY <1>8, <3>2, Ended DEF KeepOwn, Shape
      <3> QED
        BY <3>1, <3>2
    <2> QED
      BY <1>8, <1>t, <2>4, <2>5, <2>6 DEF KeepOwn, Shape, TypeOK, CallShape
  <1>9. ASSUME NEW c \in Procs, TransitionSucceeds(c) PROVE Shape'
    <2>1. call[c] \in Call /\ CallShape(call[c])
      BY <1>9 DEF Shape, TypeOK, TransitionSucceeds
    <2>2. call[c].proposal \in Proposals
      BY <1>9, <2>1 DEF CallShape, TransitionSucceeds
    <2>3. /\ call' \in [Procs -> Call \cup {NoCall}]
          /\ \A d \in Procs : call'[d] # NoCall => CallShape(call'[d])
      BY <1>9, Ended DEF TransitionSucceeds, Shape
    <2> QED
      BY <1>9, <1>t, <2>2, <2>3 DEF TransitionSucceeds, Shape, TypeOK, CallShape, files
  <1>10. ASSUME NEW c \in Procs, TransitionFails(c) PROVE Shape'
    <2>1. call[c] \in Call /\ CallShape(call[c])
      BY <1>10 DEF Shape, TypeOK, TransitionFails
    <2>2. /\ call' \in [Procs -> Call \cup {NoCall}]
          /\ \A d \in Procs : call'[d] # NoCall => CallShape(call'[d])
      <3>1. CASE call[c].kind = "apply"
        BY <1>10, <2>1, <3>1, WentOn DEF TransitionFails, CallShape
      <3>2. CASE call[c].kind # "apply"
        BY <1>10, <3>2, Ended DEF TransitionFails, Shape
      <3> QED
        BY <3>1, <3>2
    <2>3. standing' \subseteq Proposals
      BY <1>10, <1>t DEF TransitionFails, Overwrites, TypeOK
    <2> QED
      BY <1>10, <1>t, <2>2, <2>3 DEF TransitionFails, Shape, TypeOK, CallShape, files
  <1>11. ASSUME NEW c \in Procs, RestoreHead(c) PROVE Shape'
    <2>1. call[c] \in Call /\ CallShape(call[c])
      BY <1>11 DEF Shape, TypeOK, RestoreHead
    <2>2. HeadVersion(call[c].base) < MaxVersion /\ call[c].kind \in {"apply", "job"}
      BY <1>11, <2>1 DEF CallShape, RestoreHead
    <2>3. Doc(call[c]) \in Document
      BY <2>1, <2>2, Written
    <2> DEFINE previous == Doc(call[c]).previous
               missing == previous # 0 /\ history[previous] = NoDoc
    <2>4. previous = 0 \/ previous \in Versions
      BY <2>3, SkillsAssumption DEF Document, Versions
    <2>5. head' \in Document \cup {NoDoc}
      BY <1>11, <1>t, <2>4 DEF RestoreHead, TypeOK
    <2>6. standing' \subseteq Proposals
      BY <1>11, <1>t DEF RestoreHead, Overwrites, TypeOK
    <2>7. Ends(c) \/ Goes(c, "drop")
      BY <1>11 DEF RestoreHead
    <2>8. /\ call' \in [Procs -> Call \cup {NoCall}]
          /\ \A d \in Procs : call'[d] # NoCall => CallShape(call'[d])
      <3>1. CASE Goes(c, "drop")
        BY <1>11, <2>2, <3>1, WentOn DEF RestoreHead
      <3>2. CASE Ends(c)
        BY <3>2, Ended DEF Shape
      <3> QED
        BY <2>7, <3>1, <3>2
    <2> QED
      BY <1>11, <1>t, <2>5, <2>6, <2>8 DEF RestoreHead, Shape, TypeOK, CallShape
  <1>12. ASSUME NEW c \in Procs, DropHistory(c) PROVE Shape'
    <2>1. /\ call' \in [Procs -> Call \cup {NoCall}]
          /\ \A d \in Procs : call'[d] # NoCall => CallShape(call'[d])
      BY <1>12, Ended DEF DropHistory, Shape
    <2> QED
      BY <1>12, <1>t, <2>1 DEF DropHistory, Shape, TypeOK, CallShape, ghosts
  <1>13. ASSUME NEW c \in Procs, Die(c) PROVE Shape'
    <2>1. /\ call' \in [Procs -> Call \cup {NoCall}]
          /\ \A d \in Procs : call'[d] # NoCall => CallShape(call'[d])
      BY <1>13, Ended DEF Die, Shape
    <2>2. standing' \subseteq Proposals /\ cut' \in BOOLEAN
      BY <1>13, <1>t DEF Die, Overwrites, TypeOK
    <2> QED
      BY <1>13, <1>t, <2>1, <2>2 DEF Die, Shape, TypeOK, CallShape, files
  <1>14. ASSUME NEW p \in Proposals, Expire(p) PROVE Shape'
    BY <1>14, <1>t DEF Expire, Shape, TypeOK, CallShape, files, ghosts
  <1>15. CASE UNCHANGED vars
    BY <1>15, <1>t DEF vars, Shape, TypeOK, CallShape, files, ghosts
  <1> QED
    BY <1>1, <1>2, <1>3, <1>4, <1>5, <1>6, <1>7, <1>8, <1>9, <1>10, <1>11, <1>12,
       <1>13, <1>14, <1>15 DEF Next

-----------------------------------------------------------------------------
(* The one operation in progress.                                           *)

\* What the step of the one operation in progress, that of process c, must leave.
FiledAfter(c) ==
    /\ head # NoDoc => shown[head.version] = head
    /\ \A v \in Versions : shown[v] # NoDoc => shown[v].version = v
    /\ \A v \in Versions : history[v] \in {NoDoc, shown[v]}
    /\ \A v \in Versions : v < HeadVersion(head) => history[v] # NoDoc
    /\ \A v \in Versions : v > HeadVersion(head) /\ history[v] # NoDoc =>
          call[c] # NoCall /\ call[c].at = "drop" /\ v = HeadVersion(head) + 1

StandsAfter(c) ==
    \A p \in standing :
        IF call[c] # NoCall /\ Wrote(call[c])
          THEN SkillsIn(call[c].base)[SkillOf[p]] = p
          ELSE HeadSkills[SkillOf[p]] = p

Busy(c) == \A d \in Procs \ {c} : call[d] = NoCall

LEMMA Before ==
    ASSUME Orderly, NEW c \in Procs, call[c] # NoCall
    PROVE  Busy(c) /\ FiledAfter(c) /\ Knows(call[c]) /\ StandsAfter(c)
  <1>1. Busy(c)
    BY DEF Orderly, OneBusy, Busy
  <1>2. FiledAfter(c)
    BY <1>1 DEF Orderly, Filed, FiledAfter, Busy
  <1>3. Knows(call[c])
    BY DEF Orderly
  <1>4. StandsAfter(c)
    BY <1>1 DEF Orderly, Stands, StandsAfter, Busy
  <1> QED
    BY <1>1, <1>2, <1>3, <1>4

LEMMA After ==
    ASSUME NEW c \in Procs, Busy(c)', FiledAfter(c)',
           call'[c] # NoCall => Knows(call[c])', StandsAfter(c)'
    PROVE  Orderly'
  <1>1. OneBusy'
    BY DEF OneBusy, Busy
  <1>2. Filed'
    BY DEF Filed, FiledAfter
  <1>3. \A d \in Procs : call'[d] # NoCall => Knows(call[d])'
    BY DEF Busy
  <1>4. Stands'
    BY DEF Stands, StandsAfter, Busy
  <1> QED
    BY <1>1, <1>2, <1>3, <1>4 DEF Orderly

(* An operation that begins finds nobody else (Begins, ~overlapped').       *)
LEMMA BegunOrderly ==
    ASSUME Shape, Orderly, Sound', NEW c \in Procs,
           NEW kind \in {"apply", "job", "edit", "rollback"},
           NEW p \in Proposals \cup {Absent}, NEW touched \in SUBSET Skills,
           NEW skills \in SkillMaps, Begins(c, kind, p, touched, skills),
           kind \in {"apply", "job"} => skills[SkillOf[p]] = p,
           \A s \in Skills \ touched : skills[s] = HeadSkills[s]
    PROVE  Orderly'
  <1> DEFINE k == [kind |-> kind, at |-> "read", proposal |-> p, touched |-> touched,
                   skills |-> skills, base |-> NoDoc]
  <1>1. call' = [call EXCEPT ![c] = k] /\ UNCHANGED <<head, history, shown, standing>>
    BY DEF Begins, files
  <1>2. \A d \in Procs : call[d] = NoCall
    BY DEF Begins, Sound
  <1>3. call'[c] = k /\ \A d \in Procs \ {c} : call'[d] = call[d]
    BY <1>1 DEF Shape, TypeOK
  <1>4. Busy(c)'
    BY <1>2, <1>3 DEF Busy
  <1>5. FiledAfter(c)'
    BY <1>1, <1>2 DEF Orderly, Filed, FiledAfter
  <1>6. Knows(call[c])'
    BY <1>1, <1>3 DEF Knows, Wrote, HeadSkills
  <1>7. ~Wrote(call'[c])
    BY <1>3 DEF Wrote
  <1>8. \A q \in standing : HeadSkills[SkillOf[q]] = q
    BY <1>2 DEF Orderly, Stands
  <1>9. StandsAfter(c)'
    BY <1>1, <1>7, <1>8 DEF StandsAfter, HeadSkills
  <1> QED
    BY <1>4, <1>5, <1>6, <1>9, After

(* ReadBase: what it reads is the head (writeApproved's readHead).          *)
LEMMA ReadBaseOrderly ==
    ASSUME Shape, Orderly, NEW c \in Procs, ReadBase(c)
    PROVE  Orderly'
  <1> DEFINE k == [call[c] EXCEPT !.at = "keep", !.base = head]
  <1>1. /\ call[c] # NoCall /\ call[c].at = "read" /\ call[c] \in Call
        /\ call' = [call EXCEPT ![c] = k]
        /\ UNCHANGED <<head, history, shown, standing>>
    BY DEF ReadBase, Shape, TypeOK, files, ghosts
  <1>2. Busy(c) /\ FiledAfter(c) /\ Knows(call[c]) /\ StandsAfter(c)
    BY <1>1, Before
  <1>3. call'[c] = k /\ \A d \in Procs \ {c} : call'[d] = call[d]
    BY <1>1 DEF Shape, TypeOK
  <1>4. /\ k.at = "keep" /\ k.base = head /\ k.skills = call[c].skills
        /\ k.touched = call[c].touched /\ k.kind = call[c].kind
        /\ k.proposal = call[c].proposal
    BY <1>1 DEF Call
  <1> HIDE DEF k
  <1>5. Busy(c)'
    BY <1>2, <1>3 DEF Busy
  <1>6. FiledAfter(c)'
    BY <1>1, <1>2 DEF FiledAfter
  <1>7. Knows(call[c])'
    BY <1>1, <1>2, <1>3, <1>4 DEF Knows, Wrote, FiledAfter
  <1>8. ~Wrote(call[c]) /\ ~Wrote(call'[c])
    BY <1>1, <1>3, <1>4 DEF Wrote
  <1>9. StandsAfter(c)'
    BY <1>1, <1>2, <1>8 DEF StandsAfter, HeadSkills
  <1> QED
    BY <1>5, <1>6, <1>7, <1>9, After

(* What Goes leaves of the record.                                          *)
LEMMA SameRecord ==
    ASSUME Shape, NEW c \in Procs, call[c] # NoCall,
           NEW at \in {"keep", "write", "own", "decide", "restore", "drop"}, Goes(c, at)
    PROVE  /\ call'[c] # NoCall /\ call'[c].at = at
           /\ call'[c].base = call[c].base /\ call'[c].skills = call[c].skills
           /\ call'[c].touched = call[c].touched /\ call'[c].kind = call[c].kind
           /\ call'[c].proposal = call[c].proposal
           /\ Doc(call'[c]) = Doc(call[c])
           /\ \A d \in Procs \ {c} : call'[d] = call[d]
  <1>1. call[c] \in Call
    BY DEF Shape, TypeOK
  <1>2. /\ call'[c] = [call[c] EXCEPT !.at = at] /\ call'[c] # NoCall
        /\ \A d \in Procs \ {c} : call'[d] = call[d]
    BY GoneOn
  <1> QED
    BY <1>1, <1>2 DEF Call, Doc

(* KeepBase: the base is on file (writeHistorySnapshotIfMissing).           *)
LEMMA KeepBaseOrderly ==
    ASSUME Shape, Orderly, NEW c \in Procs, KeepBase(c)
    PROVE  Orderly'
  <1> DEFINE base == call[c].base
  <1>1. /\ call[c] # NoCall /\ call[c].at = "keep" /\ call[c] \in Call
        /\ Goes(c, "write") /\ WriteHistory(base)
        /\ UNCHANGED <<head, shown, standing>>
    BY DEF KeepBase, Shape, TypeOK, ghosts
  <1>2. Busy(c) /\ FiledAfter(c) /\ Knows(call[c]) /\ StandsAfter(c)
    BY <1>1, Before
  <1>3. /\ call'[c] # NoCall /\ call'[c].at = "write"
        /\ call'[c].base = call[c].base /\ call'[c].skills = call[c].skills
        /\ call'[c].touched = call[c].touched /\ call'[c].kind = call[c].kind
        /\ call'[c].proposal = call[c].proposal
        /\ \A d \in Procs \ {c} : call'[d] = call[d]
    BY <1>1, SameRecord
  <1>4. base = head /\ base \in Document \cup {NoDoc}
    BY <1>1, <1>2 DEF Knows, Call
  <1>5. base # NoDoc => base.version \in Versions /\ HeadVersion(head) = base.version
    BY <1>4, Files
  <1>6. base # NoDoc => history'[base.version] = base
    BY <1>1, <1>2, <1>4, <1>5 DEF WriteHistory, FiledAfter, Shape, TypeOK
  <1>7. \A v \in Versions : v # HeadVersion(head) => history'[v] = history[v]
    BY <1>1, <1>5 DEF WriteHistory, Shape, TypeOK
  <1>8. HeadVersion(head) \in Nat
    BY <1>4, Files
  <1>9. Busy(c)'
    BY <1>2, <1>3 DEF Busy
  <1>10. FiledAfter(c)'
    <2>1. \A v \in Versions : history'[v] \in {NoDoc, shown[v]}
      BY <1>2, <1>4, <1>5, <1>6, <1>7, Files DEF FiledAfter, HeadVersion, Versions
    <2>2. \A v \in Versions : v < HeadVersion(head) => history'[v] # NoDoc
      BY <1>2, <1>7, <1>8 DEF FiledAfter, Versions
    <2>3. \A v \in Versions : v > HeadVersion(head) => history'[v] = NoDoc
      BY <1>1, <1>2, <1>7, <1>8 DEF FiledAfter, Versions
    <2> QED
      BY <1>1, <1>2, <2>1, <2>2, <2>3 DEF FiledAfter
  <1>11. Knows(call[c])'
    BY <1>1, <1>2, <1>3, <1>4, <1>6 DEF Knows, Wrote
  <1>12. ~Wrote(call[c]) /\ ~Wrote(call'[c])
    BY <1>1, <1>3 DEF Wrote
  <1>13. StandsAfter(c)'
    BY <1>1, <1>2, <1>12 DEF StandsAfter, HeadSkills
  <1> QED
    BY <1>9, <1>10, <1>11, <1>13, After

(* WriteHead: the next version, which no file holds yet.                    *)
LEMMA WriteHeadOrderly ==
    ASSUME Shape, Orderly, NEW c \in Procs, WriteHead(c)
    PROVE  Orderly'
  <1> DEFINE base == call[c].base
             new == Doc(call[c])
  <1>1. /\ call[c] # NoCall /\ call[c].at = "write" /\ call[c] \in Call
        /\ CallShape(call[c]) /\ Goes(c, "own")
        /\ head' = new /\ shown' = [shown EXCEPT ![HeadVersion(base) + 1] = new]
        /\ UNCHANGED <<history, standing>>
    BY DEF WriteHead, Shape, TypeOK
  <1>2. Busy(c) /\ FiledAfter(c) /\ Knows(call[c]) /\ StandsAfter(c)
    BY <1>1, Before
  <1>3. /\ call'[c] # NoCall /\ call'[c].at = "own"
        /\ call'[c].base = base /\ call'[c].skills = call[c].skills
        /\ call'[c].touched = call[c].touched /\ call'[c].kind = call[c].kind
        /\ call'[c].proposal = call[c].proposal /\ Doc(call'[c]) = new
        /\ \A d \in Procs \ {c} : call'[d] = call[d]
    BY <1>1, SameRecord
  <1>4. base = head /\ base \in Document \cup {NoDoc} /\ HeadVersion(base) < MaxVersion
    BY <1>1, <1>2 DEF Knows, Call, CallShape
  <1>5. new # NoDoc /\ new.version = HeadVersion(head) + 1
    BY <1>1, <1>4, Written
  <1>6. /\ HeadVersion(head) \in Nat /\ HeadVersion(head) + 1 \in Versions
        /\ base # NoDoc => HeadVersion(head) = base.version
        /\ base = NoDoc => HeadVersion(head) = 0
    BY <1>4, Files, SkillsAssumption DEF Versions
  <1>7. HeadVersion(head') = HeadVersion(head) + 1
    BY <1>1, <1>5 DEF HeadVersion
  <1>8. base # NoDoc => history[base.version] = base
    BY <1>1, <1>2 DEF Knows
  <1>9. \A v \in Versions : shown'[v] = IF v = HeadVersion(head) + 1 THEN new ELSE shown[v]
    BY <1>1, <1>4 DEF Shape, TypeOK
  <1>10. \A v \in Versions : v > HeadVersion(head) => history[v] = NoDoc
    BY <1>1, <1>2 DEF FiledAfter
  <1>11. Busy(c)'
    BY <1>2, <1>3 DEF Busy
  <1> HIDE DEF new
  <1>12. FiledAfter(c)'
    <2>1. shown'[head'.version] = head'
      BY <1>1, <1>5, <1>6, <1>9
    <2>2. \A v \in Versions : shown'[v] # NoDoc => shown'[v].version = v
      BY <1>2, <1>5, <1>9 DEF FiledAfter
    <2>3. \A v \in Versions : history[v] \in {NoDoc, shown'[v]}
      BY <1>2, <1>6, <1>9, <1>10 DEF FiledAfter
    <2>4. \A v \in Versions : v < HeadVersion(head) + 1 => history[v] # NoDoc
      BY <1>2, <1>6, <1>8 DEF FiledAfter, Versions
    <2>5. \A v \in Versions : v > HeadVersion(head) + 1 => history[v] = NoDoc
      BY <1>6, <1>10 DEF Versions
    <2> QED
      BY <1>1, <1>7, <2>1, <2>2, <2>3, <2>4, <2>5 DEF FiledAfter
  <1>13. Knows(call[c])'
    BY <1>1, <1>2, <1>3, <1>8 DEF Knows, Wrote
  <1>14. ~Wrote(call[c]) /\ Wrote(call'[c])
    BY <1>1, <1>3 DEF Wrote
  <1>15. StandsAfter(c)'
    BY <1>1, <1>2, <1>3, <1>4, <1>14 DEF StandsAfter, HeadSkills
  <1> QED
    BY <1>11, <1>12, <1>13, <1>15, After

(* The head of an operation that wrote it: what it did not touch is still   *)
(* there, and the proposal it applies is.                                   *)
LEMMA WrittenStands ==
    ASSUME Shape, Orderly, NEW c \in Procs, call[c] # NoCall, Wrote(call[c])
    PROVE  /\ \A p \in standing : SkillOf[p] \notin call[c].touched => HeadSkills[SkillOf[p]] = p
           /\ call[c].kind \in {"apply", "job"} =>
                 HeadSkills[SkillOf[call[c].proposal]] = call[c].proposal
           /\ head # NoDoc /\ HeadSkills = call[c].skills
           /\ HeadVersion(head) = HeadVersion(call[c].base) + 1
  <1>1. /\ call[c] \in Call /\ CallShape(call[c]) /\ standing \subseteq Proposals
        /\ call[c].at # "read"
    BY DEF Shape, TypeOK, Wrote
  <1>2. Knows(call[c]) /\ StandsAfter(c)
    BY Before
  <1>3. HeadVersion(call[c].base) < MaxVersion
    BY <1>1 DEF CallShape
  <1>4. head = Doc(call[c]) /\ head # NoDoc /\ head.skills = call[c].skills
        /\ head.version = HeadVersion(call[c].base) + 1
    BY <1>1, <1>2, <1>3, Written DEF Knows
  <1>5. HeadSkills = call[c].skills /\ HeadVersion(head) = head.version
    BY <1>4 DEF HeadSkills, SkillsIn, HeadVersion
  <1>6. \A p \in standing : SkillOf[p] \notin call[c].touched => HeadSkills[SkillOf[p]] = p
    BY <1>1, <1>2, <1>5, SkillsAssumption DEF Knows, StandsAfter
  <1> QED
    BY <1>2, <1>4, <1>5, <1>6 DEF Knows

(* An operation that ends leaves what is filed and what stands by itself.   *)
LEMMA EndedOrderly ==
    ASSUME Shape, NEW c \in Procs, Busy(c), Ends(c), FiledAfter(c)',
           \A p \in standing' : HeadSkills'[SkillOf[p]] = p
    PROVE  Orderly'
  <1>1. call'[c] = NoCall /\ \A d \in Procs \ {c} : call'[d] = call[d]
    BY Ended
  <1>2. Busy(c)'
    BY <1>1 DEF Busy
  <1>3. StandsAfter(c)'
    BY <1>1 DEF StandsAfter
  <1> QED
    BY <1>1, <1>2, <1>3, After

(* KeepOwn: the version on file is the head.                                *)
LEMMA KeepOwnOrderly ==
    ASSUME Shape, Orderly, NEW c \in Procs, KeepOwn(c)
    PROVE  Orderly'
  <1>1. /\ call[c] # NoCall /\ call[c].at = "own" /\ call[c] \in Call
        /\ CallShape(call[c]) /\ WriteHistory(Doc(call[c]))
        /\ UNCHANGED <<head, shown>>
    BY DEF KeepOwn, Shape, TypeOK
  <1>2. Busy(c) /\ FiledAfter(c) /\ Knows(call[c]) /\ StandsAfter(c)
    BY <1>1, Before
  <1>w. Wrote(call[c])
    BY <1>1 DEF Wrote
  <1>3. head = Doc(call[c]) /\ head # NoDoc /\ head \in Document
        /\ HeadVersion(head) = HeadVersion(call[c].base) + 1
    BY <1>1, <1>2, <1>w, WrittenStands DEF Knows, Shape, TypeOK
  <1>4. HeadVersion(head) = head.version /\ head.version \in Versions
        /\ HeadVersion(head) \in Nat
    BY <1>3, Files DEF Versions
  <1>5. \A v \in Versions : v # HeadVersion(head) => history'[v] = history[v]
    BY <1>1, <1>3, <1>4 DEF WriteHistory, Shape, TypeOK
  <1>6. history'[HeadVersion(head)] = head
    BY <1>1, <1>2, <1>3, <1>4 DEF WriteHistory, FiledAfter, Shape, TypeOK
  <1>7. shown[HeadVersion(head)] = head
    BY <1>2, <1>3, <1>4 DEF FiledAfter
  <1>8. \A v \in Versions : history'[v] \in {NoDoc, shown[v]}
    BY <1>2, <1>5, <1>6, <1>7 DEF FiledAfter
  <1>9. \A v \in Versions : v < HeadVersion(head) => history'[v] # NoDoc
    BY <1>2, <1>4, <1>5 DEF FiledAfter, Versions
  <1>10. \A v \in Versions : v > HeadVersion(head) => history'[v] = NoDoc
    BY <1>1, <1>2, <1>4, <1>5 DEF FiledAfter, Versions
  <1>11. FiledAfter(c)'
    BY <1>1, <1>2, <1>8, <1>9, <1>10 DEF FiledAfter
  <1>12. CASE call[c].kind \in {"apply", "job"}
    <2>1. Goes(c, "decide") /\ standing' = standing
      BY <1>12 DEF KeepOwn
    <2>2. /\ call'[c] # NoCall /\ call'[c].at = "decide"
          /\ call'[c].base = call[c].base /\ call'[c].skills = call[c].skills
          /\ call'[c].touched = call[c].touched /\ call'[c].kind = call[c].kind
          /\ call'[c].proposal = call[c].proposal /\ Doc(call'[c]) = Doc(call[c])
          /\ \A d \in Procs \ {c} : call'[d] = call[d]
      BY <1>1, <2>1, SameRecord
    <2>3. Busy(c)'
      BY <1>2, <2>2 DEF Busy
    <2>4. call[c].base # NoDoc => /\ call[c].base.version \in Versions
                                  /\ call[c].base.version # HeadVersion(head)
      BY <1>1, <1>3, Files DEF Call, Versions
    <2>5. call[c].base # NoDoc => history'[call[c].base.version] = call[c].base
      BY <1>1, <1>2, <1>5, <2>4 DEF Knows
    <2>6. Knows(call[c])'
      BY <1>1, <1>2, <1>3, <2>2, <2>5 DEF Knows, Wrote
    <2>7. Wrote(call'[c])
      BY <2>2 DEF Wrote
    <2>8. StandsAfter(c)'
      BY <1>1, <1>2, <1>w, <2>1, <2>2, <2>7 DEF StandsAfter
    <2> QED
      BY <1>11, <2>3, <2>6, <2>8, After
  <1>13. CASE call[c].kind \notin {"apply", "job"}
    <2>1. Ends(c) /\ Overwrites(c)
      BY <1>13 DEF KeepOwn
    <2>2. \A p \in standing' : HeadSkills'[SkillOf[p]] = p
      BY <1>1, <1>w, <2>1, WrittenStands DEF Overwrites, HeadSkills
    <2> QED
      BY <1>2, <1>11, <2>1, <2>2, EndedOrderly
  <1> QED
    BY <1>12, <1>13

(* The step of an operation that leaves the files (task plane, deaths).     *)
LEMMA SameFiles ==
    ASSUME NEW c \in Procs, FiledAfter(c), call[c].at # "drop",
           UNCHANGED <<head, history, shown>>
    PROVE  FiledAfter(c)'
  BY DEF FiledAfter

(* TransitionSucceeds: the proposal stands.                                 *)
LEMMA TransitionSucceedsOrderly ==
    ASSUME Shape, Orderly, NEW c \in Procs, TransitionSucceeds(c)
    PROVE  Orderly'
  <1>1. /\ call[c] # NoCall /\ call[c].at = "decide" /\ Ends(c) /\ CallShape(call[c])
        /\ standing' = {p \in standing : SkillOf[p] \notin call[c].touched} \cup {call[c].proposal}
        /\ UNCHANGED <<head, history, shown>>
    BY DEF TransitionSucceeds, Shape, files
  <1>2. Busy(c) /\ FiledAfter(c)
    BY <1>1, Before
  <1>3. Wrote(call[c]) /\ call[c].kind \in {"apply", "job"}
    BY <1>1 DEF Wrote, CallShape
  <1>4. FiledAfter(c)'
    BY <1>1, <1>2, SameFiles
  <1>5. \A p \in standing' : HeadSkills'[SkillOf[p]] = p
    BY <1>1, <1>3, WrittenStands DEF HeadSkills
  <1> QED
    BY <1>1, <1>2, <1>4, <1>5, EndedOrderly

(* An operation that ends after its write, with the files as they are.      *)
LEMMA OverwrittenOrderly ==
    ASSUME Shape, Orderly, NEW c \in Procs, call[c] # NoCall, Wrote(call[c]),
           Ends(c), Overwrites(c), UNCHANGED <<head, history, shown>>
    PROVE  Orderly'
  <1>1. Busy(c) /\ FiledAfter(c)
    BY Before
  <1>2. FiledAfter(c)'
    BY <1>1, SameFiles DEF Wrote
  <1>3. \A p \in standing' : HeadSkills'[SkillOf[p]] = p
    BY WrittenStands DEF Overwrites, HeadSkills
  <1> QED
    BY <1>1, <1>2, <1>3, EndedOrderly

(* TransitionFails: an apply goes back, the job leaves what it wrote.       *)
LEMMA TransitionFailsOrderly ==
    ASSUME Shape, Orderly, NEW c \in Procs, TransitionFails(c)
    PROVE  Orderly'
  <1>1. /\ call[c] # NoCall /\ call[c].at = "decide"
        /\ UNCHANGED <<head, history, shown>>
    BY DEF TransitionFails, files
  <1>2. Wrote(call[c])
    BY <1>1 DEF Wrote
  <1>3. CASE call[c].kind = "apply"
    <2>1. Goes(c, "restore") /\ standing' = standing
      BY <1>3 DEF TransitionFails
    <2>2. Busy(c) /\ FiledAfter(c) /\ Knows(call[c]) /\ StandsAfter(c)
      BY <1>1, Before
    <2>3. /\ call'[c] # NoCall /\ call'[c].at = "restore"
          /\ call'[c].base = call[c].base /\ call'[c].skills = call[c].skills
          /\ call'[c].touched = call[c].touched /\ call'[c].kind = call[c].kind
          /\ call'[c].proposal = call[c].proposal /\ Doc(call'[c]) = Doc(call[c])
          /\ \A d \in Procs \ {c} : call'[d] = call[d]
      BY <1>1, <2>1, SameRecord
    <2>4. Busy(c)'
      BY <2>2, <2>3 DEF Busy
    <2>5. FiledAfter(c)'
      BY <1>1, <2>2, SameFiles
    <2>6. Knows(call[c])'
      BY <1>1, <2>2, <2>3 DEF Knows, Wrote
    <2>7. Wrote(call'[c])
      BY <2>3 DEF Wrote
    <2>8. StandsAfter(c)'
      BY <1>1, <1>2, <2>1, <2>2, <2>3, <2>7 DEF StandsAfter
    <2> QED
      BY <2>4, <2>5, <2>6, <2>8, After
  <1>4. CASE call[c].kind # "apply"
    BY <1>1, <1>2, <1>4, OverwrittenOrderly DEF TransitionFails
  <1> QED
    BY <1>3, <1>4

(* RestoreHead: the previous version has a file, and that is the base       *)
(* (recoverHead, restoreApprovedVersion).                                   *)
LEMMA RestoreHeadOrderly ==
    ASSUME Shape, Orderly, NEW c \in Procs, RestoreHead(c)
    PROVE  Orderly' /\ head' = call[c].base /\ Goes(c, "drop")
  <1> DEFINE base == call[c].base
  <1>1. /\ call[c] # NoCall /\ call[c].at = "restore" /\ call[c] \in Call
        /\ CallShape(call[c]) /\ UNCHANGED <<history, shown>>
    BY DEF RestoreHead, Shape, TypeOK
  <1>2. Busy(c) /\ FiledAfter(c) /\ Knows(call[c]) /\ StandsAfter(c)
    BY <1>1, Before
  <1>3. Wrote(call[c])
    BY <1>1 DEF Wrote
  <1>4. base \in Document \cup {NoDoc} /\ HeadVersion(base) < MaxVersion
    BY <1>1 DEF Call, CallShape
  <1>5. Doc(call[c]).previous = HeadVersion(base)
    BY <1>1, <1>4, Written
  <1>6. /\ HeadVersion(base) \in Nat
        /\ base # NoDoc => HeadVersion(base) = base.version /\ base.version \in Versions
        /\ base = NoDoc <=> HeadVersion(base) = 0
    BY <1>4, Files DEF Versions
  <1>7. base # NoDoc => history[base.version] = base
    BY <1>1, <1>2 DEF Knows
  <1>8. head' = base /\ Goes(c, "drop") /\ standing' = standing
    BY <1>5, <1>6, <1>7 DEF RestoreHead
  <1>9. /\ call'[c] # NoCall /\ call'[c].at = "drop"
        /\ call'[c].base = base /\ call'[c].skills = call[c].skills
        /\ call'[c].touched = call[c].touched /\ call'[c].kind = call[c].kind
        /\ call'[c].proposal = call[c].proposal
        /\ \A d \in Procs \ {c} : call'[d] = call[d]
    BY <1>1, <1>8, SameRecord
  <1>10. HeadVersion(head) = HeadVersion(base) + 1
    BY <1>1, <1>3, WrittenStands
  <1>11. Busy(c)'
    BY <1>2, <1>9 DEF Busy
  <1>12. FiledAfter(c)'
    <2>1. base # NoDoc => shown[base.version] = base
      BY <1>2, <1>6, <1>7 DEF FiledAfter
    <2>2. \A v \in Versions : v < HeadVersion(base) => history[v] # NoDoc
      BY <1>2, <1>6, <1>10 DEF FiledAfter, Versions
    <2>3. \A v \in Versions : v > HeadVersion(base) /\ history[v] # NoDoc =>
             v = HeadVersion(base) + 1
      BY <1>1, <1>2, <1>6, <1>10 DEF FiledAfter, Versions
    <2> QED
      BY <1>1, <1>2, <1>8, <1>9, <2>1, <2>2, <2>3 DEF FiledAfter
  <1>13. Knows(call[c])'
    BY <1>1, <1>2, <1>7, <1>8, <1>9 DEF Knows, Wrote
  <1>14. ~Wrote(call'[c])
    BY <1>9 DEF Wrote
  <1>15. StandsAfter(c)'
    BY <1>1, <1>2, <1>3, <1>8, <1>14 DEF StandsAfter, HeadSkills
  <1>16. Orderly'
    BY <1>11, <1>12, <1>13, <1>15, After
  <1> QED
    BY <1>8, <1>16

(* DropHistory: the failed version's file is gone (recoverHead).            *)
LEMMA DropHistoryOrderly ==
    ASSUME Shape, Orderly, NEW c \in Procs, DropHistory(c)
    PROVE  Orderly'
  <1> DEFINE n == HeadVersion(call[c].base) + 1
  <1>1. /\ call[c] # NoCall /\ call[c].at = "drop" /\ call[c] \in Call
        /\ CallShape(call[c]) /\ Ends(c)
        /\ history' = [history EXCEPT ![Doc(call[c]).version] = NoDoc]
        /\ UNCHANGED <<head, shown, standing>>
    BY DEF DropHistory, Shape, TypeOK, ghosts
  <1>2. Busy(c) /\ FiledAfter(c) /\ Knows(call[c]) /\ StandsAfter(c)
    BY <1>1, Before
  <1>3. head = call[c].base
    BY <1>1, <1>2 DEF Knows
  <1>4. head \in Document \cup {NoDoc} /\ HeadVersion(head) < MaxVersion
    BY <1>1, <1>3 DEF Call, CallShape
  <1>5. Doc(call[c]).version = HeadVersion(head) + 1
    BY <1>1, <1>3, <1>4, Written
  <1>6. HeadVersion(head) \in Nat
    BY <1>4, Files
  <1>7. \A v \in Versions : history'[v] = IF v = HeadVersion(head) + 1 THEN NoDoc ELSE history[v]
    BY <1>1, <1>5 DEF Shape, TypeOK
  <1>8. FiledAfter(c)'
    <2>1. \A v \in Versions : history'[v] \in {NoDoc, shown[v]}
      BY <1>2, <1>7 DEF FiledAfter
    <2>2. \A v \in Versions : v < HeadVersion(head) => history'[v] # NoDoc
      BY <1>2, <1>6, <1>7 DEF FiledAfter, Versions
    <2>3. \A v \in Versions : v > HeadVersion(head) => history'[v] = NoDoc
      BY <1>2, <1>7 DEF FiledAfter
    <2> QED
      BY <1>1, <1>2, <2>1, <2>2, <2>3 DEF FiledAfter
  <1>9. \A p \in standing' : HeadSkills'[SkillOf[p]] = p
    BY <1>1, <1>2 DEF StandsAfter, Wrote, HeadSkills
  <1> QED
    BY <1>1, <1>2, <1>8, <1>9, EndedOrderly

(* Die, but for the death that leaves a failed version's file.              *)
LEMMA DieOrderly ==
    ASSUME Shape, Orderly, Sound', NEW c \in Procs, Die(c)
    PROVE  Orderly'
  <1>1. /\ call[c] # NoCall /\ call[c].at # "drop" /\ call[c] \in Call
        /\ Ends(c) /\ UNCHANGED <<head, history, shown>>
    BY DEF Die, Sound, Shape, TypeOK, files
  <1>2. Busy(c) /\ FiledAfter(c) /\ StandsAfter(c)
    BY <1>1, Before
  <1>3. CASE Harmless(c)
    <2>1. FiledAfter(c)'
      BY <1>1, <1>2, SameFiles
    <2>2. standing' = standing /\ ~Wrote(call[c])
      BY <1>3 DEF Die, Harmless, Wrote
    <2>3. \A p \in standing' : HeadSkills'[SkillOf[p]] = p
      BY <1>1, <1>2, <2>2 DEF StandsAfter, HeadSkills
    <2> QED
      BY <1>1, <1>2, <2>1, <2>3, EndedOrderly
  <1>4. CASE ~Harmless(c)
    <2>1. Overwrites(c) /\ Wrote(call[c])
      BY <1>1, <1>4 DEF Die, Harmless, Wrote, Call
    <2> QED
      BY <1>1, <2>1, OverwrittenOrderly
  <1> QED
    BY <1>3, <1>4

-----------------------------------------------------------------------------
(* The invariant.                                                           *)

(* Nothing makes an unsound state sound again.                              *)
LEMMA SoundBefore == Shape /\ [Next]_vars /\ Sound' => Sound
  BY DEF Shape, TypeOK, Next, vars, Sound, Begins, Apply, Reconcile, Edit, Rollback, ReadBase,
         KeepBase, WriteHead, KeepOwn, TransitionSucceeds, TransitionFails, RestoreHead,
         DropHistory, Die, Expire, ghosts

(* Every step of the one operation in progress keeps the files in order.    *)
LEMMA OrderKept == Shape /\ Orderly /\ [Next]_vars /\ Sound' => Orderly'
  <1> SUFFICES ASSUME Shape, Orderly, [Next]_vars, Sound' PROVE Orderly'
    OBVIOUS
  <1>h. HeadSkills \in SkillMaps
    BY Files DEF HeadSkills, Shape, TypeOK
  <1>u. \A s \in Skills, content \in Contents :
           /\ Upserted(s, content) \in SkillMaps
           /\ Upserted(s, content)[s] = content
           /\ \A t \in Skills \ {s} : Upserted(s, content)[t] = HeadSkills[t]
    BY <1>h DEF Upserted, SkillMaps
  <1>1. ASSUME NEW c \in Procs, NEW p \in Proposals, Apply(c, p) PROVE Orderly'
    BY <1>1, <1>u, BegunOrderly, SkillsAssumption DEF Apply, Contents
  <1>2. ASSUME NEW c \in Procs, NEW p \in Proposals, Reconcile(c, p) PROVE Orderly'
    BY <1>2, <1>u, BegunOrderly, SkillsAssumption DEF Reconcile, Contents
  <1>3. ASSUME NEW c \in Procs, NEW s \in Skills, NEW content \in {Edited, Absent},
               Edit(c, s, content)
        PROVE  Orderly'
    BY <1>3, <1>u, BegunOrderly DEF Edit, Contents
  <1>4. ASSUME NEW c \in Procs, NEW v \in Versions, Rollback(c, v) PROVE Orderly'
    <2>1. history[v] \in Document
      BY <1>4 DEF Rollback, Shape, TypeOK
    <2>2. history[v].skills \in SkillMaps
      BY <2>1 DEF Document
    <2> QED
      BY <1>4, <2>2, BegunOrderly DEF Rollback
  <1>5. ASSUME NEW p \in Proposals, Expire(p) PROVE Orderly'
    BY <1>5 DEF Expire, files, ghosts, Orderly, OneBusy, Filed, Knows, Stands, HeadSkills
  <1>6. CASE UNCHANGED vars
    BY <1>6 DEF vars, files, ghosts, Orderly, OneBusy, Filed, Knows, Stands, HeadSkills
  <1> QED
    BY <1>1, <1>2, <1>3, <1>4, <1>5, <1>6, ReadBaseOrderly, KeepBaseOrderly, WriteHeadOrderly,
       KeepOwnOrderly, TransitionSucceedsOrderly, TransitionFailsOrderly, RestoreHeadOrderly,
       DropHistoryOrderly, DieOrderly DEF Next

(* The invariant holds before anything happened.                            *)
LEMMA InitHolds == Init => IInv
  <1> SUFFICES ASSUME Init PROVE IInv
    OBVIOUS
  <1>1. Shape
    BY DEF Init, Shape, TypeOK
  <1>2. HeadVersion(head) = 0
    BY DEF Init, HeadVersion
  <1>3. Filed
    BY <1>2, SkillsAssumption DEF Init, Filed, Versions
  <1>4. Orderly
    BY <1>3 DEF Init, Orderly, OneBusy, Stands
  <1> QED
    BY <1>1, <1>4 DEF IInv

(* The types, and while nothing overlapped the order of the files, hold in  *)
(* every state.                                                             *)
THEOREM Invariance == Spec => []IInv
  <1>1. IInv /\ [Next]_vars => IInv'
    BY ShapeKept, SoundBefore, OrderKept DEF IInv
  <1> QED
    BY <1>1, InitHolds, PTL DEF Spec

(* Types of the files and of the operations (file-store.ts).                *)
THEOREM TypeCorrect == Spec => []TypeOK
  <1>1. IInv => TypeOK
    BY DEF IInv, Shape
  <1> QED
    BY <1>1, Invariance, PTL

(* A version on file is what the head held as that version, and none below  *)
(* the head is missing (writeHistorySnapshotIfMissing, recoverHead).        *)
THEOREM HistoryHolds == Spec => []HistoryFaithful
  <1>1. IInv => HistoryFaithful
    BY DEF IInv, Orderly, Filed, HistoryFaithful
  <1> QED
    BY <1>1, Invariance, PTL

(* A refused apply leaves the head it replaced (revertAppliedProposal).     *)
THEOREM FailedApplyHolds == Spec => []FailedApplyRestores
  <1>1. IInv => FailedApplyRestores
    BY DEF IInv, Orderly, Knows, FailedApplyRestores
  <1> QED
    BY <1>1, Invariance, PTL

(* An applied proposal's content stays in the head (applyAcceptedProposal). *)
THEOREM AppliedHolds == Spec => []AppliedStands
  <1>1. ASSUME IInv, Sound, NEW p \in standing,
               \A c \in Procs : call[c] # NoCall => SkillOf[p] \notin call[c].touched
        PROVE  HeadSkills[SkillOf[p]] = p
    <2>1. Shape /\ Orderly
      BY <1>1 DEF IInv
    <2>2. CASE \E c \in Procs : call[c] # NoCall /\ Wrote(call[c])
      BY <1>1, <2>1, <2>2, WrittenStands
    <2>3. CASE ~\E c \in Procs : call[c] # NoCall /\ Wrote(call[c])
      BY <1>1, <2>1, <2>3 DEF Orderly, Stands
    <2> QED
      BY <2>2, <2>3
  <1>2. IInv => AppliedStands
    BY <1>1 DEF AppliedStands
  <1> QED
    BY <1>2, Invariance, PTL
=============================================================================
