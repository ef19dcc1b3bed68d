------------------------ MODULE TaskDelegationsProofs ------------------------
(***************************************************************************)
(* Proofs about the delegation lane.                                       *)
(*                                                                         *)
(* For any number of processes: types (TInv), and that no set of           *)
(* delegations blocks itself (OldestReady, from what the scheduler's loop  *)
(* over the candidates yields).                                            *)
(*                                                                         *)
(* For jobs one after another, which is one process: every action is first *)
(* shown to be one of a few kinds of move (StepKinds), each of which keeps *)
(* two invariants.  JobInv says that what is queued never overrules an end *)
(* and lets run only what overlaps nothing that runs; the claim rests on   *)
(* the batches (ClaimableDisjoint).  MailInv says that the mailboxes tell  *)
(* the truth about the lane as it will be when the queue is in.            *)
(***************************************************************************)
EXTENDS TaskDelegations, SubsequencesProofs, WellFoundedInduction

-----------------------------------------------------------------------------
(* Entries and moves.                                                       *)

DEntry(d, s) == [type |-> "delegation", id |-> d, status |-> s]
VEntry(d, s) == [type |-> "verification", id |-> d, status |-> s]
NEntry(kind, d, s) == [type |-> "note", kind |-> kind, id |-> d, status |-> s]

\* Every step of a job, of its start and of its end is such a move.
Moves(c, p, entries) ==
    /\ queue[c] = <<>>
    /\ proc' = [proc EXCEPT ![c] = p]
    /\ queue' = [queue EXCEPT ![c] = entries]
    /\ UNCHANGED <<lane, deaths>>

\* The moves that queue nothing leave no claimed delegation behind.
Silent(c, p, entries) ==
    /\ entries = <<>> /\ {proc[c].at, p.at} \cap {"finish", "verify"} = {}
    /\ p.at = "idle" => p = Idle
    /\ p.at = "cancel" =>
          \E drifted \in SUBSET Delegations :
                 /\ \A d \in drifted : delegation[d] = "queued"
                 /\ p.todo = Subsequence(order, {i \in DOMAIN order : order[i] \in drifted})

Reconciles(c, p, entries) ==
    /\ proc[c] = Idle /\ p.at \in {"tick", "plan"} /\ entries = ReconcileEntries

Enqueues(c, p, entries) ==
    /\ proc[c] = Idle /\ p.at = "end"
    /\ \E d \in Delegations :
          entries = DelegationEntries(d, IF delegation[d] = "absent" THEN "queued"
                                                                      ELSE delegation[d])

Decides(c, p, entries) ==
    /\ proc[c] = Idle /\ p.at = "end"
    /\ \E d \in Delegations : /\ verification[d] = "pending"
                              /\ entries = VerificationEntries(d, "decided")

Claims(c, p, entries) ==
    /\ proc[c].at = "claim" /\ p.at = "finish" /\ p.current = proc[c].current
    /\ Claimable(p.current) /\ entries = DelegationEntries(p.current, "running")

Finishes(c, p, entries) ==
    /\ proc[c].at = "finish" /\ p.current = proc[c].current
    /\ \E s \in {"completed", "failed"} :
          /\ p.at = IF s = "completed" /\ p.current \in Verified THEN "verify" ELSE "next"
          /\ entries = DelegationEntries(p.current, s)

Requests(c, p, entries) ==
    /\ proc[c].at = "verify" /\ p.at = "next" /\ p.current = proc[c].current
    /\ entries = VerificationEntries(p.current, "pending")

Cancels(c, p, entries) ==
    /\ proc[c].at = "cancel" /\ p.at = "cancel" /\ proc[c].todo # <<>>
    /\ p.todo = Tail(proc[c].todo)
    /\ entries = DelegationEntries(Head(proc[c].todo), "cancelled")

Kind(c, p, entries) ==
    \/ Silent(c, p, entries) \/ Reconciles(c, p, entries) \/ Enqueues(c, p, entries)
    \/ Decides(c, p, entries) \/ Claims(c, p, entries) \/ Finishes(c, p, entries)
    \/ Requests(c, p, entries) \/ Cancels(c, p, entries)

\* A job that claims or finishes a delegation has one; an idle process nothing.
Sane(p, q) ==
    /\ p.at \in {"claim", "finish", "verify"} => p.current \in Delegations
    /\ p.at = "idle" => p = Idle
    /\ p = Idle => q = <<>>

Ordered ==
    /\ \A i, j \in 1..Len(order) : i # j => order[i] # order[j]
    /\ \A d \in Delegations :
          delegation[d] # "absent" <=> \E i \in 1..Len(order) : order[i] = d

TInv == TypeOK /\ (\A c \in Procs : Sane(proc[c], queue[c])) /\ Ordered

-----------------------------------------------------------------------------

\* What the only process may append about a delegation: it never overrules an
\* end, and lets run only what overlaps nothing that runs.
Allowed(d, s) ==
    /\ delegation[d] \in Terminal => s = delegation[d]
    /\ s = "running" /\ delegation[d] # "running" =>
          \A x \in Delegations : delegation[x] = "running" => ~Overlap(d, x)

\* A queue with several delegation entries is a reconciliation.
LegalQueue(q) ==
    /\ \A k \in 1..Len(q) :
          /\ q[k].type = "delegation" => Allowed(q[k].id, q[k].status)
          /\ q[k].type = "verification" => delegation[q[k].id] = "completed"
    /\ \A k, m \in 1..Len(q) :
          k # m /\ q[k].type = "delegation" /\ q[m].type = "delegation"
              => q[k].status = "failed"

\* What it claimed runs, or will once the queue is in; what it finished ended.
LegalJob(p, q) ==
    /\ p.at = "finish" =>
          /\ delegation[p.current] = "running"
                \/ (q # <<>> /\ q[1] = DEntry(p.current, "running"))
          /\ \A k \in 1..Len(q) :
                q[k].type = "delegation" => q[k] = DEntry(p.current, "running")
    /\ p.at = "verify" =>
          \/ delegation[p.current] = "completed"
          \/ q # <<>> /\ q[1] = DEntry(p.current, "completed")
    /\ p.at = "cancel" =>
          \A i \in 1..Len(p.todo) :
             /\ delegation[p.todo[i]] = "queued"
             /\ \A j \in 1..Len(p.todo) : i # j => p.todo[i] # p.todo[j]
             /\ \A k \in 1..Len(q) : q[k].type = "delegation" => q[k].id # p.todo[i]

JobInv ==
    /\ RunningDisjoint /\ VerifiedCompleted
    /\ \A c \in Procs : LegalQueue(queue[c]) /\ LegalJob(proc[c], queue[c])

-----------------------------------------------------------------------------
\* The lane once the entries of q are in, for a q of at most one record and
\* its notification.
SettledDelegation(q) ==
    IF q # <<>> /\ q[1].type = "delegation"
      THEN [delegation EXCEPT ![q[1].id] = q[1].status] ELSE delegation
SettledVerification(q) ==
    IF q # <<>> /\ q[1].type = "verification"
      THEN [verification EXCEPT ![q[1].id] = q[1].status] ELSE verification
SettledNote(q) ==
    IF q # <<>> /\ q[Len(q)].type = "note"
      THEN [note EXCEPT ![q[Len(q)].kind][q[Len(q)].id] = q[Len(q)].status] ELSE note

Short(q) ==
    \/ q = <<>>
    \/ Len(q) = 1
    \/ Len(q) = 2 /\ q[1].type # "note" /\ q[2].type = "note"

\* The mailboxes tell the truth about it, and only the claimed delegation runs.
Covered(p, d, running, verifying, notes) ==
    /\ notes["worker"][d] = "pending" <=> running = "queued"
    /\ notes["verifier"][d] = "pending" <=> verifying = "pending"
    /\ running = "running" => p.at = "finish" /\ p.current = d
    /\ d \in Verified /\ running = "completed" =>
          verifying # "absent" \/ (p.at = "verify" /\ p.current = d)

Tells(p, q) ==
    /\ Short(q)
    /\ \A d \in Delegations :
          Covered(p, d, SettledDelegation(q)[d], SettledVerification(q)[d], SettledNote(q))

MailInv == deaths = 0 => \A c \in Procs : Tells(proc[c], queue[c])

-----------------------------------------------------------------------------
(* Lists.                                                                   *)

LEMMA LeastOne ==
    ASSUME NEW S \in SUBSET Nat, S # {}
    PROVE  \E m \in S : \A n \in S : m =< n
  <1>1. PICK m \in S : \A y \in S : <<y, m>> \notin OpToRel(<, Nat)
    BY NatLessThanWellFounded, WFMin
  <1>2. \A y \in S : ~(y < m)
    BY <1>1 DEF OpToRel
  <1>3. \A n \in S : n \in Int
    OBVIOUS
  <1> QED
    BY <1>2, <1>3

\* t lists the entries of s at the positions in I, each once.
Keeps(t, s, I) ==
    /\ \A n \in 1..Len(t) : \E i \in I : t[n] = s[i]
    /\ \A i \in I : \E n \in 1..Len(t) : t[n] = s[i]
    /\ I = {} <=> t = <<>>
    /\ (\A i, j \in DOMAIN s : i # j => s[i] # s[j]) =>
          \A m, n \in 1..Len(t) : m # n => t[m] # t[n]

LEMMA Kept ==
    ASSUME NEW T, NEW s \in Seq(T), NEW I, I \subseteq DOMAIN s
    PROVE  Subsequence(s, I) \in Seq(T) /\ Keeps(Subsequence(s, I), s, I)
  <1> DEFINE t == Subsequence(s, I)
  <1>1. I \subseteq 1..Len(s) /\ DOMAIN s = 1..Len(s) /\ Len(s) \in Nat
    OBVIOUS
  <1>2. t \in Seq(T) /\ Len(t) = Cardinality(I)
    BY <1>1, SubsequenceFrom
  <1>3. PICK f : From(f, t, s, I)
    BY <1>1, SubsequenceFrom
  <1> HIDE DEF t
  <1>4. \A n \in 1..Len(t) : f[n] \in I /\ t[n] = s[f[n]]
    BY <1>3 DEF From
  <1>5. \A i \in I : \E n \in 1..Len(t) : t[n] = s[i]
    BY <1>3 DEF From
  <1>6. I = {} => t = <<>>
    BY <1>2, FS_EmptySet
  <1>7. I # {} => t # <<>>
    BY <1>2, <1>5
  <1>8. ASSUME \A i, j \in DOMAIN s : i # j => s[i] # s[j],
               NEW m \in 1..Len(t), NEW n \in 1..Len(t), m # n
        PROVE  t[m] # t[n]
    <2>1. f[m] # f[n]
      <3>1. f[m] \in Int /\ f[n] \in Int /\ m \in Int /\ n \in Int
        BY <1>1, <1>4
      <3>2. m < n \/ n < m
        BY <1>8, <3>1
      <3>3. f[m] < f[n] \/ f[n] < f[m]
        BY <1>3, <3>2 DEF From
      <3> QED
        BY <3>1, <3>3
    <2> QED
      BY <1>1, <1>4, <1>8, <2>1
  <1> QED
    <2>1. \A n \in 1..Len(t) : \E i \in I : t[n] = s[i]
      BY <1>4
    <2>2. Keeps(t, s, I)
      BY <1>5, <1>6, <1>7, <1>8, <2>1 DEF Keeps
    <2> QED
      BY <1>2, <2>2 DEF t

(* Joining lists of entries yields entries.                                 *)
LEMMA Joined ==
    ASSUME NEW T, NEW ss \in Seq(Seq(T))
    PROVE  FlattenSeq(ss) \in Seq(T)
  <1> DEFINE N == Len(ss)
             Joins(g, m) ==
                g = [i \in 1..m |-> IF i = 1 THEN ss[i] ELSE g[i-1] \o ss[i]]
  <1>0. N \in Nat /\ \A i \in 1..N : ss[i] \in Seq(T)
    OBVIOUS
  <1>1. \A m \in 0..N : \E g : Joins(g, m)
    <2> DEFINE S == {m \in 0..N : ~\E g : Joins(g, m)}
    <2> SUFFICES ASSUME S # {} PROVE FALSE
      OBVIOUS
    <2>1. PICK m \in S : \A n \in S : m =< n
      <3> HIDE DEF Joins
      <3>1. S \in SUBSET Nat
        BY <1>0
      <3> HIDE DEF S
      <3> QED
        BY <3>1, LeastOne
    <2>2. m # 0
      <3>1. Joins([i \in 1..0 |-> i], 0)
        OBVIOUS
      <3> QED
        BY <2>1, <3>1
    <2>3. m \in 1..N /\ m - 1 \in 0..N /\ ~(m =< m - 1)
      BY <1>0, <2>1, <2>2
    <2>4. PICK g : Joins(g, m - 1)
      BY <2>1, <2>3
    <2> DEFINE h == [i \in 1..m |-> IF i = 1 THEN ss[i] ELSE g[i-1] \o ss[i]]
    <2>5. \A i \in 1..m : i # 1 => i - 1 \in 1..(m - 1) /\ h[i-1] = g[i-1]
      <3> TAKE i \in 1..m
      <3> HAVE i # 1
      <3>1. i - 1 \in 1..(m - 1) /\ i - 1 \in 1..m
        BY <2>3
      <3>2. g[i-1] = IF i - 1 = 1 THEN ss[i-1] ELSE g[i-1-1] \o ss[i-1]
        BY <2>4, <3>1
      <3> QED
        BY <3>1, <3>2
    <2>6. Joins(h, m)
      BY <2>5
    <2> QED
      BY <2>1, <2>6
  <1>2. CASE N = 0
    BY <1>2 DEF FlattenSeq
  <1>3. CASE N # 0
    <2> DEFINE flatten == CHOOSE g : Joins(g, N)
    <2>1. Joins(flatten, N)
      <3> HIDE DEF Joins
      <3>1. \E g : Joins(g, N)
        BY <1>0, <1>1
      <3> QED
        BY <3>1
    <2>2. FlattenSeq(ss) = flatten[N]
      BY <1>3 DEF FlattenSeq
    <2> HIDE DEF flatten
    <2>3. \A i \in 1..N : flatten[i] = IF i = 1 THEN ss[i] ELSE flatten[i-1] \o ss[i]
      BY <2>1
    <2>4. \A i \in 1..N : flatten[i] \in Seq(T)
      <3> DEFINE S == {i \in 1..N : flatten[i] \notin Seq(T)}
      <3> SUFFICES ASSUME S # {} PROVE FALSE
        OBVIOUS
      <3>1. PICK m \in S : \A n \in S : m =< n
        <4>1. S \in SUBSET Nat
          BY <1>0
        <4> HIDE DEF S
        <4> QED
          BY <4>1, LeastOne
      <3>2. m # 1
        BY <1>0, <2>3, <3>1
      <3>3. m - 1 \in 1..N /\ m \in 1..N /\ ~(m =< m - 1)
        BY <1>0, <3>1, <3>2
      <3>4. flatten[m-1] \in Seq(T)
        BY <3>1, <3>3
      <3>5. flatten[m] = flatten[m-1] \o ss[m]
        BY <2>3, <3>2, <3>3
      <3>6. flatten[m] \in Seq(T)
        BY <1>0, <3>3, <3>4, <3>5, ConcatProperties
      <3> QED
        BY <3>1, <3>6
    <2> QED
      BY <1>0, <1>3, <2>2, <2>4
  <1> QED
    BY <1>2, <1>3

-----------------------------------------------------------------------------
(* The scheduler.                                                           *)

\* Batches can be formed, whatever overlaps (the code's loop over the candidates).
LEMMA GreedyExists ==
    ASSUME NEW s, Len(s) \in Nat
    PROVE  \E F \in SUBSET (1..Len(s)) : Greedy(F, s)
  <1> DEFINE Upto(F, m) ==
                \A i \in 1..m : i \in F <=> \A k \in F : k < i => ~Overlap(s[i], s[k])
             S == {m \in 0..Len(s) : ~\E F \in SUBSET (1..m) : Upto(F, m)}
  <1> SUFFICES ASSUME S # {} PROVE FALSE
    BY DEF Greedy
  <1>1. PICK m \in S : \A n \in S : m =< n
    <2>1. S \in SUBSET Nat
      OBVIOUS
    <2> HIDE DEF S
    <2> QED
      BY <2>1, LeastOne
  <1>2. m # 0
    <2>1. Upto({}, 0) /\ {} \in SUBSET (1..0)
      OBVIOUS
    <2> QED
      BY <1>1, <2>1
  <1>3. m \in Nat /\ m - 1 \in 0..Len(s) /\ ~(m =< m - 1)
    BY <1>1, <1>2
  <1>4. PICK F \in SUBSET (1..(m - 1)) : Upto(F, m - 1)
    <2> HIDE DEF Upto
    <2> QED
      BY <1>1, <1>3
  <1> DEFINE G == IF \A k \in F : k < m => ~Overlap(s[m], s[k]) THEN F \cup {m} ELSE F
  <1>5. /\ \A i \in 1..m : i = m \/ i \in 1..(m - 1)
        /\ \A i \in 1..(m - 1) : i < m /\ i # m
        /\ \A k \in F : k < m /\ k # m
        /\ ~(m < m)
    BY <1>2, <1>3
  <1>6. G \in SUBSET (1..m)
    BY <1>2, <1>3
  <1>7. m \in G <=> \A k \in G : k < m => ~Overlap(s[m], s[k])
    BY <1>5
  <1>8. ASSUME NEW i \in 1..(m - 1)
        PROVE  i \in G <=> \A k \in G : k < i => ~Overlap(s[i], s[k])
    <2>1. i \in G <=> i \in F
      BY <1>5
    <2>2. \A k \in G : k < i => k \in F
      BY <1>3
    <2>3. F \subseteq G
      OBVIOUS
    <2> HIDE DEF G
    <2> QED
      BY <1>4, <2>1, <2>2, <2>3
  <1> HIDE DEF G
  <1>9. Upto(G, m)
    BY <1>5, <1>7, <1>8
  <1> QED
    BY <1>1, <1>6, <1>9

LEMMA InStatusOf ==
    ASSUME order \in Seq(Delegations), NEW s
    PROVE  /\ InStatus(s) \in Seq(Delegations)
           /\ \A n \in 1..Len(InStatus(s)) :
                 delegation[InStatus(s)[n]] = s /\ InStatus(s)[n] \in Delegations
           /\ \A i \in 1..Len(order) : delegation[order[i]] = s =>
                 \E n \in 1..Len(InStatus(s)) : InStatus(s)[n] = order[i]
           /\ (\A i, j \in 1..Len(order) : i # j => order[i] # order[j]) =>
                 \A m, n \in 1..Len(InStatus(s)) : m # n => InStatus(s)[m] # InStatus(s)[n]
           /\ (\A i \in 1..Len(order) : delegation[order[i]] # s) => InStatus(s) = <<>>
           /\ \A n \in 1..Len(InStatus(s)) : \E i \in 1..Len(order) : InStatus(s)[n] = order[i]
  <1> DEFINE I == {i \in DOMAIN order : delegation[order[i]] = s}
             t == InStatus(s)
  <1>1. /\ \A i \in I : i \in 1..Len(order) /\ delegation[order[i]] = s /\ order[i] \in Delegations
        /\ \A i \in 1..Len(order) : delegation[order[i]] = s => i \in I
        /\ DOMAIN order = 1..Len(order)
    OBVIOUS
  <1>2. I \subseteq DOMAIN order /\ t = Subsequence(order, I)
    BY DEF InStatus
  <1> HIDE DEF I, t
  <1>3. t \in Seq(Delegations) /\ Keeps(t, order, I)
    BY <1>2, Kept
  <1>4. \A n \in 1..Len(t) : delegation[t[n]] = s /\ t[n] \in Delegations
    <2> TAKE n \in 1..Len(t)
    <2>1. PICK i \in I : t[n] = order[i]
      BY <1>3 DEF Keeps
    <2> QED
      BY <1>1, <2>1
  <1>5. \A i \in 1..Len(order) : delegation[order[i]] = s => \E n \in 1..Len(t) : t[n] = order[i]
    BY <1>1, <1>3 DEF Keeps
  <1>6. (\A i, j \in 1..Len(order) : i # j => order[i] # order[j]) =>
           \A m, n \in 1..Len(t) : m # n => t[m] # t[n]
    BY <1>1, <1>3 DEF Keeps
  <1>7. (\A i \in 1..Len(order) : delegation[order[i]] # s) => t = <<>>
    BY <1>1, <1>3 DEF Keeps
  <1>8. \A n \in 1..Len(t) : \E i \in 1..Len(order) : t[n] = order[i]
    BY <1>1, <1>3 DEF Keeps
  <1> QED
    BY <1>3, <1>4, <1>5, <1>6, <1>7, <1>8, Zenon DEF t

LEMMA ReadyMailboxOf ==
    ASSUME order \in Seq(Delegations)
    PROVE  /\ ReadyMailbox \in Seq(Delegations)
           /\ \A i \in 1..Len(order) :
                 delegation[order[i]] = "queued" /\ ReadyToStart(order[i])
                     => ReadyMailbox # <<>>
  <1> DEFINE I == {i \in DOMAIN order : /\ delegation[order[i]] = "queued"
                                        /\ ReadyToStart(order[i])}
  <1>1. I \subseteq DOMAIN order /\ ReadyMailbox = Subsequence(order, I)
    BY DEF ReadyMailbox
  <1>2. \A i \in 1..Len(order) :
          delegation[order[i]] = "queued" /\ ReadyToStart(order[i]) => I # {}
    OBVIOUS
  <1> HIDE DEF I
  <1>3. ReadyMailbox \in Seq(Delegations) /\ Keeps(ReadyMailbox, order, I)
    BY <1>1, Kept
  <1> QED
    BY <1>2, <1>3 DEF Keeps

(* The candidates are the running delegations and then the queued ones.     *)
LEMMA CandidatesOf ==
    ASSUME order \in Seq(Delegations)
    PROVE  LET R == InStatus("running") Q == InStatus("queued") IN
           /\ Len(R) \in Nat /\ Len(Q) \in Nat
           /\ Len(Candidates) = Len(R) + Len(Q)
           /\ \A n \in 1..Len(R) : n \in 1..Len(Candidates) /\ Candidates[n] = R[n]
           /\ \A i \in 1..Len(Candidates) :
                 i \in 1..Len(R) \/ (Len(R) < i /\ delegation[Candidates[i]] = "queued")
           /\ R = <<>> => Candidates = Q
  <1> DEFINE R == InStatus("running")
             Q == InStatus("queued")
  <1>1. R \in Seq(Delegations) /\ Q \in Seq(Delegations)
    BY InStatusOf
  <1>2. \A n \in 1..Len(Q) : delegation[Q[n]] = "queued"
    BY InStatusOf
  <1>3. Candidates = R \o Q
    BY DEF Candidates
  <1> HIDE DEF R, Q
  <1>4. /\ Len(R) \in Nat /\ Len(Q) \in Nat
        /\ Len(Candidates) = Len(R) + Len(Q)
        /\ \A i \in 1..(Len(R) + Len(Q)) :
              Candidates[i] = IF i =< Len(R) THEN R[i] ELSE Q[i - Len(R)]
    BY <1>1, <1>3, ConcatProperties
  <1>5. \A n \in 1..Len(R) : n \in 1..Len(Candidates) /\ Candidates[n] = R[n]
    BY <1>4
  <1>6. ASSUME NEW i \in 1..Len(Candidates)
        PROVE  i \in 1..Len(R) \/ (Len(R) < i /\ delegation[Candidates[i]] = "queued")
    <2>1. CASE i =< Len(R)
      BY <1>4, <2>1
    <2>2. CASE ~(i =< Len(R))
      <3>1. i - Len(R) \in 1..Len(Q) /\ Len(R) < i
        BY <1>4, <2>2
      <3>2. Candidates[i] = Q[i - Len(R)]
        BY <1>4, <2>2
      <3> QED
        BY <1>2, <3>1, <3>2
    <2> QED
      BY <2>1, <2>2
  <1>7. R = <<>> => Candidates = Q
    BY <1>1, <1>3, ConcatEmptySeq
  <1> QED
    BY <1>4, <1>5, <1>6, <1>7 DEF R, Q

LEMMA FirstBatchOf ==
    ASSUME order \in Seq(Delegations)
    PROVE  \E F \in SUBSET (1..Len(Candidates)) :
              Greedy(F, Candidates) /\ FirstBatch = {Candidates[i] : i \in F}
  <1>1. Len(Candidates) \in Nat
    BY CandidatesOf
  <1>2. \E F \in SUBSET (1..Len(Candidates)) : Greedy(F, Candidates)
    BY <1>1, GreedyExists
  <1> QED
    BY <1>2 DEF FirstBatch

(* A delegation that may be claimed overlaps none that runs: those come     *)
(* first in the order of the candidates, and overlap none among themselves  *)
(* (compareSubagentSchedulingCandidates and readyToStart).                  *)
LEMMA ClaimableDisjoint ==
    ASSUME order \in Seq(Delegations), Ordered, RunningDisjoint,
           NEW d \in Delegations, Claimable(d),
           NEW x \in Delegations, delegation[x] = "running"
    PROVE  ~Overlap(d, x)
  <1> DEFINE R == InStatus("running")
  <1>1. PICK F \in SUBSET (1..Len(Candidates)) :
          Greedy(F, Candidates) /\ FirstBatch = {Candidates[i] : i \in F}
    BY FirstBatchOf
  <1>2. PICK n \in 1..Len(R) : R[n] = x
    BY InStatusOf DEF Ordered
  <1>3. /\ Len(R) \in Nat
        /\ \A m \in 1..Len(R) : m \in 1..Len(Candidates) /\ Candidates[m] = R[m]
        /\ \A i \in 1..Len(Candidates) :
              i \in 1..Len(R) \/ (Len(R) < i /\ delegation[Candidates[i]] = "queued")
    BY CandidatesOf
  <1>4. \A m \in 1..Len(R) :
          delegation[R[m]] = "running" /\ R[m] \in Delegations /\ (m # n => R[m] # x)
    BY <1>2, InStatusOf DEF Ordered
  <1> HIDE DEF R
  <1>5. n \in F
    <2>1. ASSUME NEW k \in F, k < n PROVE ~Overlap(Candidates[n], Candidates[k])
      <3>1. k \in 1..Len(R) /\ k # n
        BY <1>3, <2>1
      <3>2. delegation[R[k]] = "running" /\ R[k] \in Delegations /\ R[k] # x
        BY <1>4, <3>1
      <3>3. ~Overlap(x, R[k])
        BY <3>2 DEF RunningDisjoint
      <3> QED
        BY <1>2, <1>3, <3>1, <3>3
    <2> QED
      BY <1>1, <1>3, <2>1 DEF Greedy
  <1>6. PICK i \in F : Candidates[i] = d
    BY <1>1 DEF Claimable, ReadyToStart
  <1>7. delegation[d] = "queued"
    BY DEF Claimable
  <1>8. i \in 1..Len(Candidates) /\ n < i
    <2>1. i \notin 1..Len(R)
      BY <1>3, <1>4, <1>6, <1>7
    <2> QED
      BY <1>3, <2>1
  <1>9. ~Overlap(Candidates[i], Candidates[n])
    BY <1>1, <1>5, <1>6, <1>8 DEF Greedy
  <1> QED
    BY <1>2, <1>3, <1>6, <1>9

(* The scheduler never blocks everyone on everyone: with nothing running    *)
(* the oldest queued delegation may start.                                  *)
LEMMA OldestReady == TypeOK => SomethingReady
  <1> SUFFICES ASSUME TypeOK, InStatus("queued") # <<>>, InStatus("running") = <<>>
               PROVE  ReadyMailbox # <<>>
    BY DEF SomethingReady
  <1>1. order \in Seq(Delegations)
    BY DEF TypeOK
  <1> DEFINE Q == InStatus("queued")
  <1>2. Q \in Seq(Delegations) /\ Q # <<>> /\ Candidates = Q
    BY <1>1, InStatusOf, CandidatesOf
  <1>3. delegation[Q[1]] = "queued" /\ Q[1] \in Delegations
    BY <1>1, <1>2, InStatusOf
  <1>4. PICK F \in SUBSET (1..Len(Candidates)) :
          Greedy(F, Candidates) /\ FirstBatch = {Candidates[i] : i \in F}
    BY <1>1, FirstBatchOf
  <1> HIDE DEF Q
  <1>5. 1 \in F
    <2>1. 1 \in 1..Len(Candidates) /\ \A k \in F : ~(k < 1)
      BY <1>2
    <2> QED
      BY <1>4, <2>1 DEF Greedy
  <1>6. ReadyToStart(Q[1])
    BY <1>2, <1>4, <1>5 DEF ReadyToStart
  <1>7. \E i \in 1..Len(order) : order[i] = Q[1]
    <2>1. 1 \in 1..Len(Q)
      BY <1>2
    <2>2. \A n \in 1..Len(Q) : \E i \in 1..Len(order) : Q[n] = order[i]
      BY <1>1, InStatusOf DEF Q
    <2> QED
      BY <2>1, <2>2
  <1> QED
    BY <1>1, <1>3, <1>6, <1>7, ReadyMailboxOf

-----------------------------------------------------------------------------
(* Entries that a board queues.                                             *)

LEMMA NoteShape ==
    ASSUME NEW kind \in Kinds, NEW d \in Delegations, NEW waiting
    PROVE  \/ NoteEntries(kind, d, waiting) = <<>>
           \/ NoteEntries(kind, d, waiting) = <<NEntry(kind, d, "pending")>>
           \/ NoteEntries(kind, d, waiting) = <<NEntry(kind, d, "acknowledged")>>
  BY DEF NoteEntries, NEntry

LEMMA EntryTypes ==
    /\ \A d \in Delegations, s \in Active \cup Terminal : DEntry(d, s) \in Entries
    /\ \A d \in Delegations, s \in {"pending", "decided"} : VEntry(d, s) \in Entries
    /\ \A kind \in Kinds, d \in Delegations, s \in {"pending", "acknowledged"} :
          NEntry(kind, d, s) \in Entries
  BY DEF Entries, DEntry, VEntry, NEntry

LEMMA EntryParts ==
    ASSUME NEW e \in Entries
    PROVE  /\ e.type \in {"delegation", "verification", "note"} /\ e.id \in Delegations
           /\ e.type = "delegation" => e.status \in Active \cup Terminal
           /\ e.type = "verification" => e.status \in {"pending", "decided"}
           /\ e.type = "note" => e.kind \in Kinds /\ e.status \in {"pending", "acknowledged"}
  BY DEF Entries

LEMMA Coupled ==
    ASSUME NEW e, NEW n
    PROVE  /\ <<e>> \o <<>> = <<e>> /\ <<e>> \o <<n>> = <<e, n>>
           /\ <<e>> # <<>> /\ <<e>>[1] = e /\ Len(<<e>>) = 1
           /\ <<e, n>> # <<>> /\ <<e, n>>[1] = e /\ <<e, n>>[2] = n /\ Len(<<e, n>>) = 2
  <1> DEFINE T == {e, n}
             s == <<e>> \o <<n>>
  <1>1. <<e>> \in Seq(T) /\ <<n>> \in Seq(T) /\ <<e, n>> \in Seq(T)
    OBVIOUS
  <1>2. /\ <<e>> # <<>> /\ <<e>>[1] = e /\ Len(<<e>>) = 1
        /\ <<e, n>> # <<>> /\ <<e, n>>[1] = e /\ <<e, n>>[2] = n /\ Len(<<e, n>>) = 2
        /\ Len(<<n>>) = 1 /\ <<n>>[1] = n
    OBVIOUS
  <1>3. <<e>> \o <<>> = <<e>>
    BY <1>1, ConcatEmptySeq
  <1>4. /\ s \in Seq(T) /\ Len(s) = 2
        /\ \A i \in 1..2 : s[i] = IF i =< 1 THEN <<e>>[i] ELSE <<n>>[i - 1]
    BY <1>1, <1>2, ConcatProperties
  <1> HIDE DEF s
  <1>5. s[1] = e /\ s[2] = n
    BY <1>2, <1>4
  <1>6. \A i \in 1..Len(s) : s[i] = <<e, n>>[i]
    BY <1>2, <1>4, <1>5
  <1>7. s = <<e, n>>
    BY <1>1, <1>2, <1>4, <1>6, SeqEqual
  <1> QED
    BY <1>2, <1>3, <1>7 DEF s

\* The record's own entry comes first, and at most its notification behind it.
LEMMA DelegationShape ==
    ASSUME NEW d \in Delegations, NEW s
    PROVE  \/ DelegationEntries(d, s) = <<DEntry(d, s)>>
           \/ \E n \in {"pending", "acknowledged"} :
                 DelegationEntries(d, s) = <<DEntry(d, s), NEntry("worker", d, n)>>
  <1> DEFINE notes == NoteEntries("worker", d, s = "queued")
             e == DEntry(d, s)
             queued == DelegationEntries(d, s)
  <1>1. \/ notes = <<>>
        \/ notes = <<NEntry("worker", d, "pending")>>
        \/ notes = <<NEntry("worker", d, "acknowledged")>>
    BY NoteShape DEF Kinds
  <1>2. queued = <<e>> \o notes
    BY DEF DelegationEntries, DEntry
  <1> HIDE DEF notes, e, queued
  <1>3. CASE notes = <<>>
    <2>1. queued = <<e>>
      BY <1>2, <1>3, Coupled
    <2> QED
      BY <2>1 DEF e, queued
  <1>4. ASSUME NEW n \in {"pending", "acknowledged"}, notes = <<NEntry("worker", d, n)>>
        PROVE  queued = <<e, NEntry("worker", d, n)>>
    BY <1>2, <1>4, Coupled
  <1> QED
    BY <1>1, <1>3, <1>4 DEF e, queued

LEMMA VerificationShape ==
    ASSUME NEW d \in Delegations, NEW s
    PROVE  \/ VerificationEntries(d, s) = <<VEntry(d, s)>>
           \/ \E n \in {"pending", "acknowledged"} :
                 VerificationEntries(d, s) = <<VEntry(d, s), NEntry("verifier", d, n)>>
  <1> DEFINE notes == NoteEntries("verifier", d, s = "pending")
             e == VEntry(d, s)
             queued == VerificationEntries(d, s)
  <1>1. \/ notes = <<>>
        \/ notes = <<NEntry("verifier", d, "pending")>>
        \/ notes = <<NEntry("verifier", d, "acknowledged")>>
    BY NoteShape DEF Kinds
  <1>2. queued = <<e>> \o notes
    BY DEF VerificationEntries, VEntry
  <1> HIDE DEF notes, e, queued
  <1>3. CASE notes = <<>>
    <2>1. queued = <<e>>
      BY <1>2, <1>3, Coupled
    <2> QED
      BY <2>1 DEF e, queued
  <1>4. ASSUME NEW n \in {"pending", "acknowledged"}, notes = <<NEntry("verifier", d, n)>>
        PROVE  queued = <<e, NEntry("verifier", d, n)>>
    BY <1>2, <1>4, Coupled
  <1> QED
    BY <1>1, <1>3, <1>4 DEF e, queued

LEMMA DelegationEntriesType ==
    ASSUME NEW d \in Delegations, NEW s \in Active \cup Terminal
    PROVE  DelegationEntries(d, s) \in Seq(Entries)
  <1>1. DEntry(d, s) \in Entries
    BY EntryTypes
  <1>2. \A n \in {"pending", "acknowledged"} : NEntry("worker", d, n) \in Entries
    BY EntryTypes DEF Kinds
  <1>3. <<DEntry(d, s)>> \in Seq(Entries)
    BY <1>1
  <1>4. \A n \in {"pending", "acknowledged"} :
          <<DEntry(d, s), NEntry("worker", d, n)>> \in Seq(Entries)
    BY <1>1, <1>2
  <1> QED
    BY <1>3, <1>4, DelegationShape, Zenon

LEMMA VerificationEntriesType ==
    ASSUME NEW d \in Delegations, NEW s \in {"pending", "decided"}
    PROVE  VerificationEntries(d, s) \in Seq(Entries)
  <1>1. VEntry(d, s) \in Entries
    BY EntryTypes
  <1>2. \A n \in {"pending", "acknowledged"} : NEntry("verifier", d, n) \in Entries
    BY EntryTypes DEF Kinds
  <1>3. <<VEntry(d, s)>> \in Seq(Entries)
    BY <1>1
  <1>4. \A n \in {"pending", "acknowledged"} :
          <<VEntry(d, s), NEntry("verifier", d, n)>> \in Seq(Entries)
    BY <1>1, <1>2
  <1> QED
    BY <1>3, <1>4, VerificationShape, Zenon

\* What a reconciliation may append: delegations that ran fail, with their notes.
Reconciling ==
         {DEntry(d, "failed") : d \in {x \in Delegations : delegation[x] = "running"}}
    \cup [type : {"note"}, kind : Kinds, id : Delegations, status : {"pending", "acknowledged"}]

LEMMA ReconcilingType == Reconciling \subseteq Entries
  BY DEF Reconciling, Entries, DEntry, Terminal

LEMMA ReconcileOf ==
    ASSUME order \in Seq(Delegations)
    PROVE  /\ ReconcileEntries \in Seq(Reconciling)
           /\ (\A d \in Delegations : delegation[d] # "running") => ReconcileEntries = <<>>
  <1> DEFINE R == InStatus("running")
             ss == [i \in 1..Len(R) |-> DelegationEntries(R[i], "failed")]
  <1>1. R \in Seq(Delegations)
    BY InStatusOf
  <1>2. \A i \in 1..Len(R) : R[i] \in Delegations /\ delegation[R[i]] = "running"
    BY InStatusOf
  <1>3. ReconcileEntries = FlattenSeq(ss)
    BY DEF ReconcileEntries
  <1> HIDE DEF R
  <1>4. ASSUME NEW i \in 1..Len(R) PROVE DelegationEntries(R[i], "failed") \in Seq(Reconciling)
    <2>1. DEntry(R[i], "failed") \in Reconciling
      BY <1>2 DEF Reconciling
    <2>2. \A n \in {"pending", "acknowledged"} : NEntry("worker", R[i], n) \in Reconciling
      BY <1>2 DEF Reconciling, NEntry, Kinds
    <2>3. <<DEntry(R[i], "failed")>> \in Seq(Reconciling)
      BY <2>1
    <2>4. \A n \in {"pending", "acknowledged"} :
            <<DEntry(R[i], "failed"), NEntry("worker", R[i], n)>> \in Seq(Reconciling)
      BY <2>1, <2>2
    <2>5. R[i] \in Delegations
      BY <1>2
    <2> QED
      BY <2>3, <2>4, <2>5, DelegationShape, Zenon
  <1>5. ss \in Seq(Seq(Reconciling))
    BY <1>1, <1>4
  <1>6. FlattenSeq(ss) \in Seq(Reconciling)
    <2> HIDE DEF ss
    <2> QED
      BY <1>5, Joined
  <1>7. ASSUME \A d \in Delegations : delegation[d] # "running"
        PROVE  ReconcileEntries = <<>>
    <2>1. R = <<>>
      BY <1>7, InStatusOf DEF R
    <2>2. ss = <<>> /\ Len(ss) = 0
      BY <2>1
    <2> QED
      BY <1>3, <2>2 DEF FlattenSeq
  <1> QED
    BY <1>3, <1>6, <1>7

-----------------------------------------------------------------------------
(* Every step of a process but an append and a death is a move.             *)

LEMMA ProcessParts ==
    ASSUME NEW p \in Process
    PROVE  /\ p.todo \in Seq(Delegations) /\ p.left \in 0..MaxClaims
           /\ p.current \in Delegations \cup {NoOne}
           /\ p.at \in {"idle", "tick", "next", "claim", "finish", "verify", "plan", "cancel", "end"}
  BY DEF Process

LEMMA IdleProcess == Idle \in Process /\ Idle.at = "idle"
  <1>1. <<>> \in Seq(Delegations) /\ 0 \in 0..MaxClaims
    BY MaxAssumption
  <1> QED
    BY <1>1 DEF Idle, Process

\* A move that queues nothing.
LEMMA SilentStep ==
    ASSUME TInv, NEW c \in Procs, NEW p \in Process, Moves(c, p, <<>>), Silent(c, p, <<>>),
           p.at = "claim" => p.current \in Delegations
    PROVE  \E x \in Process, entries \in Seq(Entries) :
              Sane(x, entries) /\ Moves(c, x, entries) /\ Kind(c, x, entries)
  <1>1. Sane(p, <<>>)
    BY DEF Sane, Silent
  <1>2. Kind(c, p, <<>>)
    BY DEF Kind
  <1>3. <<>> \in Seq(Entries)
    OBVIOUS
  <1> QED
    BY <1>1, <1>2, <1>3

\* The start of a job that is not yet at a delegation.
LEMMA StartStep ==
    ASSUME TInv, NEW c \in Procs, NEW p \in Process, NEW entries \in Seq(Entries),
           Starts(c, p, entries), p.at \notin {"idle", "finish", "verify"},
           p.at = "claim" => p.current \in Delegations
    PROVE  proc[c] = Idle /\ Moves(c, p, entries) /\ Sane(p, entries)
  <1>1. proc[c] = Idle /\ queue[c] = <<>>
    BY DEF Starts, TInv, Sane
  <1>2. p # Idle
    BY IdleProcess
  <1> QED
    BY <1>1, <1>2 DEF Starts, Moves, Sane

LEMMA CommandSteps ==
    ASSUME TInv, NEW c \in Procs, NEW d \in Delegations,
           EnqueueDelegation(c, d) \/ RunVerification(c, d)
    PROVE  \E p \in Process, entries \in Seq(Entries) :
              Sane(p, entries) /\ Moves(c, p, entries) /\ Kind(c, p, entries)
  <1> DEFINE p == Command("end")
  <1>1. p \in Process /\ p.at = "end"
    <2>1. p.at = "end"
      BY DEF Command, Idle
    <2>2. [Idle EXCEPT !.job = "command"] \in Process
      BY IdleProcess DEF Idle, Process
    <2>3. p = [[Idle EXCEPT !.job = "command"] EXCEPT !.at = "end"]
      BY DEF Command, Idle
    <2>4. p \in Process
      BY <2>2, <2>3 DEF Process
    <2> QED
      BY <2>1, <2>4
  <1> HIDE DEF p
  <1>2. CASE EnqueueDelegation(c, d)
    <2> DEFINE s == IF delegation[d] = "absent" THEN "queued" ELSE delegation[d]
               entries == DelegationEntries(d, s)
    <2>1. s \in Active \cup Terminal
      BY DEF TInv, TypeOK, Active
    <2>2. entries \in Seq(Entries)
      BY <2>1, DelegationEntriesType
    <2>3. Starts(c, p, entries)
      BY <1>2 DEF EnqueueDelegation, p
    <2>4. Enqueues(c, p, entries)
      BY <1>1, <2>3 DEF Enqueues, Starts
    <2> HIDE DEF entries
    <2>5. Moves(c, p, entries) /\ Sane(p, entries)
      BY <1>1, <2>2, <2>3, StartStep
    <2> QED
      BY <1>1, <2>2, <2>4, <2>5 DEF Kind
  <1>3. CASE RunVerification(c, d)
    <2> DEFINE entries == VerificationEntries(d, "decided")
    <2>1. entries \in Seq(Entries)
      BY VerificationEntriesType
    <2>2. Starts(c, p, entries)
      BY <1>3 DEF RunVerification, p
    <2>3. Decides(c, p, entries)
      BY <1>1, <1>3, <2>2 DEF Decides, Starts, RunVerification
    <2> HIDE DEF entries
    <2>4. Moves(c, p, entries) /\ Sane(p, entries)
      BY <1>1, <2>1, <2>2, StartStep
    <2> QED
      BY <1>1, <2>1, <2>3, <2>4 DEF Kind
  <1> QED
    BY <1>2, <1>3

LEMMA StartSteps ==
    ASSUME TInv, NEW c \in Procs,
           \/ StartExecutor(c) \/ StartRecovery(c)
           \/ \E limit \in 1..MaxClaims : StartRunDelegation(c, limit)
           \/ \E d \in Delegations : StartNamedDelegation(c, d)
    PROVE  \E p \in Process, entries \in Seq(Entries) :
              Sane(p, entries) /\ Moves(c, p, entries) /\ Kind(c, p, entries)
  <1>0. /\ ReconcileEntries \in Seq(Entries) /\ <<>> \in Seq(Entries)
        /\ Idle \in Process
    <2>1. ReconcileEntries \in Seq(Reconciling)
      BY ReconcileOf DEF TInv, TypeOK
    <2>2. Len(ReconcileEntries) \in Nat
          /\ \A i \in 1..Len(ReconcileEntries) : ReconcileEntries[i] \in Entries
      BY <2>1, ReconcilingType
    <2> QED
      BY <2>1, <2>2, IdleProcess
  <1>1. ASSUME NEW job \in {"executor", "recovery"}, NEW at \in {"tick", "plan"},
               Starts(c, [Idle EXCEPT !.job = job, !.at = at], ReconcileEntries)
        PROVE  \E p \in Process, entries \in Seq(Entries) :
                  Sane(p, entries) /\ Moves(c, p, entries) /\ Kind(c, p, entries)
    <2> DEFINE p == [Idle EXCEPT !.job = job, !.at = at]
    <2>1. p \in Process /\ p.at = at
      BY <1>0, MaxAssumption DEF Idle, Process
    <2> HIDE DEF p
    <2>2. proc[c] = Idle /\ Moves(c, p, ReconcileEntries) /\ Sane(p, ReconcileEntries)
      BY <1>0, <1>1, <2>1, StartStep DEF p
    <2>3. Kind(c, p, ReconcileEntries)
      BY <2>1, <2>2 DEF Kind, Reconciles
    <2> QED
      BY <1>0, <2>1, <2>2, <2>3
  <1>2. ASSUME NEW at \in {"next", "claim"}, NEW left \in 0..MaxClaims,
               NEW current \in Delegations \cup {NoOne}, at = "claim" => current \in Delegations,
               NEW p, p \in Process, p.at = at, p.current = current, Starts(c, p, <<>>)
        PROVE  \E x \in Process, entries \in Seq(Entries) :
                  Sane(x, entries) /\ Moves(c, x, entries) /\ Kind(c, x, entries)
    <2>1. proc[c] = Idle /\ Moves(c, p, <<>>)
      BY <1>0, <1>2, StartStep
    <2>2. Silent(c, p, <<>>)
      BY <1>2, <2>1, IdleProcess DEF Silent
    <2> QED
      BY <1>2, <2>1, <2>2, SilentStep
  <1>3. CASE StartExecutor(c)
    BY <1>1, <1>3 DEF StartExecutor
  <1>4. CASE StartRecovery(c)
    BY <1>1, <1>4 DEF StartRecovery
  <1>5. ASSUME NEW limit \in 1..MaxClaims, StartRunDelegation(c, limit)
        PROVE  \E x \in Process, entries \in Seq(Entries) :
                  Sane(x, entries) /\ Moves(c, x, entries) /\ Kind(c, x, entries)
    <2> DEFINE p == [Idle EXCEPT !.job = "delegation", !.at = "next", !.left = limit]
    <2>1. limit \in 0..MaxClaims
      BY MaxAssumption
    <2>2. p \in Process /\ p.at = "next" /\ p.current = NoOne
      BY <1>0, <2>1 DEF Idle, Process
    <2>3. Starts(c, p, <<>>)
      BY <1>5 DEF StartRunDelegation
    <2> HIDE DEF p
    <2> QED
      BY <1>2, <2>1, <2>2, <2>3
  <1>6. ASSUME NEW d \in Delegations, StartNamedDelegation(c, d)
        PROVE  \E x \in Process, entries \in Seq(Entries) :
                  Sane(x, entries) /\ Moves(c, x, entries) /\ Kind(c, x, entries)
    <2> DEFINE p == [Idle EXCEPT !.job = "delegation", !.at = "claim", !.current = d]
    <2>1. /\ p \in Process /\ p.at = "claim" /\ p.current = d
          /\ 0 \in 0..MaxClaims /\ Starts(c, p, <<>>)
      BY <1>0, <1>6, MaxAssumption DEF Idle, Process, StartNamedDelegation
    <2> HIDE DEF p
    <2> QED
      BY <1>2, <2>1
  <1> QED
    BY <1>3, <1>4, <1>5, <1>6

LEMMA QuietSteps ==
    ASSUME TInv, NEW c \in Procs,
           \/ \E limit \in 1..MaxClaims : Tick(c, limit)
           \/ NextIntent(c) \/ NextReady(c) \/ EndRun(c)
           \/ ClaimDelegation(c) /\ ~Claimable(proc[c].current)
           \/ \E drifted \in SUBSET Delegations : PlanCancels(c, drifted)
           \/ EndRecovery(c) \/ EndCommand(c)
    PROVE  \E p \in Process, entries \in Seq(Entries) :
              Sane(p, entries) /\ Moves(c, p, entries) /\ Kind(c, p, entries)
  <1> DEFINE P == proc[c]
             Goal == \E p \in Process, entries \in Seq(Entries) :
                        Sane(p, entries) /\ Moves(c, p, entries) /\ Kind(c, p, entries)
  <1>0. /\ P \in Process /\ order \in Seq(Delegations)
        /\ P.todo \in Seq(Delegations) /\ P.left \in 0..MaxClaims
        /\ ReadyMailbox \in Seq(Delegations)
    BY ReadyMailboxOf, ProcessParts DEF TInv, TypeOK
  <1>1. ASSUME NEW p \in Process, NEW at, Stands(c, at), at \notin {"finish", "verify"},
               Continues(c, p, <<>>), p.at \in {"next", "claim"},
               p.at = "claim" => p.current \in Delegations
        PROVE  Goal
    <2>1. Moves(c, p, <<>>)
      BY <1>1 DEF Moves, Stands, Continues
    <2>2. Silent(c, p, <<>>)
      BY <1>1 DEF Silent, Stands
    <2> QED
      BY <1>1, <2>1, <2>2, SilentStep
  <1>2. ASSUME NEW at, Stands(c, at), at \notin {"finish", "verify"}, Ends(c) PROVE Goal
    <2>1. Moves(c, Idle, <<>>)
      BY <1>2 DEF Moves, Stands, Ends, Continues
    <2>2. Silent(c, Idle, <<>>)
      BY <1>2, IdleProcess DEF Silent, Stands
    <2> QED
      BY <2>1, <2>2, IdleProcess, SilentStep
  <1>3. ASSUME NEW limit \in 1..MaxClaims, Tick(c, limit) PROVE Goal
    <2> DEFINE n == IF limit < Len(ReadyMailbox) THEN limit ELSE Len(ReadyMailbox)
               intents == SubSeq(ReadyMailbox, 1, n)
               p == [At(c, "next") EXCEPT !.todo = intents]
    <2>1. intents \in Seq(Delegations)
      <3>1. Len(ReadyMailbox) \in Nat
        BY <1>0
      <3>2. n \in 0..Len(ReadyMailbox)
        BY <3>1
      <3> HIDE DEF n
      <3> QED
        BY <1>0, <3>1, <3>2, SubSeqProperties
    <2>2. Stands(c, "tick") /\ Continues(c, p, <<>>)
      BY <1>3 DEF Tick
    <2> HIDE DEF intents
    <2>3. p \in Process /\ p.at = "next"
      BY <1>0, <2>1 DEF At, Process
    <2> HIDE DEF p
    <2> QED
      BY <1>1, <2>2, <2>3
  <1>4. CASE NextIntent(c)
    <2> DEFINE p == [At(c, "claim") EXCEPT !.todo = Tail(@), !.current = Head(proc[c].todo)]
    <2>1. P.todo # <<>> /\ Stands(c, "next") /\ Continues(c, p, <<>>)
      BY <1>4 DEF NextIntent, HasIntent
    <2>2. Tail(P.todo) \in Seq(Delegations) /\ Head(P.todo) \in Delegations
      BY <1>0, <2>1
    <2>3. p \in Process /\ p.at = "claim" /\ p.current \in Delegations
      BY <1>0, <2>2 DEF At, Process
    <2> HIDE DEF p
    <2> QED
      BY <1>1, <2>1, <2>3
  <1>5. CASE NextReady(c)
    <2> DEFINE p == [At(c, "claim") EXCEPT !.left = @ - 1, !.current = Head(ReadyMailbox)]
    <2>1. /\ P.left > 0 /\ ReadyMailbox # <<>>
          /\ Stands(c, "next") /\ Continues(c, p, <<>>)
      BY <1>5 DEF NextReady, HasReady
    <2>2. P.left - 1 \in 0..MaxClaims /\ Head(ReadyMailbox) \in Delegations
      BY <1>0, <2>1, MaxAssumption
    <2>3. p \in Process /\ p.at = "claim" /\ p.current \in Delegations
      BY <1>0, <2>2 DEF At, Process
    <2> HIDE DEF p
    <2> QED
      BY <1>1, <2>1, <2>3
  <1>6. CASE EndRun(c)
    BY <1>2, <1>6 DEF EndRun
  <1>7. CASE ClaimDelegation(c) /\ ~Claimable(proc[c].current)
    BY <1>2, <1>7 DEF ClaimDelegation
  <1>8. ASSUME NEW drifted \in SUBSET Delegations, PlanCancels(c, drifted) PROVE Goal
    <2> DEFINE I == {i \in DOMAIN order : order[i] \in drifted}
               todo == Subsequence(order, I)
               p == [At(c, "cancel") EXCEPT !.todo = todo]
    <2>1. todo \in Seq(Delegations)
      <3>1. I \subseteq DOMAIN order
        OBVIOUS
      <3> HIDE DEF I
      <3> QED
        BY <1>0, <3>1, Kept
    <2>2. /\ Stands(c, "plan") /\ \A d \in drifted : delegation[d] = "queued"
          /\ Continues(c, p, <<>>)
      BY <1>8 DEF PlanCancels
    <2> HIDE DEF todo
    <2>3. p \in Process /\ p.at = "cancel" /\ p.todo = todo
      BY <1>0, <2>1 DEF At, Process
    <2> HIDE DEF p
    <2>4. Moves(c, p, <<>>)
      BY <2>2 DEF Moves, Stands, Continues
    <2>5. Silent(c, p, <<>>)
      BY <2>2, <2>3 DEF Silent, Stands, todo
    <2> QED
      BY <2>3, <2>4, <2>5, SilentStep
  <1>9. CASE EndRecovery(c)
    BY <1>2, <1>9 DEF EndRecovery
  <1>10. CASE EndCommand(c)
    BY <1>2, <1>10 DEF EndCommand
  <1> QED
    BY <1>3, <1>4, <1>5, <1>6, <1>7, <1>8, <1>9, <1>10

LEMMA DelegationSteps ==
    ASSUME TInv, NEW c \in Procs,
           \/ ClaimDelegation(c) /\ Claimable(proc[c].current)
           \/ \E s \in Terminal : FinishDelegation(c, s)
           \/ RequestVerification(c) \/ CancelDelegation(c)
    PROVE  \E p \in Process, entries \in Seq(Entries) :
              Sane(p, entries) /\ Moves(c, p, entries) /\ Kind(c, p, entries)
  <1> DEFINE P == proc[c]
             Goal == \E p \in Process, entries \in Seq(Entries) :
                        Sane(p, entries) /\ Moves(c, p, entries) /\ Kind(c, p, entries)
  <1>0. /\ P \in Process /\ P.todo \in Seq(Delegations)
        /\ P.at \in {"claim", "finish", "verify"} => P.current \in Delegations
    BY ProcessParts DEF TInv, TypeOK, Sane
  <1>1. ASSUME NEW at \in {"finish", "verify", "next"}
        PROVE  /\ At(c, at) \in Process /\ At(c, at).at = at /\ At(c, at).current = P.current
               /\ At(c, at) # Idle
    BY <1>0, IdleProcess DEF At, Process
  <1>2. CASE ClaimDelegation(c) /\ Claimable(proc[c].current)
    <2> DEFINE p == At(c, "finish")
               entries == DelegationEntries(P.current, "running")
    <2>1. /\ Stands(c, "claim") /\ Continues(c, p, entries) /\ P.current \in Delegations
      BY <1>0, <1>2 DEF ClaimDelegation, Stands
    <2>2. entries \in Seq(Entries)
      BY <2>1, DelegationEntriesType DEF Active
    <2>3. Claims(c, p, entries)
      BY <1>1, <1>2, <2>1 DEF Claims, Stands
    <2>4. Moves(c, p, entries)
      BY <2>1 DEF Moves, Stands, Continues
    <2>5. Sane(p, entries)
      BY <1>1, <2>1 DEF Sane
    <2> HIDE DEF entries, p
    <2>6. p \in Process
      BY <1>1 DEF p
    <2> QED
      BY <2>2, <2>3, <2>4, <2>5, <2>6 DEF Kind
  <1>3. ASSUME NEW s \in Terminal, FinishDelegation(c, s) PROVE Goal
    <2> DEFINE at == IF s = "completed" /\ P.current \in Verified THEN "verify" ELSE "next"
               p == At(c, at)
               entries == DelegationEntries(P.current, s)
    <2>1. /\ Stands(c, "finish") /\ Continues(c, p, entries) /\ P.current \in Delegations
          /\ s \in {"completed", "failed"}
      BY <1>0, <1>3 DEF FinishDelegation, Stands
    <2>2. entries \in Seq(Entries)
      BY <2>1, DelegationEntriesType DEF Terminal
    <2>3. at \in {"verify", "next"}
      OBVIOUS
    <2>4. Finishes(c, p, entries)
      BY <1>1, <2>1, <2>3 DEF Finishes, Stands
    <2>5. Moves(c, p, entries)
      BY <2>1 DEF Moves, Stands, Continues
    <2>6. Sane(p, entries)
      BY <1>1, <2>1, <2>3 DEF Sane
    <2>7. p \in Process
      BY <1>1, <2>3
    <2> HIDE DEF entries, p, at
    <2> QED
      BY <2>2, <2>4, <2>5, <2>6, <2>7 DEF Kind
  <1>4. CASE RequestVerification(c)
    <2> DEFINE p == At(c, "next")
               entries == VerificationEntries(P.current, "pending")
    <2>1. /\ Stands(c, "verify") /\ Continues(c, p, entries) /\ P.current \in Delegations
      BY <1>0, <1>4 DEF RequestVerification, Stands
    <2>2. entries \in Seq(Entries)
      BY <2>1, VerificationEntriesType
    <2>3. Requests(c, p, entries)
      BY <1>1, <2>1 DEF Requests, Stands
    <2>4. Moves(c, p, entries)
      BY <2>1 DEF Moves, Stands, Continues
    <2>5. Sane(p, entries)
      BY <1>1, <2>1 DEF Sane
    <2> HIDE DEF entries, p
    <2>6. p \in Process
      BY <1>1 DEF p
    <2> QED
      BY <2>2, <2>3, <2>4, <2>5, <2>6 DEF Kind
  <1>5. CASE CancelDelegation(c)
    <2> DEFINE p == [proc[c] EXCEPT !.todo = Tail(@)]
               entries == DelegationEntries(Head(P.todo), "cancelled")
    <2>1. /\ Stands(c, "cancel") /\ Continues(c, p, entries) /\ P.todo # <<>>
      BY <1>5 DEF CancelDelegation
    <2>2. Head(P.todo) \in Delegations /\ Tail(P.todo) \in Seq(Delegations)
      BY <1>0, <2>1
    <2>3. entries \in Seq(Entries)
      BY <2>2, DelegationEntriesType DEF Terminal
    <2>4. p \in Process /\ p.at = "cancel" /\ p.todo = Tail(P.todo)
      BY <1>0, <2>1, <2>2 DEF Process, Stands
    <2>5. Cancels(c, p, entries)
      BY <2>1, <2>4 DEF Cancels, Stands
    <2>6. Moves(c, p, entries)
      BY <2>1 DEF Moves, Stands, Continues
    <2>7. Sane(p, entries)
      BY <2>4, IdleProcess DEF Sane
    <2> HIDE DEF entries, p
    <2> QED
      BY <2>3, <2>4, <2>5, <2>6, <2>7 DEF Kind
  <1> QED
    BY <1>2, <1>3, <1>4, <1>5

(* Each step of the system, told by its effect.                             *)
LEMMA StepKinds ==
    ASSUME TInv, [Next]_vars
    PROVE  \/ UNCHANGED vars
           \/ \E c \in Procs : AppendEntry(c) \/ Die(c)
           \/ \E c \in Procs, p \in Process, entries \in Seq(Entries) :
                 Sane(p, entries) /\ Moves(c, p, entries) /\ Kind(c, p, entries)
  <1> SUFFICES ASSUME Next PROVE
           \/ \E c \in Procs : AppendEntry(c) \/ Die(c)
           \/ \E c \in Procs, p \in Process, entries \in Seq(Entries) :
                 Sane(p, entries) /\ Moves(c, p, entries) /\ Kind(c, p, entries)
    OBVIOUS
  <1>1. PICK c \in Procs :
          \/ \E d \in Delegations : EnqueueDelegation(c, d) \/ RunVerification(c, d)
          \/ \/ StartExecutor(c) \/ StartRecovery(c)
             \/ \E limit \in 1..MaxClaims : StartRunDelegation(c, limit)
             \/ \E d \in Delegations : StartNamedDelegation(c, d)
          \/ Proceeds(c)
          \/ Die(c)
    BY DEF Next
  <1>2. CASE \E d \in Delegations : EnqueueDelegation(c, d) \/ RunVerification(c, d)
    BY <1>2, CommandSteps
  <1>3. CASE \/ StartExecutor(c) \/ StartRecovery(c)
             \/ \E limit \in 1..MaxClaims : StartRunDelegation(c, limit)
             \/ \E d \in Delegations : StartNamedDelegation(c, d)
    BY <1>3, StartSteps
  <1>4. CASE Proceeds(c)
    <2>1. CASE \/ \E limit \in 1..MaxClaims : Tick(c, limit)
               \/ NextIntent(c) \/ NextReady(c) \/ EndRun(c)
               \/ ClaimDelegation(c) /\ ~Claimable(proc[c].current)
               \/ \E drifted \in SUBSET Delegations : PlanCancels(c, drifted)
               \/ EndRecovery(c) \/ EndCommand(c)
      BY <2>1, QuietSteps
    <2>2. CASE \/ ClaimDelegation(c) /\ Claimable(proc[c].current)
               \/ \E s \in Terminal : FinishDelegation(c, s)
               \/ RequestVerification(c) \/ CancelDelegation(c)
      BY <2>2, DelegationSteps
    <2> QED
      BY <1>4, <2>1, <2>2 DEF Proceeds
  <1> QED
    BY <1>1, <1>2, <1>3, <1>4

-----------------------------------------------------------------------------
(* Types and the order of creation, for any number of processes.            *)

\* A process's two variables after a step that sets both.
LEMMA Moved ==
    ASSUME TypeOK, NEW c \in Procs, NEW p, NEW q,
           proc' = [proc EXCEPT ![c] = p], queue' = [queue EXCEPT ![c] = q]
    PROVE  /\ proc'[c] = p /\ queue'[c] = q
           /\ \A d \in Procs : d # c => proc'[d] = proc[d] /\ queue'[d] = queue[d]
  BY DEF TypeOK

LEMMA HeadOfQueue ==
    ASSUME TypeOK, NEW c \in Procs, queue[c] # <<>>
    PROVE  /\ Head(queue[c]) \in Entries /\ Tail(queue[c]) \in Seq(Entries)
           /\ 1 \in 1..Len(queue[c]) /\ Head(queue[c]) = queue[c][1]
           /\ Len(Tail(queue[c])) = Len(queue[c]) - 1 /\ Len(queue[c]) \in Nat
           /\ \A k \in 1..Len(Tail(queue[c])) :
                 /\ k + 1 \in 1..Len(queue[c]) /\ k + 1 # 1
                 /\ Tail(queue[c])[k] = queue[c][k + 1]
  <1> queue[c] \in Seq(Entries)
    BY DEF TypeOK
  <1> QED
    OBVIOUS

LEMMA QueueTypes ==
    ASSUME TypeOK, NEW c \in Procs
    PROVE  Len(queue[c]) \in Nat /\ \A k \in 1..Len(queue[c]) : queue[c][k] \in Entries
  <1> queue[c] \in Seq(Entries)
    BY DEF TypeOK
  <1> QED
    OBVIOUS

LEMMA OrderedAppend ==
    ASSUME TypeOK, Ordered, NEW e \in Entries, e.type = "delegation", ReplayDelegation(e)
    PROVE  /\ delegation' \in [Delegations -> {"absent"} \cup Active \cup Terminal]
           /\ order' \in Seq(Delegations)
           /\ Ordered'
  <1> DEFINE id == e.id
             s == e.status
  <1>0. /\ id \in Delegations /\ s \in Active \cup Terminal /\ s # "absent"
        /\ order \in Seq(Delegations) /\ Len(order) \in Nat
        /\ delegation \in [Delegations -> {"absent"} \cup Active \cup Terminal]
    BY EntryParts DEF TypeOK, Active, Terminal
  <1>1. /\ delegation' = [delegation EXCEPT ![id] = s]
        /\ order' = IF delegation[id] = "absent" THEN Append(order, id) ELSE order
    BY DEF ReplayDelegation
  <1> HIDE DEF id, s
  <1>2. \A d \in Delegations : delegation'[d] = IF d = id THEN s ELSE delegation[d]
    BY <1>0, <1>1
  <1>3. delegation' \in [Delegations -> {"absent"} \cup Active \cup Terminal]
    BY <1>0, <1>1
  <1>4. CASE delegation[id] # "absent"
    BY <1>0, <1>1, <1>2, <1>3, <1>4 DEF Ordered
  <1>5. CASE delegation[id] = "absent"
    <2> DEFINE n == Len(order) + 1
    <2>1. /\ order' \in Seq(Delegations) /\ Len(order') = n /\ order'[n] = id
          /\ \A i \in 1..Len(order) : i \in 1..n /\ i # n /\ order'[i] = order[i]
          /\ n \in 1..n
          /\ \A i \in 1..n : i = n \/ i \in 1..Len(order)
      BY <1>0, <1>1, <1>5
    <2> HIDE DEF n
    <2>2. \A i \in 1..Len(order) : order[i] # id
      BY <1>0, <1>5 DEF Ordered
    <2>3. \A i, j \in 1..Len(order') : i # j => order'[i] # order'[j]
      BY <2>1, <2>2 DEF Ordered
    <2>4. \A d \in Delegations :
            delegation'[d] # "absent" <=> \E i \in 1..Len(order') : order'[i] = d
      <3> TAKE d \in Delegations
      <3>1. CASE d = id
        BY <1>0, <1>2, <2>1, <3>1
      <3>2. CASE d # id
        <4>1. (\E i \in 1..Len(order') : order'[i] = d) <=> \E i \in 1..Len(order) : order[i] = d
          BY <2>1, <3>2
        <4> QED
          BY <1>2, <3>2, <4>1 DEF Ordered
      <3> QED
        BY <3>1, <3>2
    <2> QED
      BY <1>3, <2>1, <2>3, <2>4 DEF Ordered
  <1> QED
    BY <1>3, <1>4, <1>5

LEMMA AppendTypes ==
    ASSUME TInv, NEW c \in Procs, AppendEntry(c)
    PROVE  TInv'
  <1> DEFINE e == Head(queue[c])
  <1>1. /\ TypeOK /\ Ordered /\ queue[c] # <<>> /\ Replay(e)
        /\ queue' = [queue EXCEPT ![c] = Tail(queue[c])]
        /\ UNCHANGED <<proc, deaths>>
    BY DEF TInv, AppendEntry
  <1>2. e \in Entries /\ Tail(queue[c]) \in Seq(Entries)
    BY <1>1, HeadOfQueue
  <1> HIDE DEF e
  <1>3. queue' \in [Procs -> Seq(Entries)]
    BY <1>1, <1>2 DEF TypeOK
  <1>4. /\ delegation' \in [Delegations -> {"absent"} \cup Active \cup Terminal]
        /\ order' \in Seq(Delegations)
        /\ verification' \in [Delegations -> {"absent", "pending", "decided"}]
        /\ note' \in [Kinds -> [Delegations -> {"absent", "pending", "acknowledged"}]]
        /\ Ordered'
    <2>1. CASE e.type = "delegation" /\ ReplayDelegation(e)
      <3>1. /\ delegation' \in [Delegations -> {"absent"} \cup Active \cup Terminal]
            /\ order' \in Seq(Delegations) /\ Ordered'
        BY <1>1, <1>2, <2>1, OrderedAppend
      <3> QED
        BY <1>1, <2>1, <3>1 DEF ReplayDelegation, TypeOK
    <2>2. CASE e.type = "verification" /\ ReplayVerification(e)
      BY <1>1, <1>2, <2>2, EntryParts DEF ReplayVerification, TypeOK, Ordered
    <2>3. CASE e.type = "note" /\ ReplayNote(e)
      BY <1>1, <1>2, <2>3, EntryParts DEF ReplayNote, TypeOK, Ordered
    <2> QED
      BY <1>1, <2>1, <2>2, <2>3 DEF Replay
  <1>5. TypeOK'
    BY <1>1, <1>3, <1>4 DEF TypeOK
  <1>6. \A d \in Procs : Sane(proc[d], queue[d])'
    <2> SUFFICES ASSUME NEW d \in Procs PROVE Sane(proc'[d], queue'[d])
      OBVIOUS
    <2>1. queue'[d] = IF d = c THEN Tail(queue[c]) ELSE queue[d]
      BY <1>1 DEF TypeOK
    <2>2. proc[c] # Idle
      BY <1>1 DEF TInv, Sane
    <2> QED
      BY <1>1, <2>1, <2>2 DEF TInv, Sane
  <1> QED
    BY <1>4, <1>5, <1>6 DEF TInv

LEMMA TypeStep == (Init => TInv) /\ (TInv /\ [Next]_vars => TInv')
  <1>1. ASSUME Init PROVE TInv
    <2>1. <<>> \in Seq(Delegations) /\ <<>> \in Seq(Entries) /\ Len(<<>>) = 0
      OBVIOUS
    <2>2. queue \in [Procs -> Seq(Entries)] /\ proc \in [Procs -> Process]
      BY <1>1, <2>1, IdleProcess DEF Init
    <2>3. TypeOK
      BY <1>1, <2>1, <2>2, MaxAssumption DEF Init, TypeOK
    <2>4. \A c \in Procs : Sane(proc[c], queue[c])
      BY <1>1, IdleProcess DEF Init, Sane
    <2>5. Ordered
      BY <1>1 DEF Init, Ordered
    <2> QED
      BY <2>3, <2>4, <2>5 DEF TInv
  <1>2. ASSUME TInv, [Next]_vars PROVE TInv'
    <2>0. TypeOK
      BY <1>2 DEF TInv
    <2>1. CASE UNCHANGED vars
      BY <1>2, <2>1 DEF vars, lane, TInv, TypeOK, Ordered
    <2>2. ASSUME NEW c \in Procs, AppendEntry(c) PROVE TInv'
      BY <1>2, <2>2, AppendTypes
    <2>3. ASSUME NEW c \in Procs, NEW p \in Process, NEW q \in Seq(Entries), Sane(p, q),
                 proc' = [proc EXCEPT ![c] = p], queue' = [queue EXCEPT ![c] = q],
                 UNCHANGED lane, deaths' \in 0..MaxDeaths
          PROVE  TInv'
      <3>1. TypeOK'
        BY <2>0, <2>3 DEF TypeOK, lane
      <3>2. \A d \in Procs : Sane(proc'[d], queue'[d])
        <4>1. /\ proc'[c] = p /\ queue'[c] = q
              /\ \A d \in Procs : d # c => proc'[d] = proc[d] /\ queue'[d] = queue[d]
          BY <2>0, <2>3, Moved
        <4> QED
          BY <1>2, <2>3, <4>1 DEF TInv
      <3>3. Ordered'
        BY <1>2, <2>3 DEF TInv, Ordered, lane
      <3> QED
        BY <3>1, <3>2, <3>3 DEF TInv
    <2>4. ASSUME NEW c \in Procs, Die(c) PROVE TInv'
      <3>1. <<>> \in Seq(Entries) /\ Sane(Idle, <<>>)
        BY IdleProcess DEF Sane
      <3>2. deaths' \in 0..MaxDeaths
        BY <2>0, <2>4, MaxAssumption DEF Die, TypeOK
      <3> QED
        BY <2>3, <2>4, <3>1, <3>2, IdleProcess DEF Die
    <2>5. ASSUME NEW c \in Procs, NEW p \in Process, NEW entries \in Seq(Entries),
                 Sane(p, entries), Moves(c, p, entries)
          PROVE  TInv'
      BY <2>0, <2>3, <2>5 DEF Moves, TypeOK
    <2> QED
      BY <1>2, <2>1, <2>2, <2>4, <2>5, StepKinds
  <1> QED
    BY <1>1, <1>2

(* Whatever the jobs of any processes do, and wherever they die, the lane   *)
(* holds records of known statuses, and no job is at a delegation without   *)
(* having one (TaskBoard, and the locals of runDelegationJob).              *)
THEOREM TypeCorrect == Spec => []TypeOK
  <1>1. TInv => TypeOK
    BY DEF TInv
  <1> QED
    BY <1>1, TypeStep, PTL DEF Spec

(* No set of delegations, whatever their write sets, blocks itself: with    *)
(* nothing running the mailbox offers one of those that wait, so neither    *)
(* the executor nor run-delegation ever stops before all are done           *)
(* (createSubagentSchedulingByDelegationId).                                *)
THEOREM NeverAllBlocked == Spec => []SomethingReady
  BY OldestReady, TypeCorrect, PTL

-----------------------------------------------------------------------------
(* Jobs one after another, which is one process.  What it has still to      *)
(* append was right when it was queued and stays right, because nobody else *)
(* changes the lane meanwhile.                                              *)

\* What the entries of one delegation look like in a queue.
LEMMA DelegationQueue ==
    ASSUME NEW d \in Delegations, NEW s \in Active \cup Terminal
    PROVE  LET q == DelegationEntries(d, s) IN
           /\ q # <<>> /\ q[1] = DEntry(d, s) /\ Len(q) \in Nat /\ Short(q)
           /\ 1 \in 1..Len(q)
           /\ \A k \in 1..Len(q) :
                 /\ q[k].type # "verification"
                 /\ q[k].type = "delegation" => k = 1 /\ q[k] = DEntry(d, s)
  <1> DEFINE e == DEntry(d, s)
  <1>1. e.type = "delegation"
    BY DEF DEntry
  <1>2. CASE DelegationEntries(d, s) = <<e>>
    BY <1>1, <1>2 DEF Short
  <1>3. ASSUME NEW n \in {"pending", "acknowledged"},
               DelegationEntries(d, s) = <<e, NEntry("worker", d, n)>>
        PROVE  LET q == DelegationEntries(d, s) IN
               /\ q # <<>> /\ q[1] = DEntry(d, s) /\ Len(q) \in Nat /\ Short(q)
               /\ 1 \in 1..Len(q)
               /\ \A k \in 1..Len(q) :
                     /\ q[k].type # "verification"
                     /\ q[k].type = "delegation" => k = 1 /\ q[k] = DEntry(d, s)
    <2> DEFINE m == NEntry("worker", d, n)
    <2>1. m.type = "note"
      BY DEF NEntry
    <2> HIDE DEF e, m
    <2>2. /\ <<e, m>> # <<>> /\ <<e, m>>[1] = e /\ <<e, m>>[2] = m /\ Len(<<e, m>>) = 2
          /\ \A k \in 1..Len(<<e, m>>) : k = 1 \/ k = 2
      OBVIOUS
    <2>3. Short(<<e, m>>)
      BY <1>1, <2>1, <2>2 DEF Short
    <2>4. DelegationEntries(d, s) = <<e, m>>
      BY <1>3 DEF e, m
    <2>5. 1 \in 1..2 /\ 2 \in Nat
      OBVIOUS
    <2> QED
      BY <1>1, <2>1, <2>2, <2>3, <2>4, <2>5 DEF e
  <1> QED
    BY <1>2, <1>3, DelegationShape

LEMMA VerificationQueue ==
    ASSUME NEW d \in Delegations, NEW s \in {"pending", "decided"}
    PROVE  LET q == VerificationEntries(d, s) IN
           /\ q # <<>> /\ q[1] = VEntry(d, s) /\ Len(q) \in Nat /\ Short(q)
           /\ 1 \in 1..Len(q)
           /\ \A k \in 1..Len(q) :
                 /\ q[k].type # "delegation"
                 /\ q[k].type = "verification" => k = 1 /\ q[k] = VEntry(d, s)
  <1> DEFINE e == VEntry(d, s)
  <1>1. e.type = "verification"
    BY DEF VEntry
  <1>2. CASE VerificationEntries(d, s) = <<e>>
    BY <1>1, <1>2 DEF Short
  <1>3. ASSUME NEW n \in {"pending", "acknowledged"},
               VerificationEntries(d, s) = <<e, NEntry("verifier", d, n)>>
        PROVE  LET q == VerificationEntries(d, s) IN
               /\ q # <<>> /\ q[1] = VEntry(d, s) /\ Len(q) \in Nat /\ Short(q)
               /\ 1 \in 1..Len(q)
               /\ \A k \in 1..Len(q) :
                     /\ q[k].type # "delegation"
                     /\ q[k].type = "verification" => k = 1 /\ q[k] = VEntry(d, s)
    <2> DEFINE m == NEntry("verifier", d, n)
    <2>1. m.type = "note"
      BY DEF NEntry
    <2> HIDE DEF e, m
    <2>2. /\ <<e, m>> # <<>> /\ <<e, m>>[1] = e /\ <<e, m>>[2] = m /\ Len(<<e, m>>) = 2
          /\ \A k \in 1..Len(<<e, m>>) : k = 1 \/ k = 2
      OBVIOUS
    <2>3. Short(<<e, m>>)
      BY <1>1, <2>1, <2>2 DEF Short
    <2>4. VerificationEntries(d, s) = <<e, m>>
      BY <1>3 DEF e, m
    <2>5. 1 \in 1..2 /\ 2 \in Nat
      OBVIOUS
    <2> QED
      BY <1>1, <2>1, <2>2, <2>3, <2>4, <2>5 DEF e
  <1> QED
    BY <1>2, <1>3, VerificationShape

LEMMA LegalDelegationEntries ==
    ASSUME NEW d \in Delegations, NEW s \in Active \cup Terminal, Allowed(d, s)
    PROVE  LegalQueue(DelegationEntries(d, s))
  <1> DEFINE q == DelegationEntries(d, s)
  <1>1. /\ Len(q) \in Nat
        /\ \A k \in 1..Len(q) :
              /\ q[k].type # "verification"
              /\ q[k].type = "delegation" => k = 1 /\ q[k] = DEntry(d, s)
    BY DelegationQueue
  <1>2. DEntry(d, s).id = d /\ DEntry(d, s).status = s
    BY DEF DEntry
  <1> HIDE DEF q
  <1>3. LegalQueue(q)
    BY <1>1, <1>2 DEF LegalQueue
  <1> QED
    BY <1>3 DEF q

LEMMA LegalVerificationEntries ==
    ASSUME NEW d \in Delegations, NEW s \in {"pending", "decided"},
           delegation[d] = "completed"
    PROVE  LegalQueue(VerificationEntries(d, s))
  <1> DEFINE q == VerificationEntries(d, s)
  <1>1. /\ Len(q) \in Nat
        /\ \A k \in 1..Len(q) :
              /\ q[k].type # "delegation"
              /\ q[k].type = "verification" => k = 1 /\ q[k] = VEntry(d, s)
    BY VerificationQueue
  <1>2. VEntry(d, s).id = d
    BY DEF VEntry
  <1> HIDE DEF q
  <1>3. LegalQueue(q)
    BY <1>1, <1>2 DEF LegalQueue
  <1> QED
    BY <1>3 DEF q

-----------------------------------------------------------------------------
(* The moves of the only process, one lemma per kind.                       *)

LEMMA SilentLegal ==
    ASSUME TInv, NEW c \in Procs, NEW p \in Process, Silent(c, p, <<>>)
    PROVE  LegalQueue(<<>>) /\ LegalJob(p, <<>>)
  <1>1. \A k : k \notin 1..Len(<<>>)
    OBVIOUS
  <1>2. ASSUME p.at = "cancel"
        PROVE  \A i \in 1..Len(p.todo) :
                  /\ delegation[p.todo[i]] = "queued"
                  /\ \A j \in 1..Len(p.todo) : i # j => p.todo[i] # p.todo[j]
    <2>1. PICK drifted \in SUBSET Delegations :
            /\ \A d \in drifted : delegation[d] = "queued"
            /\ p.todo = Subsequence(order, {i \in DOMAIN order : order[i] \in drifted})
      BY <1>2 DEF Silent
    <2> DEFINE I == {i \in DOMAIN order : order[i] \in drifted}
               t == Subsequence(order, I)
    <2>2. \A i \in I : order[i] \in drifted
      OBVIOUS
    <2>3. order \in Seq(Delegations) /\ I \subseteq DOMAIN order /\ DOMAIN order = 1..Len(order)
      BY DEF TInv, TypeOK
    <2>4. \A i, j \in DOMAIN order : i # j => order[i] # order[j]
      BY <2>3 DEF TInv, Ordered
    <2>5. p.todo = t
      BY <2>1
    <2> HIDE DEF I, t
    <2>6. /\ \A n \in 1..Len(t) : \E i \in I : t[n] = order[i]
          /\ \A m, n \in 1..Len(t) : m # n => t[m] # t[n]
      <3>1. Keeps(t, order, I)
        BY <2>3, Kept DEF t
      <3> QED
        BY <2>4, <3>1 DEF Keeps
    <2>7. \A n \in 1..Len(t) : delegation[t[n]] = "queued"
      BY <2>1, <2>2, <2>6
    <2> QED
      BY <2>5, <2>6, <2>7
  <1> QED
    BY <1>1, <1>2 DEF Silent, LegalQueue, LegalJob

LEMMA ReconcilesLegal ==
    ASSUME TInv, NEW c \in Procs, NEW p \in Process, NEW entries, Reconciles(c, p, entries)
    PROVE  LegalQueue(entries) /\ LegalJob(p, entries)
  <1>1. order \in Seq(Delegations) /\ entries = ReconcileEntries /\ p.at \in {"tick", "plan"}
    BY DEF TInv, TypeOK, Reconciles
  <1>2. \A k \in 1..Len(entries) : entries[k] \in Reconciling
    <2>1. entries \in Seq(Reconciling)
      BY <1>1, ReconcileOf
    <2> QED
      BY <2>1
  <1>3. \A e \in Reconciling :
          /\ e.type # "verification"
          /\ e.type = "delegation" => e.status = "failed" /\ Allowed(e.id, e.status)
    BY DEF Reconciling, DEntry, Allowed, Terminal
  <1>4. LegalQueue(entries)
    BY <1>2, <1>3 DEF LegalQueue
  <1> QED
    BY <1>1, <1>4 DEF LegalJob

LEMMA StartLegal ==
    ASSUME TInv, VerifiedCompleted, NEW c \in Procs, NEW p \in Process, NEW entries,
           Enqueues(c, p, entries) \/ Decides(c, p, entries)
    PROVE  LegalQueue(entries) /\ LegalJob(p, entries)
  <1>1. CASE Enqueues(c, p, entries)
    <2>1. PICK d \in Delegations :
            entries = DelegationEntries(d, IF delegation[d] = "absent" THEN "queued"
                                                                        ELSE delegation[d])
      BY <1>1 DEF Enqueues
    <2> DEFINE s == IF delegation[d] = "absent" THEN "queued" ELSE delegation[d]
    <2>2. s \in Active \cup Terminal
      BY DEF TInv, TypeOK, Active
    <2>3. Allowed(d, s)
      BY DEF Allowed, Terminal
    <2> HIDE DEF s
    <2>4. LegalQueue(DelegationEntries(d, s))
      BY <2>2, <2>3, LegalDelegationEntries
    <2>5. p.at = "end"
      BY <1>1 DEF Enqueues
    <2> QED
      BY <2>1, <2>4, <2>5 DEF LegalJob, s
  <1>2. CASE Decides(c, p, entries)
    <2>1. PICK d \in Delegations :
            verification[d] = "pending" /\ entries = VerificationEntries(d, "decided")
      BY <1>2 DEF Decides
    <2>2. delegation[d] = "completed"
      BY <2>1 DEF VerifiedCompleted
    <2>3. LegalQueue(entries)
      BY <2>1, <2>2, LegalVerificationEntries
    <2>4. p.at = "end"
      BY <1>2 DEF Decides
    <2> QED
      BY <2>3, <2>4 DEF LegalJob
  <1> QED
    BY <1>1, <1>2

LEMMA ClaimsLegal ==
    ASSUME TInv, RunningDisjoint, NEW c \in Procs, NEW p \in Process, NEW entries,
           Sane(p, entries), Claims(c, p, entries)
    PROVE  LegalQueue(entries) /\ LegalJob(p, entries)
  <1> DEFINE d == p.current
  <1>1. /\ p.at = "finish" /\ d \in Delegations /\ Claimable(d)
        /\ entries = DelegationEntries(d, "running") /\ delegation[d] = "queued"
    BY DEF Claims, Sane, Claimable
  <1> HIDE DEF d
  <1>2. Allowed(d, "running")
    <2>1. order \in Seq(Delegations) /\ Ordered
      BY DEF TInv, TypeOK
    <2>2. \A x \in Delegations : delegation[x] = "running" => ~Overlap(d, x)
      BY <1>1, <2>1, ClaimableDisjoint
    <2> QED
      BY <1>1, <2>2 DEF Allowed, Terminal
  <1>3. "running" \in Active \cup Terminal
    BY DEF Active
  <1>4. LegalQueue(entries)
    BY <1>1, <1>2, <1>3, LegalDelegationEntries
  <1>5. /\ entries # <<>> /\ entries[1] = DEntry(d, "running")
        /\ \A k \in 1..Len(entries) :
              entries[k].type = "delegation" => entries[k] = DEntry(d, "running")
    BY <1>1, <1>3, DelegationQueue
  <1> QED
    BY <1>1, <1>4, <1>5 DEF LegalJob, d

LEMMA FinishesLegal ==
    ASSUME TInv, NEW c \in Procs, NEW p \in Process, NEW entries, Sane(p, entries),
           queue[c] = <<>>, LegalJob(proc[c], <<>>), Finishes(c, p, entries)
    PROVE  LegalQueue(entries) /\ LegalJob(p, entries)
  <1> DEFINE d == p.current
  <1>1. PICK s \in {"completed", "failed"} :
          /\ p.at = IF s = "completed" /\ d \in Verified THEN "verify" ELSE "next"
          /\ entries = DelegationEntries(d, s)
    BY DEF Finishes
  <1>2. proc[c].at = "finish" /\ d = proc[c].current /\ s \in Active \cup Terminal
    BY DEF Finishes, Terminal
  <1>3. d \in Delegations /\ delegation[d] = "running"
    BY <1>2 DEF TInv, Sane, LegalJob
  <1> HIDE DEF d
  <1>4. Allowed(d, s)
    BY <1>3 DEF Allowed, Terminal
  <1>5. LegalQueue(entries)
    BY <1>1, <1>2, <1>3, <1>4, LegalDelegationEntries
  <1>6. entries # <<>> /\ entries[1] = DEntry(d, s)
    BY <1>1, <1>2, <1>3, DelegationQueue
  <1> QED
    BY <1>1, <1>5, <1>6 DEF LegalJob, d

LEMMA RequestsLegal ==
    ASSUME TInv, NEW c \in Procs, NEW p \in Process, NEW entries, Sane(p, entries),
           queue[c] = <<>>, LegalJob(proc[c], <<>>), Requests(c, p, entries)
    PROVE  LegalQueue(entries) /\ LegalJob(p, entries)
  <1> DEFINE d == p.current
  <1>1. /\ proc[c].at = "verify" /\ p.at = "next" /\ d = proc[c].current
        /\ entries = VerificationEntries(d, "pending")
    BY DEF Requests
  <1>2. d \in Delegations /\ delegation[d] = "completed"
    BY <1>1 DEF TInv, Sane, LegalJob
  <1> HIDE DEF d
  <1>3. LegalQueue(entries)
    BY <1>1, <1>2, LegalVerificationEntries
  <1> QED
    BY <1>1, <1>3 DEF LegalJob

LEMMA CancelsLegal ==
    ASSUME TInv, NEW c \in Procs, NEW p \in Process, NEW entries,
           queue[c] = <<>>, LegalJob(proc[c], <<>>), Cancels(c, p, entries)
    PROVE  LegalQueue(entries) /\ LegalJob(p, entries)
  <1> DEFINE todo == proc[c].todo
             d == Head(todo)
  <1>1. /\ proc[c].at = "cancel" /\ p.at = "cancel" /\ todo # <<>> /\ p.todo = Tail(todo)
        /\ entries = DelegationEntries(d, "cancelled")
    BY DEF Cancels
  <1>2. todo \in Seq(Delegations)
    BY ProcessParts DEF TInv, TypeOK
  <1>3. \A i \in 1..Len(todo) :
           /\ delegation[todo[i]] = "queued"
           /\ \A j \in 1..Len(todo) : i # j => todo[i] # todo[j]
    BY <1>1 DEF LegalJob
  <1> HIDE DEF todo
  <1>4. /\ d = todo[1] /\ d \in Delegations /\ 1 \in 1..Len(todo)
        /\ \A i \in 1..Len(Tail(todo)) :
              i + 1 \in 1..Len(todo) /\ i + 1 # 1 /\ Tail(todo)[i] = todo[i + 1]
        /\ \A i, j \in 1..Len(Tail(todo)) : i # j => i + 1 # j + 1
    BY <1>1, <1>2
  <1> HIDE DEF d
  <1>5. Allowed(d, "cancelled") /\ "cancelled" \in Active \cup Terminal
    BY <1>3, <1>4 DEF Allowed, Terminal
  <1>6. LegalQueue(entries)
    BY <1>1, <1>4, <1>5, LegalDelegationEntries
  <1>7. \A k \in 1..Len(entries) :
          entries[k].type = "delegation" => entries[k] = DEntry(d, "cancelled")
    BY <1>1, <1>4, <1>5, DelegationQueue
  <1>8. \A k \in 1..Len(entries) : entries[k].type = "delegation" => entries[k].id = d
    BY <1>7 DEF DEntry
  <1>9. \A i \in 1..Len(p.todo) :
           /\ delegation[p.todo[i]] = "queued" /\ p.todo[i] # d
           /\ \A j \in 1..Len(p.todo) : i # j => p.todo[i] # p.todo[j]
    BY <1>1, <1>3, <1>4
  <1> QED
    BY <1>1, <1>6, <1>8, <1>9 DEF LegalJob

LEMMA MovesLegal ==
    ASSUME TInv, JobInv, NEW c \in Procs, NEW p \in Process, NEW entries \in Seq(Entries),
           Sane(p, entries), Moves(c, p, entries), Kind(c, p, entries)
    PROVE  LegalQueue(entries) /\ LegalJob(p, entries)
  <1>1. /\ queue[c] = <<>> /\ LegalJob(proc[c], <<>>)
        /\ RunningDisjoint /\ VerifiedCompleted
    BY DEF Moves, JobInv
  <1>2. CASE Silent(c, p, entries)
    <2>1. entries = <<>>
      BY <1>2 DEF Silent
    <2> QED
      BY <1>2, <2>1, SilentLegal
  <1>3. CASE Reconciles(c, p, entries)
    BY <1>3, ReconcilesLegal
  <1>4. CASE Enqueues(c, p, entries) \/ Decides(c, p, entries)
    BY <1>1, <1>4, StartLegal
  <1>5. CASE Claims(c, p, entries)
    BY <1>1, <1>5, ClaimsLegal
  <1>6. CASE Finishes(c, p, entries)
    BY <1>1, <1>6, FinishesLegal
  <1>7. CASE Requests(c, p, entries)
    BY <1>1, <1>7, RequestsLegal
  <1>8. CASE Cancels(c, p, entries)
    BY <1>1, <1>8, CancelsLegal
  <1> QED
    BY <1>2, <1>3, <1>4, <1>5, <1>6, <1>7, <1>8 DEF Kind

-----------------------------------------------------------------------------
(* The append of an entry that was legal.                                   *)

LEMMA AppendDelegation ==
    ASSUME TypeOK, NEW q \in Seq(Entries), q # <<>>, q[1].type = "delegation",
           NEW p \in Process, Sane(p, q), LegalQueue(q), LegalJob(p, q),
           RunningDisjoint, VerifiedCompleted, verification' = verification,
           delegation' = [delegation EXCEPT ![q[1].id] = q[1].status]
    PROVE  /\ \A d \in Delegations : delegation[d] \in Terminal => delegation'[d] = delegation[d]
           /\ RunningDisjoint' /\ VerifiedCompleted'
           /\ LegalQueue(Tail(q))' /\ LegalJob(p, Tail(q))'
  <1> DEFINE t == Tail(q)
             id == q[1].id
             s == q[1].status
  <1>1. /\ q[1] \in Entries /\ 1 \in 1..Len(q) /\ Len(q) \in Nat
        /\ Len(t) = Len(q) - 1
        /\ \A k \in 1..Len(t) : k + 1 \in 1..Len(q) /\ k + 1 # 1 /\ t[k] = q[k + 1]
        /\ \A k, m \in 1..Len(t) : k # m => k + 1 # m + 1
        /\ \A k \in 1..Len(q) : q[k] \in Entries
    OBVIOUS
  <1>2. /\ id \in Delegations /\ s \in Active \cup Terminal
        /\ delegation \in [Delegations -> {"absent"} \cup Active \cup Terminal]
    BY <1>1, EntryParts DEF TypeOK
  <1>3. \A k \in 1..Len(t) : t[k].id \in Delegations
    BY <1>1, EntryParts
  <1>4. /\ p.at \in {"finish", "verify"} => p.current \in Delegations
        /\ Len(p.todo) \in Nat
        /\ \A i \in 1..Len(p.todo) : p.todo[i] \in Delegations
    <2>1. p.todo \in Seq(Delegations)
      BY ProcessParts
    <2> QED
      BY <2>1 DEF Sane
  <1>5. Allowed(id, s)
    BY <1>1 DEF LegalQueue
  <1>6. \A d \in Delegations : delegation'[d] = IF d = id THEN s ELSE delegation[d]
    BY <1>2
  <1>7. delegation'[id] = s
    BY <1>2, <1>6
  <1> HIDE DEF t
  <1>8. \A d \in Delegations : delegation[d] \in Terminal => delegation'[d] = delegation[d]
    BY <1>5, <1>6 DEF Allowed
  <1>9. RunningDisjoint'
    <2> SUFFICES ASSUME NEW x \in Delegations, NEW y \in Delegations, x # y,
                        delegation'[x] = "running", delegation'[y] = "running"
                 PROVE  ~Overlap(x, y)
      BY DEF RunningDisjoint, Overlap
    <2>1. ASSUME NEW z \in Delegations, s = "running", delegation[z] = "running", z # id
          PROVE  ~Overlap(id, z)
      <3>1. CASE delegation[id] = "running"
        BY <1>2, <2>1, <3>1 DEF RunningDisjoint
      <3>2. CASE delegation[id] # "running"
        BY <1>5, <2>1, <3>2 DEF Allowed
      <3> QED
        BY <3>1, <3>2
    <2> HIDE DEF id, s
    <2>2. CASE x = id
      BY <1>6, <2>1, <2>2
    <2>3. CASE y = id
      <3>1. ~Overlap(y, x)
        BY <1>6, <2>1, <2>3
      <3> QED
        BY <3>1 DEF Overlap
    <2>4. CASE x # id /\ y # id
      BY <1>6, <2>4 DEF RunningDisjoint
    <2> QED
      BY <2>2, <2>3, <2>4
  <1>10. VerifiedCompleted'
    BY <1>8 DEF VerifiedCompleted, Terminal
  \* Another delegation entry behind this one fails another that ran.
  <1>11. LegalQueue(t)'
    <2>1. ASSUME NEW k \in 1..Len(t), t[k].type = "delegation"
          PROVE  /\ delegation'[t[k].id] \in Terminal => t[k].status = delegation'[t[k].id]
                 /\ t[k].status = "failed"
      <3>1. q[k + 1].type = "delegation" /\ k + 1 \in 1..Len(q) /\ k + 1 # 1 /\ t[k] = q[k + 1]
        BY <1>1, <2>1
      <3>2. s = "failed" /\ t[k].status = "failed"
        BY <1>1, <3>1 DEF LegalQueue
      <3>3. t[k].id \in Delegations /\ Allowed(t[k].id, t[k].status)
        BY <1>3, <3>1 DEF LegalQueue
      <3> HIDE DEF id, s
      <3> QED
        BY <1>6, <3>2, <3>3 DEF Allowed
    <2>2. ASSUME NEW k \in 1..Len(t), t[k].type = "verification"
          PROVE  delegation'[t[k].id] = "completed"
      <3>1. t[k].id \in Delegations /\ delegation[t[k].id] = "completed"
        BY <1>1, <1>3, <2>2 DEF LegalQueue
      <3> QED
        BY <1>8, <3>1 DEF Terminal
    <2> QED
      BY <2>1, <2>2 DEF LegalQueue, Allowed
  <1>12. LegalJob(p, t)'
    <2>1. ASSUME p.at = "finish"
          PROVE  /\ delegation'[p.current] = "running"
                 /\ \A k \in 1..Len(t) :
                       t[k].type = "delegation" => t[k] = DEntry(p.current, "running")
      <3>1. /\ q[1] = DEntry(p.current, "running")
            /\ \A k \in 1..Len(q) :
                  q[k].type = "delegation" => q[k] = DEntry(p.current, "running")
        BY <1>1, <2>1 DEF LegalJob
      <3>2. id = p.current /\ s = "running"
        BY <3>1 DEF DEntry
      <3> QED
        BY <1>1, <1>7, <3>1, <3>2
    <2>2. ASSUME p.at = "verify" PROVE delegation'[p.current] = "completed"
      <3>1. CASE delegation[p.current] = "completed"
        BY <1>4, <1>8, <2>2, <3>1 DEF Terminal
      <3>2. CASE q[1] = DEntry(p.current, "completed")
        BY <1>7, <3>2 DEF DEntry
      <3> QED
        BY <2>2, <3>1, <3>2 DEF LegalJob
    <2>3. ASSUME p.at = "cancel", NEW i \in 1..Len(p.todo)
          PROVE  /\ delegation'[p.todo[i]] = "queued"
                 /\ \A j \in 1..Len(p.todo) : i # j => p.todo[i] # p.todo[j]
                 /\ \A k \in 1..Len(t) : t[k].type = "delegation" => t[k].id # p.todo[i]
      <3>1. /\ delegation[p.todo[i]] = "queued" /\ id # p.todo[i]
            /\ \A j \in 1..Len(p.todo) : i # j => p.todo[i] # p.todo[j]
            /\ \A k \in 1..Len(q) : q[k].type = "delegation" => q[k].id # p.todo[i]
        BY <1>1, <2>3 DEF LegalJob
      <3> HIDE DEF id, s
      <3> QED
        BY <1>1, <1>4, <1>6, <3>1
    <2> QED
      BY <2>1, <2>2, <2>3 DEF LegalJob
  <1> QED
    BY <1>8, <1>9, <1>10, <1>11, <1>12 DEF t

LEMMA AppendOther ==
    ASSUME TypeOK, NEW q \in Seq(Entries), q # <<>>, q[1].type # "delegation",
           NEW p \in Process, LegalQueue(q), LegalJob(p, q),
           RunningDisjoint, VerifiedCompleted, delegation' = delegation,
           \/ verification' = verification
           \/ /\ q[1].type = "verification"
              /\ verification' = [verification EXCEPT ![q[1].id] = q[1].status]
    PROVE  /\ RunningDisjoint' /\ VerifiedCompleted'
           /\ LegalQueue(Tail(q))' /\ LegalJob(p, Tail(q))'
  <1> DEFINE t == Tail(q)
  <1>1. /\ 1 \in 1..Len(q) /\ Len(q) \in Nat
        /\ \A k \in 1..Len(t) : k + 1 \in 1..Len(q) /\ k + 1 # 1 /\ t[k] = q[k + 1]
        /\ \A k, m \in 1..Len(t) : k # m => k + 1 # m + 1
    OBVIOUS
  <1>2. RunningDisjoint'
    BY DEF RunningDisjoint, Overlap
  <1>3. VerifiedCompleted'
    <2>1. CASE verification' = verification
      BY <2>1 DEF VerifiedCompleted
    <2>2. CASE /\ q[1].type = "verification"
               /\ verification' = [verification EXCEPT ![q[1].id] = q[1].status]
      <3>1. delegation[q[1].id] = "completed"
        BY <1>1, <2>2 DEF LegalQueue
      <3>2. \A d \in Delegations : d # q[1].id => verification'[d] = verification[d]
        BY <2>2 DEF TypeOK
      <3> QED
        BY <3>1, <3>2 DEF VerifiedCompleted
    <2> QED
      BY <2>1, <2>2
  <1> HIDE DEF t
  <1>4. LegalQueue(t)'
    <2>1. \A k \in 1..Len(t) :
            /\ t[k].type = "delegation" => Allowed(t[k].id, t[k].status)
            /\ t[k].type = "verification" => delegation[t[k].id] = "completed"
      BY <1>1 DEF LegalQueue
    <2>2. \A k, m \in 1..Len(t) :
            k # m /\ t[k].type = "delegation" /\ t[m].type = "delegation"
              => t[k].status = "failed"
      BY <1>1 DEF LegalQueue
    <2> QED
      BY <2>1, <2>2 DEF LegalQueue, Allowed, Overlap
  <1>5. LegalJob(p, t)'
    <2>1. \A d, s : q[1] # DEntry(d, s)
      BY DEF DEntry
    <2>2. /\ p.at = "finish" =>
                /\ delegation[p.current] = "running"
                /\ \A k \in 1..Len(t) :
                      t[k].type = "delegation" => t[k] = DEntry(p.current, "running")
          /\ p.at = "verify" => delegation[p.current] = "completed"
      BY <1>1, <2>1 DEF LegalJob
    <2>3. p.at = "cancel" =>
             \A i \in 1..Len(p.todo) :
                /\ delegation[p.todo[i]] = "queued"
                /\ \A j \in 1..Len(p.todo) : i # j => p.todo[i] # p.todo[j]
                /\ \A k \in 1..Len(t) : t[k].type = "delegation" => t[k].id # p.todo[i]
      BY <1>1 DEF LegalJob
    <2> QED
      BY <2>2, <2>3 DEF LegalJob
  <1> QED
    BY <1>2, <1>3, <1>4, <1>5 DEF t

-----------------------------------------------------------------------------
\* JobInv after a step, told for the only process.
LEMMA JobInvAfter ==
    ASSUME NEW c, Procs = {c}, NEW p, NEW q, proc'[c] = p, queue'[c] = q,
           RunningDisjoint', VerifiedCompleted', LegalQueue(q)', LegalJob(p, q)'
    PROVE  JobInv'
  BY DEF JobInv, LegalQueue, LegalJob, Allowed

LEMMA AppendJob ==
    ASSUME TInv, JobInv, NEW c, Procs = {c}, AppendEntry(c)
    PROVE  /\ JobInv'
           /\ \A d \in Delegations : delegation[d] \in Terminal => delegation'[d] = delegation[d]
  <1>0. TypeOK /\ c \in Procs /\ queue[c] # <<>> /\ Sane(proc[c], queue[c])
    BY DEF TInv, AppendEntry
  <1>1. PICK q \in Seq(Entries) : q = queue[c]
    BY <1>0 DEF TypeOK
  <1>2. PICK p \in Process : p = proc[c]
    BY <1>0 DEF TypeOK
  <1>3. /\ q # <<>> /\ Sane(p, q) /\ LegalQueue(q) /\ LegalJob(p, q)
        /\ RunningDisjoint /\ VerifiedCompleted
    BY <1>0, <1>1, <1>2 DEF JobInv
  <1>4. q[1] = Head(queue[c])
    BY <1>0, <1>1
  <1>5. proc'[c] = p /\ queue'[c] = Tail(q)
    BY <1>0, <1>1, <1>2 DEF AppendEntry, TypeOK
  <1>6. CASE q[1].type = "delegation"
    <2>1. /\ delegation' = [delegation EXCEPT ![q[1].id] = q[1].status]
          /\ verification' = verification
      BY <1>4, <1>6 DEF AppendEntry, Replay, ReplayDelegation
    <2>2. /\ \A d \in Delegations : delegation[d] \in Terminal => delegation'[d] = delegation[d]
          /\ RunningDisjoint' /\ VerifiedCompleted'
          /\ LegalQueue(Tail(q))' /\ LegalJob(p, Tail(q))'
      BY <1>0, <1>3, <1>6, <2>1, AppendDelegation
    <2> QED
      BY <1>5, <2>2, JobInvAfter
  <1>7. CASE q[1].type # "delegation"
    <2>1. /\ delegation' = delegation
          /\ \/ verification' = verification
             \/ /\ q[1].type = "verification"
                /\ verification' = [verification EXCEPT ![q[1].id] = q[1].status]
      BY <1>4, <1>7 DEF AppendEntry, Replay, ReplayVerification, ReplayNote
    <2>2. /\ RunningDisjoint' /\ VerifiedCompleted'
          /\ LegalQueue(Tail(q))' /\ LegalJob(p, Tail(q))'
      BY <1>0, <1>3, <1>7, <2>1, AppendOther
    <2> QED
      BY <1>5, <2>1, <2>2, JobInvAfter
  <1> QED
    BY <1>6, <1>7

LEMMA JobInit ==
    ASSUME NEW c, Procs = {c}, Init
    PROVE  JobInv
  <1>1. proc[c] = Idle /\ queue[c] = <<>> /\ \A k : k \notin 1..Len(<<>>)
    BY DEF Init
  <1>2. RunningDisjoint /\ VerifiedCompleted
    BY DEF Init, RunningDisjoint, VerifiedCompleted
  <1> QED
    BY <1>1, <1>2, IdleProcess DEF JobInv, LegalQueue, LegalJob

LEMMA JobStep ==
    ASSUME TInv, JobInv, NEW c, Procs = {c}, [Next]_vars
    PROVE  /\ JobInv'
           /\ \A d \in Delegations : delegation[d] \in Terminal => delegation'[d] = delegation[d]
  <1>0. TypeOK /\ c \in Procs
    BY DEF TInv
  <1>1. ASSUME UNCHANGED lane, NEW p, NEW q, proc'[c] = p, queue'[c] = q,
               LegalQueue(q), LegalJob(p, q)
        PROVE  JobInv'
    <2>1. delegation' = delegation /\ verification' = verification
      BY <1>1 DEF lane
    <2>2. RunningDisjoint' /\ VerifiedCompleted'
      BY <2>1 DEF JobInv, RunningDisjoint, VerifiedCompleted, Overlap
    <2>3. LegalQueue(q)'
      BY <1>1, <2>1 DEF LegalQueue, Allowed, Overlap
    <2>4. LegalJob(p, q)'
      BY <1>1, <2>1 DEF LegalJob
    <2> QED
      BY <1>1, <2>2, <2>3, <2>4, JobInvAfter
  <1>2. ASSUME UNCHANGED vars
        PROVE  /\ JobInv'
               /\ \A d \in Delegations :
                     delegation[d] \in Terminal => delegation'[d] = delegation[d]
    <2>1. PICK p, q : p = proc[c] /\ q = queue[c]
      OBVIOUS
    <2>2. UNCHANGED lane /\ proc'[c] = p /\ queue'[c] = q /\ delegation' = delegation
      BY <1>2, <2>1 DEF vars, lane
    <2>3. LegalQueue(q) /\ LegalJob(p, q)
      BY <1>0, <2>1 DEF JobInv
    <2> QED
      BY <1>1, <2>2, <2>3
  <1>3. ASSUME NEW d \in Procs, Die(d)
        PROVE  /\ JobInv'
               /\ \A e \in Delegations :
                     delegation[e] \in Terminal => delegation'[e] = delegation[e]
    <2>1. /\ UNCHANGED lane /\ proc'[c] = Idle /\ queue'[c] = <<>>
          /\ delegation' = delegation
      BY <1>0, <1>3 DEF Die, TypeOK, lane
    <2>2. \A k : k \notin 1..Len(<<>>)
      OBVIOUS
    <2>3. LegalQueue(<<>>) /\ LegalJob(Idle, <<>>)
      BY <2>2, IdleProcess DEF LegalQueue, LegalJob
    <2> QED
      BY <1>1, <2>1, <2>3
  <1>4. ASSUME NEW d \in Procs, NEW p \in Process, NEW entries \in Seq(Entries),
               Sane(p, entries), Moves(d, p, entries), Kind(d, p, entries)
        PROVE  /\ JobInv'
               /\ \A e \in Delegations :
                     delegation[e] \in Terminal => delegation'[e] = delegation[e]
    <2>1. d = c
      OBVIOUS
    <2>2. /\ UNCHANGED lane /\ proc'[c] = p /\ queue'[c] = entries
          /\ delegation' = delegation
      BY <1>0, <1>4, <2>1 DEF Moves, TypeOK, lane
    <2>3. LegalQueue(entries) /\ LegalJob(p, entries)
      BY <1>4, MovesLegal
    <2> QED
      BY <1>1, <2>2, <2>3
  <1>5. ASSUME NEW d \in Procs, AppendEntry(d)
        PROVE  /\ JobInv'
               /\ \A e \in Delegations :
                     delegation[e] \in Terminal => delegation'[e] = delegation[e]
    <2>1. AppendEntry(c)
      BY <1>5
    <2> QED
      BY <2>1, AppendJob
  <1> QED
    BY <1>2, <1>3, <1>4, <1>5, StepKinds

\* Runs, claims and commands one after another keep what a job relies on.
LEMMA JobInvariance ==
    ASSUME NEW c, Procs = {c}
    PROVE  Spec => [](TInv /\ JobInv)
  <1>1. Init => TInv /\ JobInv
    BY TypeStep, JobInit
  <1>2. TInv /\ JobInv /\ [Next]_vars => (TInv /\ JobInv)'
    BY TypeStep, JobStep
  <1> QED
    BY <1>1, <1>2, PTL DEF Spec

(* With jobs one after another, as the README of the repository asks        *)
(* (README.md:281), no two delegations whose write sets overlap ever run    *)
(* together: not when a worker died and left its delegation running, not    *)
(* for any write sets, and in no order of claims, failures and recoveries   *)
(* (selectDelegationForClaim, createSubagentSchedulingByDelegationId).      *)
THEOREM NeverOverlapping ==
    ASSUME NEW c, Procs = {c}
    PROVE  Spec => []RunningDisjoint
  <1>1. JobInv => RunningDisjoint
    BY DEF JobInv
  <1> QED
    BY <1>1, JobInvariance, PTL

(* With jobs one after another a verifier is only ever asked about a        *)
(* delegation that completed, and that stays so, wherever the job that      *)
(* asked for it died (requestVerification after completeDelegation).        *)
THEOREM OnlyCompletedVerified ==
    ASSUME NEW c, Procs = {c}
    PROVE  Spec => []VerifiedCompleted
  <1>1. JobInv => VerifiedCompleted
    BY DEF JobInv
  <1> QED
    BY <1>1, JobInvariance, PTL

(* With jobs one after another no step of any job changes the status of a   *)
(* delegation that ended: not the reconciliation at startup, not an enqueue *)
(* of the same id, not a recovery that was planned before                   *)
(* (upsertDelegation, failDelegation, cancelDelegation).                    *)
THEOREM EndsAreFinal ==
    ASSUME NEW c, Procs = {c}
    PROVE  Spec => EndedStaysEnded
  <1>1. TInv /\ JobInv /\ [Next]_vars =>
          [\A d \in Delegations :
              delegation[d] \in Terminal => delegation'[d] = delegation[d]]_vars
    BY JobStep
  <1> QED
    BY <1>1, JobInvariance, PTL DEF Spec, EndedStaysEnded

-----------------------------------------------------------------------------
(* The mailboxes, as long as nobody died: what the lane will say once the   *)
(* queue is in changes with the moves, and an append only brings it about.  *)

LEMMA NoteCases ==
    ASSUME NEW kind, NEW d, NEW waiting \in BOOLEAN
    PROVE  \/ /\ NoteEntries(kind, d, waiting) = <<>>
              /\ note[kind][d] = "pending" <=> waiting
           \/ NoteEntries(kind, d, waiting) = <<NEntry(kind, d, "pending")>> /\ waiting
           \/ NoteEntries(kind, d, waiting) = <<NEntry(kind, d, "acknowledged")>> /\ ~waiting
  BY DEF NoteEntries, NEntry

Announces(q, e, kind, d, waiting) == q = <<e>> \o NoteEntries(kind, d, waiting)

\* A record's entry with its notification's: the notification is pending
\* afterwards exactly if the record waits.
LEMMA SettledNotes ==
    ASSUME TypeOK, NEW kind \in Kinds, NEW d \in Delegations, NEW waiting \in BOOLEAN,
           NEW e, e.type # "note", NEW q, Announces(q, e, kind, d, waiting)
    PROVE  /\ Short(q) /\ q # <<>> /\ q[1] = e
           /\ SettledNote(q)[kind][d] = "pending" <=> waiting
           /\ \A k \in Kinds, x \in Delegations :
                 k # kind \/ x # d => SettledNote(q)[k][x] = note[k][x]
  <1>0. note \in [Kinds -> [Delegations -> {"absent", "pending", "acknowledged"}]]
    BY DEF TypeOK
  <1>1. CASE NoteEntries(kind, d, waiting) = <<>> /\ (note[kind][d] = "pending" <=> waiting)
    <2>1. q = <<e>> /\ Len(q) = 1 /\ q[1] = e /\ q # <<>>
      <3>1. q = <<e>>
        BY <1>1, Coupled DEF Announces
      <3>2. <<e>> # <<>> /\ <<e>>[1] = e /\ Len(<<e>>) = 1
        BY Coupled
      <3> QED
        BY <3>1, <3>2, Zenon
    <2>2. Short(q) /\ SettledNote(q) = note
      BY <2>1 DEF Short, SettledNote
    <2> QED
      BY <1>1, <2>1, <2>2
  <1>2. ASSUME NEW s \in {"pending", "acknowledged"}, s = "pending" <=> waiting,
               NoteEntries(kind, d, waiting) = <<NEntry(kind, d, s)>>
        PROVE  /\ Short(q) /\ q # <<>> /\ q[1] = e
               /\ SettledNote(q)[kind][d] = "pending" <=> waiting
               /\ \A k \in Kinds, x \in Delegations :
                     k # kind \/ x # d => SettledNote(q)[k][x] = note[k][x]
    <2> DEFINE m == NEntry(kind, d, s)
    <2>1. m.type = "note" /\ m.kind = kind /\ m.id = d /\ m.status = s
      BY DEF NEntry
    <2> HIDE DEF m
    <2>2. /\ <<e>> \o <<m>> = <<e, m>> /\ <<e, m>> # <<>>
          /\ <<e, m>>[1] = e /\ <<e, m>>[2] = m /\ Len(<<e, m>>) = 2
      BY Coupled
    <2>3. q = <<e, m>>
      BY <1>2, <2>2 DEF m, Announces
    <2>4. Len(q) = 2 /\ q[1] = e /\ q[2] = m /\ q # <<>> /\ q[Len(q)] = m
      BY <2>2, <2>3, Zenon
    <2>5. SettledNote(q) = [note EXCEPT ![kind][d] = s]
      BY <2>1, <2>4 DEF SettledNote
    <2>6. SettledNote(q)[kind][d] = s
      BY <1>0, <2>5
    <2>7. \A k \in Kinds, x \in Delegations :
             k # kind \/ x # d => SettledNote(q)[k][x] = note[k][x]
      BY <1>0, <2>5
    <2>8. Short(q)
      BY <2>1, <2>4 DEF Short
    <2> QED
      BY <1>2, <2>4, <2>6, <2>7, <2>8
  <1> QED
    BY <1>1, <1>2, NoteCases

\* A move that queues a change of delegation d to s.
LEMMA TellsDelegation ==
    ASSUME TypeOK, NEW old, NEW p, NEW d \in Delegations, NEW s \in Active \cup Terminal,
           Tells(old, <<>>),
           s = "running" => p.at = "finish" /\ p.current = d,
           d \in Verified /\ s = "completed" =>
               verification[d] # "absent" \/ (p.at = "verify" /\ p.current = d),
           \A x \in Delegations : x # d => delegation[x] # "running",
           \A x \in Delegations : x # d => ~(old.at = "verify" /\ old.current = x)
    PROVE  Tells(p, DelegationEntries(d, s))
  <1>0. PICK q : q = DelegationEntries(d, s)
    OBVIOUS
  <1> DEFINE e == DEntry(d, s)
  <1>1. e.type = "delegation" /\ e.id = d /\ e.status = s
    BY DEF DEntry
  <1>2. q = <<e>> \o NoteEntries("worker", d, s = "queued")
    BY <1>0 DEF DelegationEntries, DEntry
  <1>3. "worker" \in Kinds /\ "verifier" \in Kinds /\ "worker" # "verifier"
    BY DEF Kinds
  <1>4. \A x \in Delegations : Covered(old, x, delegation[x], verification[x], note)
    BY DEF Tells, SettledDelegation, SettledVerification, SettledNote
  <1> HIDE DEF e
  <1>5. /\ Short(q) /\ q # <<>> /\ q[1] = e
        /\ SettledNote(q)["worker"][d] = "pending" <=> s = "queued"
        /\ \A k \in Kinds, x \in Delegations :
              k # "worker" \/ x # d => SettledNote(q)[k][x] = note[k][x]
    <2> DEFINE waiting == s = "queued"
    <2>1. waiting \in BOOLEAN /\ e.type # "note" /\ "worker" \in Kinds
      BY <1>1, <1>3
    <2>2. Announces(q, e, "worker", d, waiting)
      BY <1>2 DEF Announces
    <2> HIDE DEF waiting
    <2>3. /\ Short(q) /\ q # <<>> /\ q[1] = e
          /\ SettledNote(q)["worker"][d] = "pending" <=> waiting
          /\ \A k \in Kinds, x \in Delegations :
                k # "worker" \/ x # d => SettledNote(q)[k][x] = note[k][x]
      BY <2>1, <2>2, SettledNotes
    <2> QED
      BY <2>3 DEF waiting
  <1>6. /\ \A x \in Delegations : SettledDelegation(q)[x] = IF x = d THEN s ELSE delegation[x]
        /\ SettledVerification(q) = verification
    BY <1>1, <1>5 DEF SettledDelegation, SettledVerification, TypeOK
  <1>7. ASSUME NEW x \in Delegations
        PROVE  Covered(p, x, SettledDelegation(q)[x], SettledVerification(q)[x], SettledNote(q))
    <2>1. SettledNote(q)["verifier"][x] = note["verifier"][x]
      BY <1>3, <1>5
    <2>2. CASE x = d
      BY <1>4, <1>5, <1>6, <2>1, <2>2 DEF Covered
    <2>3. CASE x # d
      <3>1. SettledNote(q)["worker"][x] = note["worker"][x]
        BY <1>3, <1>5, <2>3
      <3> QED
        BY <1>4, <1>6, <2>1, <2>3, <3>1 DEF Covered
    <2> QED
      BY <2>2, <2>3
  <1> QED
    BY <1>0, <1>5, <1>7 DEF Tells

\* A move that queues a change of the verification of d to s.
LEMMA TellsVerification ==
    ASSUME TypeOK, NEW old, NEW p, NEW d \in Delegations, NEW s \in {"pending", "decided"},
           Tells(old, <<>>),
           \A x \in Delegations : delegation[x] # "running",
           \A x \in Delegations : x # d => ~(old.at = "verify" /\ old.current = x)
    PROVE  Tells(p, VerificationEntries(d, s))
  <1>0. PICK q : q = VerificationEntries(d, s)
    OBVIOUS
  <1> DEFINE e == VEntry(d, s)
  <1>1. e.type = "verification" /\ e.id = d /\ e.status = s
    BY DEF VEntry
  <1>2. q = <<e>> \o NoteEntries("verifier", d, s = "pending")
    BY <1>0 DEF VerificationEntries, VEntry
  <1>3. "worker" \in Kinds /\ "verifier" \in Kinds /\ "worker" # "verifier"
    BY DEF Kinds
  <1>4. \A x \in Delegations : Covered(old, x, delegation[x], verification[x], note)
    BY DEF Tells, SettledDelegation, SettledVerification, SettledNote
  <1> HIDE DEF e
  <1>5. /\ Short(q) /\ q # <<>> /\ q[1] = e
        /\ SettledNote(q)["verifier"][d] = "pending" <=> s = "pending"
        /\ \A k \in Kinds, x \in Delegations :
              k # "verifier" \/ x # d => SettledNote(q)[k][x] = note[k][x]
    <2> DEFINE waiting == s = "pending"
    <2>1. waiting \in BOOLEAN /\ e.type # "note" /\ "verifier" \in Kinds
      BY <1>1, <1>3
    <2>2. Announces(q, e, "verifier", d, waiting)
      BY <1>2 DEF Announces
    <2> HIDE DEF waiting
    <2>3. /\ Short(q) /\ q # <<>> /\ q[1] = e
          /\ SettledNote(q)["verifier"][d] = "pending" <=> waiting
          /\ \A k \in Kinds, x \in Delegations :
                k # "verifier" \/ x # d => SettledNote(q)[k][x] = note[k][x]
      BY <2>1, <2>2, SettledNotes
    <2> QED
      BY <2>3 DEF waiting
  <1>6. /\ \A x \in Delegations :
              SettledVerification(q)[x] = IF x = d THEN s ELSE verification[x]
        /\ SettledDelegation(q) = delegation
    BY <1>1, <1>5 DEF SettledDelegation, SettledVerification, TypeOK
  <1>7. ASSUME NEW x \in Delegations
        PROVE  Covered(p, x, SettledDelegation(q)[x], SettledVerification(q)[x], SettledNote(q))
    <2>1. SettledNote(q)["worker"][x] = note["worker"][x]
      BY <1>3, <1>5
    <2>2. CASE x = d
      BY <1>4, <1>5, <1>6, <2>1, <2>2 DEF Covered
    <2>3. CASE x # d
      <3>1. SettledNote(q)["verifier"][x] = note["verifier"][x]
        BY <1>3, <1>5, <2>3
      <3> QED
        BY <1>4, <1>6, <2>1, <2>3, <3>1 DEF Covered
    <2> QED
      BY <2>2, <2>3
  <1> QED
    BY <1>0, <1>5, <1>7 DEF Tells

\* What holds of the lane before a move, when all is told and appended.
LEMMA ToldNow ==
    ASSUME NEW old, Tells(old, <<>>), NEW d \in Delegations
    PROVE  /\ note["worker"][d] = "pending" <=> delegation[d] = "queued"
           /\ note["verifier"][d] = "pending" <=> verification[d] = "pending"
           /\ delegation[d] = "running" => old.at = "finish" /\ old.current = d
           /\ d \in Verified /\ delegation[d] = "completed" =>
                 verification[d] # "absent" \/ (old.at = "verify" /\ old.current = d)
  BY DEF Tells, Covered, SettledDelegation, SettledVerification, SettledNote

\* A move that queues nothing, from where nothing is claimed or to be verified.
LEMMA TellsNothing ==
    ASSUME NEW old, NEW p, Tells(old, <<>>), old.at \notin {"finish", "verify"}
    PROVE  Tells(p, <<>>)
  <1>1. Short(<<>>)
    BY DEF Short
  <1>2. ASSUME NEW d \in Delegations PROVE Covered(p, d, delegation[d], verification[d], note)
    BY ToldNow DEF Covered
  <1> QED
    BY <1>1, <1>2 DEF Tells, SettledDelegation, SettledVerification, SettledNote

LEMMA MovesTell ==
    ASSUME TInv, NEW c \in Procs, NEW p \in Process, NEW entries \in Seq(Entries),
           Sane(p, entries), Moves(c, p, entries), Kind(c, p, entries), Tells(proc[c], <<>>)
    PROVE  Tells(p, entries)
  <1>0. PICK old \in Process : old = proc[c]
    BY DEF TInv, TypeOK
  <1>1. TypeOK /\ Tells(old, <<>>)
    BY <1>0 DEF TInv
  <1>2. \A d \in Delegations : delegation[d] = "running" => old.at = "finish" /\ old.current = d
    BY <1>1, ToldNow
  <1>3. \A d \in Delegations : d \in Verified /\ delegation[d] = "completed" =>
           verification[d] # "absent" \/ (old.at = "verify" /\ old.current = d)
    BY <1>1, ToldNow
  <1>4. CASE Silent(c, p, entries)
    <2>1. entries = <<>> /\ old.at \notin {"finish", "verify"}
      BY <1>0, <1>4 DEF Silent
    <2>2. Tells(p, <<>>)
      BY <1>1, <2>1, TellsNothing
    <2> QED
      BY <2>1, <2>2
  <1>5. CASE Reconciles(c, p, entries)
    <2>1. old.at = "idle"
      BY <1>0, <1>5, IdleProcess DEF Reconciles
    <2>2. \A d \in Delegations : delegation[d] # "running"
      BY <1>2, <2>1
    <2>3. entries = <<>>
      BY <1>1, <1>5, <2>2, ReconcileOf DEF Reconciles, TypeOK
    <2>4. Tells(p, <<>>)
      BY <1>1, <2>1, TellsNothing
    <2> QED
      BY <2>3, <2>4
  <1>6. CASE Enqueues(c, p, entries)
    <2>1. old.at = "idle"
      BY <1>0, <1>6, IdleProcess DEF Enqueues
    <2>2. PICK d \in Delegations :
            entries = DelegationEntries(d, IF delegation[d] = "absent" THEN "queued"
                                                                        ELSE delegation[d])
      BY <1>6 DEF Enqueues
    <2>3. PICK s \in Active \cup Terminal :
            s = IF delegation[d] = "absent" THEN "queued" ELSE delegation[d]
      BY <1>1 DEF TypeOK, Active
    <2>4. /\ s # "running"
          /\ d \in Verified /\ s = "completed" => verification[d] # "absent"
          /\ \A x \in Delegations : delegation[x] # "running"
      BY <1>2, <1>3, <2>1, <2>3
    <2>5. Tells(p, DelegationEntries(d, s))
      BY <1>1, <2>1, <2>4, TellsDelegation
    <2> QED
      BY <2>2, <2>3, <2>5
  <1>7. CASE Decides(c, p, entries)
    <2>1. old.at = "idle"
      BY <1>0, <1>7, IdleProcess DEF Decides
    <2>2. PICK d \in Delegations : entries = VerificationEntries(d, "decided")
      BY <1>7 DEF Decides
    <2>3. Tells(p, VerificationEntries(d, "decided"))
      BY <1>1, <1>2, <2>1, TellsVerification
    <2> QED
      BY <2>2, <2>3
  <1>8. CASE Claims(c, p, entries)
    <2>1. PICK d : d = p.current
      OBVIOUS
    <2>2. /\ old.at = "claim" /\ p.at = "finish" /\ d \in Delegations
          /\ entries = DelegationEntries(d, "running")
      BY <1>0, <1>8, <2>1 DEF Claims, Sane
    <2>3. "running" \in Active \cup Terminal /\ \A x \in Delegations : delegation[x] # "running"
      BY <1>2, <2>2 DEF Active
    <2>4. Tells(p, DelegationEntries(d, "running"))
      BY <1>1, <2>1, <2>2, <2>3, TellsDelegation
    <2> QED
      BY <2>2, <2>4
  <1>9. CASE Finishes(c, p, entries)
    <2>1. PICK d : d = p.current
      OBVIOUS
    <2>2. PICK s \in {"completed", "failed"} :
            /\ p.at = IF s = "completed" /\ d \in Verified THEN "verify" ELSE "next"
            /\ entries = DelegationEntries(d, s)
      BY <1>9, <2>1 DEF Finishes
    <2>3. old.at = "finish" /\ old.current = d /\ d \in Delegations
      BY <1>0, <1>9, <2>1 DEF Finishes, TInv, Sane
    <2>4. /\ s \in Active \cup Terminal /\ s # "running"
          /\ d \in Verified /\ s = "completed" => p.at = "verify" /\ p.current = d
          /\ \A x \in Delegations : x # d => delegation[x] # "running"
      BY <1>2, <2>1, <2>2, <2>3 DEF Terminal
    <2>5. Tells(p, DelegationEntries(d, s))
      BY <1>1, <2>3, <2>4, TellsDelegation
    <2> QED
      BY <2>2, <2>5
  <1>10. CASE Requests(c, p, entries)
    <2>1. PICK d : d = p.current
      OBVIOUS
    <2>2. /\ old.at = "verify" /\ old.current = d /\ d \in Delegations
          /\ entries = VerificationEntries(d, "pending")
      BY <1>0, <1>10, <2>1 DEF Requests, TInv, Sane
    <2>3. Tells(p, VerificationEntries(d, "pending"))
      BY <1>1, <1>2, <2>2, TellsVerification
    <2> QED
      BY <2>2, <2>3
  <1>11. CASE Cancels(c, p, entries)
    <2>1. PICK d : d = Head(old.todo)
      OBVIOUS
    <2>2. /\ old.at = "cancel" /\ old.todo # <<>>
          /\ entries = DelegationEntries(d, "cancelled")
      BY <1>0, <1>11, <2>1 DEF Cancels
    <2>3. d \in Delegations
      <3>1. old.todo \in Seq(Delegations)
        BY ProcessParts
      <3> QED
        BY <2>1, <2>2, <3>1
    <2>4. /\ "cancelled" \in Active \cup Terminal
          /\ \A x \in Delegations : delegation[x] # "running"
      BY <1>2, <2>2 DEF Terminal
    <2>5. Tells(p, DelegationEntries(d, "cancelled"))
      BY <1>1, <2>2, <2>3, <2>4, TellsDelegation
    <2> QED
      BY <2>2, <2>5
  <1> QED
    BY <1>4, <1>5, <1>6, <1>7, <1>8, <1>9, <1>10, <1>11 DEF Kind

\* An append takes the first entry out of the queue and into the lane.
LEMMA AppendSettles ==
    ASSUME NEW q \in Seq(Entries), q # <<>>, Short(q), Replay(q[1])
    PROVE  /\ Short(Tail(q))
           /\ SettledDelegation(Tail(q))' = SettledDelegation(q)
           /\ SettledVerification(Tail(q))' = SettledVerification(q)
           /\ SettledNote(Tail(q))' = SettledNote(q)
  <1> DEFINE e == q[1]
  <1>1. \/ Len(q) = 1 /\ Tail(q) = <<>>
        \/ /\ Len(q) = 2 /\ e.type # "note" /\ q[2].type = "note"
           /\ Tail(q) # <<>> /\ Len(Tail(q)) = 1 /\ Tail(q)[1] = q[2]
    <2> DEFINE t == Tail(q)
    <2>1. /\ t \in Seq(Entries) /\ Len(t) = Len(q) - 1
          /\ \A i \in 1..Len(t) : t[i] = q[i + 1]
      BY HeadTailProperties
    <2> HIDE DEF t
    <2>2. ASSUME Len(q) = 1 PROVE t = <<>>
      BY <2>1, <2>2, EmptySeq
    <2>3. ASSUME Len(q) = 2 PROVE t # <<>> /\ Len(t) = 1 /\ t[1] = q[2]
      <3>1. Len(t) = 1 /\ Len(<<>>) = 0
        BY <2>1, <2>3
      <3>2. 1 \in 1..Len(t) /\ 1 + 1 = 2
        BY <3>1
      <3>3. t[1] = q[2]
        BY <2>1, <3>2
      <3> QED
        BY <3>1, <3>3
    <2> QED
      BY <2>2, <2>3 DEF Short, t
  <1>2. /\ SettledDelegation(q) =
              IF e.type = "delegation" THEN [delegation EXCEPT ![e.id] = e.status] ELSE delegation
        /\ SettledVerification(q) =
              IF e.type = "verification" THEN [verification EXCEPT ![e.id] = e.status]
                                          ELSE verification
    BY DEF SettledDelegation, SettledVerification
  <1>3. /\ delegation' = SettledDelegation(q) /\ verification' = SettledVerification(q)
    <2>1. CASE e.type = "delegation" /\ ReplayDelegation(e)
      BY <1>2, <2>1 DEF ReplayDelegation
    <2>2. CASE e.type = "verification" /\ ReplayVerification(e)
      BY <1>2, <2>2 DEF ReplayVerification
    <2>3. CASE e.type = "note" /\ ReplayNote(e)
      BY <1>2, <2>3 DEF ReplayNote
    <2> QED
      BY <2>1, <2>2, <2>3 DEF Replay
  <1>4. note' = IF e.type = "note" THEN [note EXCEPT ![e.kind][e.id] = e.status] ELSE note
    BY DEF Replay, ReplayDelegation, ReplayVerification, ReplayNote
  <1> HIDE DEF e
  <1>5. CASE Len(q) = 1 /\ Tail(q) = <<>>
    <2>1. SettledNote(q) = note'
      BY <1>4, <1>5 DEF SettledNote, e
    <2> QED
      BY <1>3, <1>5, <2>1 DEF Short, SettledDelegation, SettledVerification, SettledNote
  <1>6. CASE /\ Len(q) = 2 /\ e.type # "note" /\ q[2].type = "note"
             /\ Tail(q) # <<>> /\ Len(Tail(q)) = 1 /\ Tail(q)[1] = q[2]
    <2> DEFINE t == Tail(q)
               m == q[2]
    <2>1. /\ t # <<>> /\ t[1] = m /\ t[Len(t)] = m /\ q[Len(q)] = m /\ m.type = "note"
          /\ Len(t) = 1
      BY <1>6
    <2> HIDE DEF t, m
    <2>2. SettledDelegation(t)' = delegation' /\ SettledVerification(t)' = verification'
      BY <2>1 DEF SettledDelegation, SettledVerification
    <2>3. SettledNote(q) = [note EXCEPT ![m.kind][m.id] = m.status]
      BY <2>1 DEF SettledNote
    <2>4. SettledNote(t)' = [note' EXCEPT ![m.kind][m.id] = m.status]
      BY <2>1 DEF SettledNote
    <2>5. note' = note
      BY <1>4, <1>6
    <2>6. Short(t)
      BY <2>1 DEF Short
    <2> QED
      BY <1>3, <2>2, <2>3, <2>4, <2>5, <2>6 DEF t
  <1> QED
    BY <1>1, <1>5, <1>6 DEF e

LEMMA TellsAfter ==
    ASSUME NEW c, NEW p, NEW q, proc'[c] = p, queue'[c] = q, Tells(p, q)'
    PROVE  Tells(proc[c], queue[c])'
  BY DEF Tells, Covered, Short, SettledDelegation, SettledVerification, SettledNote

LEMMA MailStep ==
    ASSUME TInv, MailInv, NEW c, Procs = {c}, [Next]_vars
    PROVE  MailInv'
  <1>0. TypeOK /\ c \in Procs /\ deaths \in Nat
    BY MaxAssumption DEF TInv, TypeOK
  <1> SUFFICES ASSUME deaths' = 0 PROVE Tells(proc[c], queue[c])'
    BY DEF MailInv
  <1>1. PICK old \in Process, q \in Seq(Entries) : old = proc[c] /\ q = queue[c]
    BY <1>0 DEF TypeOK
  <1>2. deaths = 0 => Tells(old, q)
    BY <1>0, <1>1 DEF MailInv
  <1>3. ASSUME UNCHANGED lane, NEW p, NEW r, proc'[c] = p, queue'[c] = r, Tells(p, r)
        PROVE  Tells(proc[c], queue[c])'
    <2>1. delegation' = delegation /\ verification' = verification /\ note' = note
      BY <1>3 DEF lane
    <2>2. /\ SettledDelegation(r)' = SettledDelegation(r)
          /\ SettledVerification(r)' = SettledVerification(r)
          /\ SettledNote(r)' = SettledNote(r)
      BY <2>1 DEF SettledDelegation, SettledVerification, SettledNote
    <2>3. Tells(p, r)'
      BY <1>3, <2>2 DEF Tells, Covered, Short
    <2> QED
      BY <1>3, <2>3, TellsAfter
  <1>4. CASE UNCHANGED vars
    <2>1. UNCHANGED lane /\ proc'[c] = old /\ queue'[c] = q /\ deaths = 0
      BY <1>1, <1>4 DEF vars
    <2> QED
      BY <1>2, <1>3, <2>1
  <1>5. ASSUME NEW d \in Procs, Die(d) PROVE FALSE
    BY <1>0, <1>5 DEF Die
  <1>6. ASSUME NEW d \in Procs, NEW p \in Process, NEW entries \in Seq(Entries),
               Sane(p, entries), Moves(d, p, entries), Kind(d, p, entries)
        PROVE  Tells(proc[c], queue[c])'
    <2>1. d = c
      OBVIOUS
    <2>2. /\ UNCHANGED lane /\ proc'[c] = p /\ queue'[c] = entries
          /\ deaths = 0 /\ q = <<>>
      BY <1>0, <1>1, <1>6, <2>1 DEF Moves, TypeOK
    <2>3. Tells(proc[d], <<>>)
      BY <1>1, <1>2, <2>1, <2>2
    <2>4. Tells(p, entries)
      BY <1>6, <2>3, MovesTell
    <2> QED
      BY <1>3, <2>2, <2>4
  <1>7. ASSUME NEW d \in Procs, AppendEntry(d) PROVE Tells(proc[c], queue[c])'
    <2>1. AppendEntry(c)
      BY <1>7
    <2>2. /\ q # <<>> /\ Replay(q[1]) /\ deaths = 0
          /\ proc'[c] = old /\ queue'[c] = Tail(q)
      <3>1. Head(queue[c]) = q[1] /\ queue[c] # <<>>
        BY <1>1, <2>1 DEF AppendEntry
      <3> QED
        BY <1>0, <1>1, <2>1, <3>1 DEF AppendEntry, TypeOK
    <2>3. /\ Short(Tail(q))
          /\ SettledDelegation(Tail(q))' = SettledDelegation(q)
          /\ SettledVerification(Tail(q))' = SettledVerification(q)
          /\ SettledNote(Tail(q))' = SettledNote(q)
      BY <1>2, <2>2, AppendSettles DEF Tells
    <2>4. PICK t : t = Tail(q)
      OBVIOUS
    <2>5. Tells(old, t)'
      <3>1. \A x \in Delegations :
              Covered(old, x, SettledDelegation(q)[x], SettledVerification(q)[x], SettledNote(q))
        BY <1>2, <2>2 DEF Tells
      <3>2. \A x \in Delegations :
              Covered(old, x, SettledDelegation(t)'[x], SettledVerification(t)'[x],
                      SettledNote(t)')
        BY <2>3, <2>4, <3>1
      <3>3. Short(t)
        BY <2>3, <2>4
      <3> QED
        BY <3>2, <3>3 DEF Tells
    <2> QED
      BY <2>2, <2>4, <2>5, TellsAfter
  <1> QED
    BY <1>4, <1>5, <1>6, <1>7, StepKinds

(* With jobs one after another and none that died, nobody waits unnoticed   *)
(* and nobody is announced who does not wait: between jobs exactly the      *)
(* queued delegations and the pending verifications have a pending          *)
(* notification, and no completed delegation misses the verification it     *)
(* asked for (NotificationPlane and the queue functions of task-board.ts).  *)
THEOREM MailboxesTell ==
    ASSUME NEW c, Procs = {c}
    PROVE  Spec => []MailboxesCovered
  <1>1. Init => TInv /\ MailInv
    <2>1. Init => TInv
      BY TypeStep
    <2>2. ASSUME Init PROVE MailInv
      <3>1. Short(<<>>)
        BY DEF Short
      <3> QED
        BY <2>2, <3>1 DEF Init, MailInv, Tells, Covered, Kinds, SettledDelegation,
                          SettledVerification, SettledNote
    <2> QED
      BY <2>1, <2>2
  <1>2. TInv /\ MailInv /\ [Next]_vars => (TInv /\ MailInv)'
    BY TypeStep, MailStep
  <1>3. TInv /\ MailInv => MailboxesCovered
    <2> SUFFICES ASSUME TInv, MailInv, deaths = 0, \A x \in Procs : proc[x] = Idle,
                        NEW d \in Delegations
                 PROVE  /\ note["worker"][d] = "pending" <=> delegation[d] = "queued"
                        /\ note["verifier"][d] = "pending" <=> verification[d] = "pending"
                        /\ d \in Verified /\ delegation[d] = "completed"
                              => verification[d] # "absent"
      BY DEF MailboxesCovered
    <2>1. c \in Procs /\ queue[c] = <<>> /\ Tells(Idle, <<>>)
      BY DEF TInv, Sane, MailInv
    <2> QED
      BY <2>1, IdleProcess, ToldNow
  <1> QED
    BY <1>1, <1>2, <1>3, PTL DEF Spec
=============================================================================
