--------------------------- MODULE ReviewedLists ---------------------------
(***************************************************************************)
(* What the proposal lane promises whoever reviews it: a proposal is       *)
(* decided once and forward only, its list is written only after it was    *)
(* accepted, and it is called applied only after that.                     *)
(***************************************************************************)
CONSTANTS Proposals, NoTodos, Edited

VARIABLES status, todos, accepted, written

vars == <<status, todos, accepted, written>>

Init ==
    /\ status = [p \in Proposals |-> "none"]
    /\ todos = NoTodos
    /\ accepted = {}
    /\ written = {}

Moves(p, from, to) == status[p] \in from /\ status' = [status EXCEPT ![p] = to]

Propose(p) == Moves(p, {"none"}, "pending") /\ UNCHANGED <<todos, accepted, written>>

Accept(p) ==
    /\ Moves(p, {"pending"}, "accepted")
    /\ accepted' = accepted \cup {p}
    /\ UNCHANGED <<todos, written>>

Reject(p) == Moves(p, {"pending"}, "rejected") /\ UNCHANGED <<todos, accepted, written>>

Expire(p) ==
    Moves(p, {"pending", "accepted"}, "expired") /\ UNCHANGED <<todos, accepted, written>>

Write(p) ==
    /\ p \in accepted
    /\ todos' = p
    /\ written' = written \cup {p}
    /\ UNCHANGED <<status, accepted>>

MarkApplied(p) ==
    /\ p \in written
    /\ Moves(p, {"accepted"}, "applied")
    /\ UNCHANGED <<todos, accepted, written>>

Edit == todos' = Edited /\ UNCHANGED <<status, accepted, written>>

Next ==
    \/ \E p \in Proposals : Propose(p) \/ Accept(p) \/ Reject(p) \/ Expire(p)
                              \/ Write(p) \/ MarkApplied(p)
    \/ Edit

Spec == Init /\ [][Next]_vars
=============================================================================
