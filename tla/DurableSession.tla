--------------------------- MODULE DurableSession ---------------------------
(***************************************************************************)
(* What a session promises its owner: one durable value, which is the last *)
(* one written or the saved one last gone back to.  Writing and going back *)
(* are dated and never forgotten; saving, archiving, crashing and          *)
(* recovering leave the value alone.                                       *)
(***************************************************************************)
EXTENDS Integers

CONSTANTS Moments, Ids

VARIABLES
    status,
    writes,     \* the moments of the writes; a value is known by its moment
    returns,    \* <<moment, id>> of every time the owner went back to a saved value
    value,      \* what the session holds, 0 at first
    saved       \* the values saved, each under an id of its own

vars == <<status, writes, returns, value, saved>>

Init == status = "absent" /\ writes = {} /\ returns = {} /\ value = 0 /\ saved = {}

\* A moment after everything done so far, and an id not given away yet.
Later(n) == (\A m \in writes : m < n) /\ (\A r \in returns : r[1] < n)
Fresh(id) == \A s \in saved : s.id # id

Create == /\ status = "absent"
          /\ status' = "active"
          /\ UNCHANGED <<writes, returns, value, saved>>

Write(n) == /\ status = "active"
            /\ Later(n)
            /\ writes' = writes \cup {n}
            /\ value' = n
            /\ UNCHANGED <<status, returns, saved>>

Save(id) == /\ status = "active"
            /\ Fresh(id)
            /\ saved' = saved \cup {[id |-> id, state |-> value]}
            /\ UNCHANGED <<status, writes, returns, value>>

\* Going back saves what it went back to again, as the newest.
GoBack(n, s, id) == /\ status = "active"
                    /\ Later(n) /\ Fresh(id)
                    /\ returns' = returns \cup {<<n, s.id>>}
                    /\ value' = s.state
                    /\ saved' = saved \cup {[id |-> id, state |-> s.state]}
                    /\ UNCHANGED <<status, writes>>

Archive == /\ status = "active"
           /\ status' = "archived"
           /\ UNCHANGED <<writes, returns, value, saved>>

Delete == /\ status # "absent"
          /\ status' = "absent"
          /\ writes' = {} /\ returns' = {}
          /\ value' = 0
          /\ saved' = {}

Next == \/ Create \/ Archive \/ Delete
        \/ \E n \in Moments : Write(n)
        \/ \E id \in Ids : Save(id)
        \/ \E n \in Moments, s \in saved, id \in Ids : GoBack(n, s, id)

Spec == Init /\ [][Next]_vars
=============================================================================
