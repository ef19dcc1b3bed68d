--------------------------- MODULE MCSessionStore ---------------------------
(* Instances of SessionStore, with its history, for TLC.                    *)
EXTENDS SessionHistory, TLC

\* The processes are interchangeable.
ClientSymmetry == Permutations(Clients)
=============================================================================
