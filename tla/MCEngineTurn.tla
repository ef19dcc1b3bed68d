---------------------------- MODULE MCEngineTurn ----------------------------
(* Instances of EngineTurn for TLC.                                         *)
EXTENDS EngineTurn, TLC

\* Turn ids and todo lists are only compared.
TurnSymmetry == Permutations(Turns) \cup Permutations(Todos)
=============================================================================
