-------------------------- MODULE MCSkillSnapshots --------------------------
EXTENDS SkillSnapshots, TLC

CONSTANTS s1, s2, p1, p2, p3

\* Two proposals for one skill and one for another.
MCSkillOf == p1 :> s1 @@ p2 :> s1 @@ p3 :> s2

\* ~Sound is for good, and every property is about states with Sound: the ones
\* behind the first without it are left out.
WhileSound == Sound

\* Processes run the same operations.
ProcSymmetry == Permutations(Procs)
=============================================================================
