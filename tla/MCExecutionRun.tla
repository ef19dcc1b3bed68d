--------------------------- MODULE MCExecutionRun ---------------------------
EXTENDS ExecutionRun, TLC

CONSTANTS a1, a2, a3, m1, m2

\* A chain, the second assignment gated by the operator.
MCDependsOn == a1 :> {} @@ a2 :> {a1}
MCAllowed == a1 :> {m1, m2} @@ a2 :> {}

\* The chain of the planner's crew: researcher, script planner, shot planner.
CrewDependsOn == a1 :> {} @@ a2 :> {a1} @@ a3 :> {a2}
CrewAllowed == a1 :> {} @@ a2 :> {} @@ a3 :> {}

Open == [pause |-> FALSE, roles |-> {}, adapters |-> {}]
MCPolicies == {Open, [pause |-> TRUE, roles |-> {a2}, adapters |-> {m2}]}

CrewPolicies == {Open, [Open EXCEPT !.roles = {a1}]}

WorkerSymmetry == Permutations(Workers)
=============================================================================
