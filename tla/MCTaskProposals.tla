-------------------------- MODULE MCTaskProposals --------------------------
EXTENDS TaskProposals, TLC

\* Processes run the same commands and proposals differ only by name.
ProposalSymmetry == Permutations(Procs) \cup Permutations(Proposals)
=============================================================================
