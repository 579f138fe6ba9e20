----------------------------- MODULE MCCasePush -----------------------------
EXTENDS CasePush, TLC

\* High Cases, passes and record ids each play the same part.
Symmetry == Permutations(High) \cup Permutations(Passes) \cup Permutations(SfIds)
=============================================================================
