-------------------------- MODULE MCManagerRequests --------------------------
EXTENDS ManagerRequests, TLC

CONSTANTS r1, r2, m1, m2

\* Requests are alike, and so are mutations
MC_Symmetry == Permutations(Requests) \cup Permutations(Mutations)
=============================================================================
