------------------------- MODULE MCRequestWorkflow -------------------------
EXTENDS RequestWorkflow, TLC

CONSTANTS e1, e2, e3, k1, k2, blank, c1, c2, bad

\* New-Request editors are alike, and so are keys
MC_Symmetry == Permutations(Keys) \cup Permutations(Editors \ Repeats)
=============================================================================
