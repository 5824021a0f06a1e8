---------------------------- MODULE MC_MultiGame ----------------------------
EXTENDS MultiGame

\* A run may be worse than no run at all.
MCEfficacy == {-1, 1}

=============================================================================
