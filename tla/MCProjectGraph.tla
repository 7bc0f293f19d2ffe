--------------------------- MODULE MCProjectGraph ---------------------------
\* ProjectGraph for TLC: the second configuration no longer hides the source
\* file, whose first version then cannot be drawn.
EXTENDS ProjectGraph, TLC

FirstSourceBroken == {<<2, 1>>}
=============================================================================
