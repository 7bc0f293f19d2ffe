---------------------------- MODULE MCScreenSync ----------------------------
\* ScreenSync on small screens.
EXTENDS ScreenSync, TLC

CONSTANTS x, y

TextSymmetry == Permutations({x, y})
=============================================================================
