----------------------------- MODULE MCTermHost -----------------------------
(* TermHost for TLC: interchangeable connections for the safety run.       *)
EXTENDS TermHost, TLC

CONSTANTS c1, c2

ConnSymmetry == Permutations(Conns)
=============================================================================
