---------------------------- MODULE MCTermClient ----------------------------
(* A small instance of TermClient.                                         *)
EXTENDS TermClient

CONSTANTS k1, k2
=============================================================================
