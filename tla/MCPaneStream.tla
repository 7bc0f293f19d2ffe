---------------------------- MODULE MCPaneStream ----------------------------
(* Small instances of PaneStream.                                          *)
EXTENDS PaneStream, TLC

CONSTANTS p, q

PaneAsks == ({p} \X {"start", "shutdown"}) \union {<<q, "input">>}
OneAsks == {p} \X Ops
=============================================================================
