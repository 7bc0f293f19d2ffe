----------------------------- MODULE MCWorkspace -----------------------------
(* Workspace for TLC, with a view that leaves out what no step and no       *)
(* property depends on.                                                     *)
EXTENDS Workspace, TLC

\* Generations rise within a process, so that an update which is not the present
\* one never becomes it again: WatchTruth speaks of the present one only.
SeenNow ==
  [b \in Browsers |-> seen[b] = [generation |-> generation, from |-> epoch]]

View == <<serverVars, token, pageVars, reply, buried, SeenNow>>
=============================================================================
