--------------------------- MODULE MCGraphExecutor ---------------------------
(* Two node ids, one of which prepare() sets back, and two Graphs: enough for *)
(* an in-place edit, a rebuild with other instances under the same ids, and   *)
(* three schedules alive at once (installed, rendering, retired).             *)
EXTENDS GraphExecutor

MCNodeIds == {"gain", "delay"}
MCResets == {"delay"}
=============================================================================
