----------------------------- MODULE MCPqMonitor -----------------------------
(***************************************************************************)
(* The queue with two levels; callers also pass levels that do not exist.  *)
(***************************************************************************)
EXTENDS PqMonitor

MCPrio == -1 .. 2
=============================================================================
