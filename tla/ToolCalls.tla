------------------------------ MODULE ToolCalls ------------------------------
(***************************************************************************)
(* The tool calls the coordinator runs at the same time: one process for   *)
(* each asynchronous handler the event loop may have suspended at an await. *)
(***************************************************************************)
CONSTANT Procs
=============================================================================
