-------------------------- MODULE MCImplementation --------------------------
(* The instance of Implementation for TLC.                                   *)
EXTENDS Implementation
=============================================================================
