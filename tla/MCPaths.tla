------------------------------- MODULE MCPaths -------------------------------
(* A small instance of Paths for TLC. *)
EXTENDS Paths

Spec == PathInit /\ [][PathNext]_pathVars
==============================================================================
