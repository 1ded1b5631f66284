----------------------------- MODULE MCSockSetup -----------------------------
(* A small instance of SockSetup for TLC. *)
EXTENDS SockSetup

MCSizes == 1..3
==============================================================================
