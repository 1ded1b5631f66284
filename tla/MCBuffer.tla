------------------------------- MODULE MCBuffer -------------------------------
(* A small instance of Buffer for TLC. *)
EXTENDS Buffer

MCNAllocs == {0, 2}
MCLens == 0..3
==============================================================================
