------------------------------ MODULE MCCurlWrap ------------------------------
(* A small instance of CurlWrap. *)
EXTENDS CurlWrap, TLC

MCLens == {1, 2}
Symmetry == Permutations(Texts) \cup Permutations(Bufs)
================================================================================
