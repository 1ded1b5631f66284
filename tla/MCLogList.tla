------------------------------- MODULE MCLogList -------------------------------
(* A small instance of LogList. *)
EXTENDS LogList, TLC

Symmetry == Permutations(Threads) \cup Permutations(Items) \cup Permutations(Logs)
================================================================================
