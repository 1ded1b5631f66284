----------------------------- MODULE MCSockServer -----------------------------
(* Small instances of SockServer for TLC. *)
EXTENDS SockServer, TLC

AllFaults == {"event_add", "accept", "fcntl", "eagain", "push"}
NoFaults == {}
AllInputs == {"data", "fin", "reset"}
DataOnly == {"data"}

(* Workers are interchangeable, and so are connections. *)
Symmetry == Permutations(Workers) \cup Permutations(Conns)
==============================================================================
