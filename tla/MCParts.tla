------------------------------- MODULE MCParts -------------------------------
(* A small instance of Parts for TLC. *)
EXTENDS Parts

CONSTANTS x, y, nul, stray

MCSizes == 1..3
MCCoords == {3, 8, 16}
MCTexts == {<<>>, <<x>>, <<x, y>>, <<y, x, x>>}
MCGivenIVs == {[name |-> "a", size |-> 2], [name |-> "short", size |-> 1]}
==============================================================================
