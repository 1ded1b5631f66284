------------------------------ MODULE TextBuffer ------------------------------
(***************************************************************************)
(* What a kBuffer_t promises to its user, without its block, its slack and   *)
(* its sizes: a text of some length that is a C string, or is not one for     *)
(* the time being, or is lost.  Buffer, the model of src/buffer.c,            *)
(* implements this specification (its shifts have padding 1).                *)
(***************************************************************************)
EXTENDS Naturals

CONSTANT MaxLen   \* bound: the longest text a caller builds

VARIABLES
  state,   \* "none"; "string", terminated inside its block; "raw", after a
           \* compaction or without a block; "lost", realloc() has failed;
           \* "overrun", something was written elsewhere; "gone"
  len,     \* the length of the text
  answer   \* what the last call returned: "ok" or "err"

vars == <<state, len, answer>>

Init == state = "none" /\ len = 0 /\ answer = "ok"

(* A buffer without any room yet is no string. *)
Create ==
  /\ state = "none"
  /\ \/ state' \in {"string", "raw"} /\ answer' = "ok"
     \/ state' = "gone" /\ answer' = "err"
  /\ UNCHANGED len

(* A call that leaves a text of n characters: from a string it makes a       *)
(* string, and only one that is not a string may be overrun.                 *)
Edited(n) == state \in {"string", "raw"} /\ state' = "string" /\ len' = n /\ answer' = "ok"

EditedRaw(n) == state = "raw" /\ state' \in {"raw", "overrun"} /\ len' = n /\ answer' = "ok"

(* The call has no room: whatever text there was is lost, and the caller is  *)
(* told so.                                                                  *)
Failed(n) == state \in {"string", "raw"} /\ state' = "lost" /\ len' = n /\ answer' = "err"

(* Calls on a text that is lost, which never is a text again. *)
EditedLost(n) == state = "lost" /\ state' \in {"lost", "overrun"} /\ len' = n

(* A compaction may take the NUL away, and says nothing of a failure. *)
Compact ==
  /\ \/ state \in {"string", "raw"} /\ state' \in {"string", "raw"}
     \/ state = "lost" /\ state' = "lost"
     \/ state \in {"string", "raw"} /\ state' = "lost" /\ answer' = "ok"
  /\ answer' \in {"ok", "err"}
  /\ UNCHANGED len

Destroy == state \in {"string", "raw", "lost"} /\ state' = "gone" /\ UNCHANGED <<len, answer>>

Next ==
  \/ Create
  \/ \E n \in 0..MaxLen : Edited(n) \/ EditedRaw(n) \/ Failed(n) \/ EditedLost(n)
  \/ Compact
  \/ Destroy

Spec == Init /\ [][Next]_vars
===============================================================================
