------------------------------- MODULE FileRead -------------------------------
(***************************************************************************)
(* kahanaIOReadFile of src/io.c: an open file is read from where its offset  *)
(* is to its end, into a buffer whose string is the result.  The module is   *)
(* instantiated by what opens the file: FileLoad, whose file other processes *)
(* may change meanwhile, and Command, whose file a child process has written.*)
(* Contents are sequences of bytes; kBuffer_t is its text, as TextBuffer is. *)
(***************************************************************************)
EXTENDS Naturals, Sequences

CONSTANTS Chunk,   \* HUGE_STRING_LEN, the room of a read
          Nul,     \* the byte '\0'
          Stray    \* a byte from outside the file

VARIABLES
  file,   \* the contents of the open file, which reading leaves alone
  at,     \* its offset
  rd,     \* "idle", "reading", "done" or "failed"
  room,   \* size, which each read sets to what it has got
  text,   \* the string in the buffer
  out     \* *out

readVars == <<rd, room, text, out>>

ReadInit == rd = "idle" /\ room = 0 /\ text = <<>> /\ out = <<>>

Least(m, n) == IF m <= n THEN m ELSE n

(* The bytes before the first NUL, and all of them without one. *)
CString(s) == LET nuls == {i \in DOMAIN s : s[i] = Nul}
              IN IF nuls = {} THEN s ELSE SubSeq(s, 1, (CHOOSE i \in nuls : \A j \in nuls : i <= j) - 1)

(* What kahanaBufPtr gives apr_pstrdup(): the block of a buffer that nothing  *)
(* was appended to has no bytes at all, and what is read lies behind it.     *)
Strings == IF text = <<>> THEN {<<>>, <<Stray>>} ELSE {CString(text)}

(* kahanaBufCreate, without any room. *)
ReadBegin ==
  /\ rd = "idle"
  /\ \/ rd' = "reading" /\ room' = Chunk
     \/ rd' = "failed" /\ room' = room
  /\ UNCHANGED <<at, text, out>>

(* apr_file_read() gets up to `size' bytes; kahanaBufStrNCat appends them.    *)
ReadMore ==
  /\ rd = "reading" /\ at < Len(file)
  /\ \E n \in 1..Least(room, Len(file) - at) :
        /\ at' = at + n
        /\ room' = n
        /\ \/ text' = text \o SubSeq(file, at + 1, at + n) /\ rd' = rd
           \/ rd' = "failed" /\ text' = text
  /\ UNCHANGED out

(* APR_EOF: the last kahanaBufStrNCat appends nothing, as apr_file_read() has *)
(* set `size' to 0, and the result is a copy of the string.                  *)
ReadEnd ==
  /\ rd = "reading" /\ at >= Len(file)
  /\ rd' = "done" /\ room' = 0
  /\ out' \in Strings
  /\ UNCHANGED <<at, text>>

ReadFails == rd = "reading" /\ rd' = "failed" /\ UNCHANGED <<at, room, text, out>>

Read == ReadBegin \/ ReadMore \/ ReadEnd \/ ReadFails
================================================================================
