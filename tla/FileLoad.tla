------------------------------- MODULE FileLoad -------------------------------
(***************************************************************************)
(* kahanaIOLoadFile of src/io.c: stat(), open, read to the end, close, while  *)
(* other processes append to the file, cut it, remove it or put another in    *)
(* its place between any two of these.  A path names one of two files.       *)
(*                                                                         *)
(* The cache of io.c never answers: _kahanaIOInit sets iocache->store to      *)
(* FALSE and nothing sets it again, so that CacheFile returns NULL and       *)
(* AddCache APR_SUCCESS without doing anything.                              *)
(***************************************************************************)
EXTENDS Naturals, Sequences, SequencesExt

CONSTANTS Chunk,    \* HUGE_STRING_LEN
          Letters,  \* the bytes of files that are not '\0'
          Nul, Stray,
          MaxFile   \* bound: the largest file

VARIABLES
  files,   \* the contents of the two files
  named,   \* the one the path names, 0 for none
  opened,  \* the one that is open, 0 for none
  step,    \* "idle", "stat", "read", "returned"
  stated,  \* the file as stat() found it, of which st_size is used
  since,   \* history: what has happened to it since: "grown", "cut", "moved"
  size,    \* *size
  data,    \* *data, <<Stray>> while it is not assigned
  rc,      \* "ok" or "err"
  at, rd, room, text, out   \* kahanaIOReadFile's

callVars == <<opened, step, stated, size, data, rc>>
loadVars == <<files, named, since, callVars, at, rd, room, text, out>>

Opened == IF opened = 0 THEN <<>> ELSE files[opened]

F == INSTANCE FileRead WITH file <- Opened

Contents == UNION {[1..k -> Letters \cup {Nul}] : k \in 0..MaxFile}

LoadInit ==
  /\ files \in {<<content, <<>>>> : content \in Contents} /\ named \in 0..1
  /\ opened = 0 /\ step = "idle" /\ stated = <<>> /\ since = {}
  /\ size = 0 /\ data = <<Stray>> /\ rc = "ok" /\ at = 0
  /\ F!ReadInit

-----------------------------------------------------------------------------
(* Other processes. *)

(* What happens to the file that has the name is remembered. *)
Noted(f, what) == since' = IF step = "idle" \/ f # named THEN since ELSE since \cup {what}

Write(f) ==
  /\ \/ /\ Len(files[f]) < MaxFile
        /\ \E b \in Letters : files' = [files EXCEPT ![f] = Append(@, b)]
        /\ Noted(f, "grown")
     \/ /\ files[f] # <<>>
        /\ files' = [files EXCEPT ![f] = <<>>]
        /\ Noted(f, "cut")
  /\ UNCHANGED named

Rename(f) ==
  /\ named # f
  /\ named' = f
  /\ since' = IF step = "idle" THEN since ELSE since \cup {"moved"}
  /\ UNCHANGED files

Others ==
  /\ step # "returned"
  /\ (\E f \in 1..2 : Write(f)) \/ (\E f \in 0..2 : Rename(f))
  /\ UNCHANGED <<callVars, at, rd, room, text, out>>

-----------------------------------------------------------------------------
(* The call returns without success: *size stays 0, *data is not assigned.   *)
Refuse == step' = "returned" /\ rc' = "err" /\ UNCHANGED <<size, data>>

Stat ==
  /\ step = "idle"
  /\ \/ named # 0 /\ step' = "stat" /\ stated' = files[named] /\ UNCHANGED <<size, data, rc>>
     \/ named = 0 /\ Refuse /\ UNCHANGED stated
  /\ UNCHANGED <<opened, at, rd, room, text, out, files, named, since>>

Open ==
  /\ step = "stat"
  /\ \/ named # 0 /\ opened' = named /\ step' = "read" /\ UNCHANGED <<size, data, rc>>
     \/ Refuse /\ UNCHANGED opened
  /\ UNCHANGED <<stated, at, rd, room, text, out, files, named, since>>

ReadFile ==
  /\ step = "read"
  /\ F!Read
  /\ UNCHANGED <<callVars, files, named, since>>

(* apr_file_close(), whatever the read has returned; *size is st_size. *)
Finish ==
  /\ step = "read" /\ rd \in {"done", "failed"}
  /\ opened' = 0
  /\ \/ rd = "done" /\ step' = "returned" /\ rc' = "ok" /\ size' = Len(stated) /\ data' = out
     \/ rd = "failed" /\ Refuse
  /\ UNCHANGED <<stated, at, rd, room, text, out, files, named, since>>

LoadFile == Stat \/ Open \/ ReadFile \/ Finish

-----------------------------------------------------------------------------
LoadTypeOK ==
  /\ files \in [1..2 -> Contents] /\ named \in 0..2 /\ opened \in 0..2
  /\ step \in {"idle", "stat", "read", "returned"} /\ rc \in {"ok", "err"}
  /\ stated \in Contents /\ since \subseteq {"grown", "cut", "moved"}
  /\ size \in 0..MaxFile /\ Len(data) <= 2 * MaxFile + 1
  /\ at \in 0..MaxFile /\ room \in 0..Chunk /\ Len(text) <= 2 * MaxFile

(* If all that happened to the file since stat() is that it grew, then the    *)
(* first `size' bytes of the data are the file as stat() found it, up to its *)
(* first NUL; and if nothing happened, the data has no others.               *)
SizeDescribesData ==
  step = "returned" /\ rc = "ok" /\ since \subseteq {"grown"} =>
    /\ IsPrefix(F!CString(stated), data)
    /\ Nul \notin Range(stated) => size <= Len(data)
    /\ since = {} /\ stated # <<>> => data = F!CString(stated)
=============================================================================
