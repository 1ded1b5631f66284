-------------------------------- MODULE Command --------------------------------
(***************************************************************************)
(* The command runner of src/cmd.c: an attribute with three temporary files, *)
(* the runs of a program that it is used for one after the other, the child   *)
(* process that writes to two of the files, and the application that reads    *)
(* its output with kahanaIOReadFile.  A byte is the number of the run whose    *)
(* child wrote it, so that a content tells whose output it is.                *)
(*                                                                         *)
(* The child has duplicates of the parent's descriptors: file offsets are     *)
(* shared.  Nothing ever truncates the files.                                *)
(***************************************************************************)
EXTENDS Naturals, Sequences

CONSTANTS Chunk,      \* HUGE_STRING_LEN, the room for the error output
          Nul, Stray,
          MaxRuns,    \* bound: the runs of an attribute
          MaxOutput   \* bound: the bytes a run writes to each file

VARIABLES
  phase,   \* *newattr: "none", "live", "dangling" or "gone"
  temps,   \* the temporary files and the pipes that are open, and the pool of each
  ends,    \* the child's ends in the procattr: "fresh", or "used" by a run
  step,    \* where kahanaCmdRunProcess is
  child,   \* "none", "wired" to the files, "deaf" to them, "exited"
  run,     \* the number of the run
  body,    \* the contents of out and err
  at,      \* the offset of out
  errat,   \* the offset of err
  own,     \* history: how much the run has written to each
  errcode, \* attr->errcode: "zero", "exit" (of the child), "sys" (of the library)
  errstr,  \* attr->errstr, <<>> for NULL and for ""; <<Stray>> for a message of
           \* STRERROR_APR, whose buffer is gone when the run returns
  old,     \* history: attr->errstr when the run began
  left,    \* chunk_size
  rd, room, text, out   \* kahanaIOReadFile's, of the output

runVars == <<phase, temps, ends, run, body, own, old>>
readVars == <<rd, room, text, out>>
cmdVars == <<runVars, step, child, at, errat, errcode, errstr, left, readVars>>

Outputs == {"out", "err"}

F == INSTANCE FileRead WITH file <- body["out"]

CmdInit ==
  /\ phase = "none" /\ temps = {} /\ ends = "fresh" /\ step = "idle"
  /\ child = "none" /\ run = 0 /\ body = [f \in Outputs |-> <<>>]
  /\ at = 0 /\ errat = 0 /\ own = [f \in Outputs |-> 0]
  /\ errcode = "zero" /\ errstr = <<>> /\ old = <<>> /\ left = 0
  /\ F!ReadInit

-----------------------------------------------------------------------------
(* The steps of kahanaCmdNewAttr that may fail. *)
AttrSteps == <<"apr_temp_dir_get", "in", "out", "err", "apr_procattr_create",
               "io_set", "child_in_set", "child_out_set", "child_err_set",
               "errfn_set", "cmdtype_set", "detach_set", "addrspace_set">>

(* What a step opens: apr_file_mktemp() a file and apr_procattr_io_set() the   *)
(* pipes to the child.                                                       *)
Opening == {"in", "out", "err", "io_set"}

(* Mutant of PoolOf: the file of the errors belongs to the caller's pool. *)
MutPoolOf(name) == IF name = "err" THEN "p" ELSE "sp"

(* The pool each is opened in: that of the attribute, which the procattr has  *)
(* too.                                                                      *)
PoolOf(name) == "sp"

(* What is open after the first n steps. *)
OpenedBy(n) == {[name |-> AttrSteps[k], pool |-> PoolOf(AttrSteps[k])] :
                  k \in {j \in 1..n : AttrSteps[j] \in Opening}}

(* apr_pool_destroy() closes what is open in the pool, and mktemp's files are *)
(* deleted with that.                                                        *)
PoolDestroyed(files, pool) == {f \in files : f.pool # pool}

(* *newattr is assigned before the first step: after a failure it names      *)
(* memory of a pool that is gone.                                            *)
NewAttr ==
  /\ phase = "none"
  /\ \/ phase' = "live" /\ temps' = OpenedBy(Len(AttrSteps))
     \/ \E n \in DOMAIN AttrSteps :
          phase' = "dangling" /\ temps' = PoolDestroyed(OpenedBy(n - 1), "sp")
     \/ phase' = "gone" /\ UNCHANGED temps   \* kahanaMalloc fails
  /\ UNCHANGED <<ends, run, body, own, old, step, child, at, errat, errcode, errstr, left, readVars>>

(* kahanaCmdDestroykAttr, as the source calls it, closes the files and        *)
(* destroys the pool.                                                        *)
DestroyAttr ==
  /\ phase = "live" /\ step \in {"idle", "returned"}
  /\ phase' = "gone"
  /\ temps' = PoolDestroyed({f \in temps : f.name \notin {"in", "out", "err"}}, "sp")
  /\ UNCHANGED <<ends, run, body, own, old, step, child, at, errat, errcode, errstr, left, readVars>>

-----------------------------------------------------------------------------
(* The run ends early, with a message of the library. *)
Fail == step' = "returned" /\ errcode' = "sys" /\ errstr' = <<Stray>>

(* Mutant of Start: the offset is left as it is. *)
MutStart(offset) == offset

(* apr_file_seek( , APR_SET, ) to 0 *)
Start(offset) == 0

(* kahanaCmdRunProcess begins: all files are set to their start.             *)
RunProcess ==
  /\ phase = "live" /\ step \in {"idle", "returned"} /\ run < MaxRuns
  /\ rd \in {"idle", "done", "failed"}
  /\ run' = run + 1 /\ own' = [f \in Outputs |-> 0] /\ old' = errstr
  /\ rd' = "idle" /\ text' = <<>> /\ out' = <<>>
  /\ \/ at' = Start(at) /\ errat' = Start(errat) /\ step' = "spawn" /\ UNCHANGED <<errcode, errstr>>
     \/ Fail /\ at' \in {at, Start(at)} /\ UNCHANGED errat
  /\ UNCHANGED <<phase, temps, ends, body, child, left, room>>

(* apr_procattr_dir_set() and apr_proc_create(), which closes the parent's    *)
(* copies of the child's ends: what a second child inherits in their place    *)
(* is APR's affair.                                                          *)
Spawn ==
  /\ step = "spawn"
  /\ \/ /\ child' \in (IF ends = "fresh" THEN {"wired"} ELSE {"wired", "deaf"})
        /\ ends' = "used" /\ step' = "wait"
        /\ errcode' = "zero" /\ UNCHANGED errstr
     \/ Fail /\ UNCHANGED <<child, ends>>
  /\ UNCHANGED <<phase, temps, run, body, own, old, at, errat, left, readVars>>

(* s with b written at offset i *)
Put(s, i, b) == IF i < Len(s) THEN [s EXCEPT ![i + 1] = b] ELSE Append(s, b)

(* The child writes where the shared offset is. *)
ChildWrites ==
  /\ child = "wired"
  /\ \/ /\ own["out"] < MaxOutput
        /\ body' = [body EXCEPT !["out"] = Put(@, at, run)]
        /\ own' = [own EXCEPT !["out"] = @ + 1]
        /\ at' = at + 1 /\ UNCHANGED errat
     \/ /\ own["err"] < MaxOutput
        /\ body' = [body EXCEPT !["err"] = Put(@, errat, run)]
        /\ own' = [own EXCEPT !["err"] = @ + 1]
        /\ errat' = errat + 1 /\ UNCHANGED at
  /\ UNCHANGED <<phase, temps, ends, run, old, step, child, errcode, errstr, left, readVars>>

ChildExits ==
  /\ child \in {"wired", "deaf"}
  /\ child' = "exited"
  /\ UNCHANGED <<runVars, step, at, errat, errcode, errstr, left, readVars>>

(* apr_proc_wait() and the second seek.  An exit code of 0 ends the run, and *)
(* so does a wait that fails, since it leaves errcode as it was.             *)
Wait ==
  /\ step = "wait" /\ child = "exited"
  /\ child' = "none"
  /\ \/ /\ at' = Start(at) /\ errat' = Start(errat)
        /\ \/ errcode' = "zero" /\ step' = "returned" /\ UNCHANGED left
           \/ errcode' = "exit" /\ step' = "error" /\ left' = Chunk
        /\ UNCHANGED errstr
     \/ Fail /\ at' \in {at, Start(at)} /\ UNCHANGED <<errat, left>>
  /\ UNCHANGED <<runVars, readVars>>

(* Mutant of LeftAtEnd: the size is set again before each read. *)
MutLeftAtEnd == Chunk

(* chunk_size after a read that returned APR_EOF or an error: nothing sets    *)
(* it again, and the next read, of no bytes, succeeds.                       *)
LeftAtEnd == 0

(* The loop goes on while apr_file_read() does NOT succeed.  A chunk that is  *)
(* full has no NUL, and the copy goes on behind it.                          *)
ReadError ==
  /\ step = "error"
  /\ \/ /\ left > 0
        /\ left' = LeftAtEnd
        /\ UNCHANGED <<step, errat, errstr>>
     \/ /\ left = 0 \/ errat < Len(body["err"])
        /\ LET n == F!Least(left, Len(body["err"]) - errat)
           IN /\ errat' = errat + n
              /\ \E behind \in (IF n = Chunk THEN {<<>>, <<Stray>>} ELSE {<<>>}) :
                   errstr' = errstr \o SubSeq(body["err"], errat + 1, errat + n) \o behind
        /\ step' = "returned" /\ UNCHANGED left
  /\ UNCHANGED <<runVars, child, at, errcode, readVars>>

(* The application reads the output, which is at its start. *)
ReadOutput ==
  /\ phase = "live" /\ step = "returned"
  /\ F!Read
  /\ UNCHANGED <<runVars, step, child, errat, errcode, errstr, left>>

CmdStep == Spawn \/ Wait \/ ReadError

CmdNext ==
  \/ NewAttr \/ DestroyAttr \/ RunProcess \/ CmdStep \/ ReadOutput
  \/ ChildWrites \/ ChildExits

-----------------------------------------------------------------------------
CmdTypeOK ==
  /\ phase \in {"none", "live", "dangling", "gone"} /\ ends \in {"fresh", "used"}
  /\ temps \subseteq [name : Opening, pool : {"sp", "p"}] /\ run \in 0..MaxRuns
  /\ step \in {"idle", "spawn", "wait", "error", "returned"}
  /\ child \in {"none", "wired", "deaf", "exited"}
  /\ \A f \in Outputs : Len(body[f]) <= MaxOutput /\ own[f] \in 0..MaxOutput
  /\ at \in 0..MaxOutput /\ errat \in 0..MaxOutput
  /\ errcode \in {"zero", "exit", "sys"} /\ left \in {0, Chunk} /\ room \in 0..Chunk

(* What the application reads of a run is what its child wrote, followed at   *)
(* most by the end of what an earlier run had written there; attr->errstr is  *)
(* the beginning of the error output, behind what it was before the run, and *)
(* stays what it was when the program succeeds.                              *)
OutputOfRun ==
  phase = "live" /\ step = "returned" /\ errcode # "sys" =>
    /\ \A f \in Outputs : /\ own[f] <= Len(body[f])
                         /\ \A i \in DOMAIN body[f] : i <= own[f] <=> body[f][i] = run
    /\ rd = "done" /\ body["out"] # <<>> => out = body["out"]
    /\ errcode = "zero" => errstr = old
    /\ errcode = "exit" /\ left # 0 =>
         LET first == SubSeq(body["err"], 1, F!Least(Chunk, Len(body["err"])))
         IN errstr = old \o first \/ (Len(first) = Chunk /\ errstr = old \o first \o <<Stray>>)
================================================================================
