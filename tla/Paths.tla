--------------------------------- MODULE Paths ---------------------------------
(***************************************************************************)
(* kahanaIOPathTypeIs, kahanaIOMakeDir and kahanaIOMakeSymlink of src/io.c:   *)
(* each looks at a path with stat() and then makes what was not there, while  *)
(* other processes may make or remove it between the two.                    *)
(***************************************************************************)
EXTENDS Naturals, Sequences

CONSTANTS Names,    \* the paths
          MaxLinks, \* SYMLOOP_MAX, the links that are followed at most
          MaxArgs   \* bound: the paths, or pairs of paths, of a call

VARIABLES
  node,    \* what is at each path: "none", "dir", "reg", or the name a link has
  call,    \* "none", "MakeDir", "MakeSymlink"
  args,    \* its paths, or pairs of source and link
  i,       \* the one it is at
  pstep,   \* "idle", "check", "checksym", "make", "link", "returned"
  prc,     \* rc: "APR_SUCCESS", "APR_NOTFOUND", "APR_ENOENT", "other"
  before,  \* history: node when the call began
  removed, \* history: has another process removed or changed anything since?
  foreign  \* history: if not, where another process has made something since,
           \* that was not a directory

pathVars == <<node, call, args, i, pstep, prc, before, foreign, removed>>

Nodes == {"none", "dir", "reg"} \cup Names

PathInit ==
  /\ node \in [Names -> Nodes]
  /\ call = "none" /\ args = <<>> /\ i = 1 /\ pstep = "idle" /\ prc = "APR_SUCCESS"
  /\ before = node /\ foreign = {} /\ removed = "no"

-----------------------------------------------------------------------------
(* stat() follows links, so that what it finds never is one; the system gives *)
(* up with ELOOP after some.                                                 *)
Followed(nodes) ==
  LET Found[k \in 0..MaxLinks] ==
        [p \in Names |-> IF nodes[p] \notin Names THEN nodes[p]
                         ELSE IF k = 0 THEN "loop" ELSE Found[k - 1][nodes[p]]]
  IN Found

Stat(nodes, p) == Followed(nodes)[MaxLinks][p]

(* Mutant of PathTypeIs: a path of another type is reported as missing. *)
MutPathTypeIs(p, types) ==
  CASE Stat(node, p) \in types -> {"APR_SUCCESS", "other"}
    [] Stat(node, p) = "loop"  -> {"other"}
    [] OTHER                   -> {"APR_ENOENT", "other"}

(* kahanaIOPathTypeIs; the call to stat() may fail for other reasons. *)
PathTypeIs(p, types) ==
  CASE Stat(node, p) = "none"  -> {"APR_ENOENT", "other"}
    [] Stat(node, p) = "loop"  -> {"other"}
    [] Stat(node, p) \in types -> {"APR_SUCCESS", "other"}
    [] OTHER                   -> {"APR_NOTFOUND", "other"}

(* Another process makes or removes something. *)
Interfere ==
  /\ pstep \notin {"idle", "returned"}
  /\ \E p \in Names, n \in Nodes :
        /\ node[p] # n /\ node' = [node EXCEPT ![p] = n]
        /\ removed' = IF node[p] = "none" THEN removed ELSE "yes"
        /\ foreign' = IF removed' = "yes" THEN {} ELSE IF n = "dir" THEN foreign ELSE foreign \cup {p}
  /\ UNCHANGED <<call, args, i, pstep, prc, before>>

Pairs == {<<p, q>> : p, q \in Names}
Lists(S) == UNION {[1..n -> S] : n \in 1..MaxArgs}

Begin ==
  /\ pstep = "idle"
  /\ \/ call' = "MakeDir" /\ args' \in Lists(Names)
     \/ call' = "MakeSymlink" /\ args' \in Lists(Pairs)
  /\ pstep' = "check"
  /\ UNCHANGED <<node, i, prc, before, foreign, removed>>

(* On to the next path, or out of the loop with what rc is by then. *)
Next1 == IF i < Len(args) THEN i' = i + 1 /\ pstep' = "check"
         ELSE i' = i /\ pstep' = "returned"

Break == pstep' = "returned" /\ UNCHANGED i

(* kahanaIOMakeDir goes on after a path that is no directory. *)
CheckDir ==
  /\ pstep = "check" /\ call = "MakeDir"
  /\ prc' \in PathTypeIs(args[i], {"dir"})
  /\ \/ prc' = "other" /\ Break
     \/ prc' \in {"APR_SUCCESS", "APR_NOTFOUND"} /\ Next1
     \/ prc' = "APR_ENOENT" /\ pstep' = "make" /\ UNCHANGED i
  /\ UNCHANGED <<node, call, args, before, foreign, removed>>

(* apr_dir_make_recursive(), for which it is a success if there is anything. *)
MakeDir ==
  /\ pstep = "make"
  /\ \/ /\ prc' = "APR_SUCCESS" /\ Next1
        /\ node' = [node EXCEPT ![args[i]] = IF @ = "none" THEN "dir" ELSE @]
     \/ prc' = "other" /\ Break /\ UNCHANGED node
  /\ UNCHANGED <<call, args, before, foreign, removed>>

(* kahanaIOMakeSymlink passes over a pair whose source is missing. *)
CheckSource ==
  /\ pstep = "check" /\ call = "MakeSymlink"
  /\ prc' \in PathTypeIs(args[i][1], {"reg", "dir", "link"})
  /\ \/ prc' = "other" /\ Break
     \/ prc' = "APR_ENOENT" /\ Next1
     \/ prc' \in {"APR_SUCCESS", "APR_NOTFOUND"} /\ pstep' = "checksym" /\ UNCHANGED i
  /\ UNCHANGED <<node, call, args, before, foreign, removed>>

CheckLink ==
  /\ pstep = "checksym"
  /\ prc' \in PathTypeIs(args[i][2], {"link"})
  /\ \/ prc' = "other" /\ Break
     \/ prc' \in {"APR_SUCCESS", "APR_NOTFOUND"} /\ Next1
     \/ prc' = "APR_ENOENT" /\ pstep' = "link" /\ UNCHANGED i
  /\ UNCHANGED <<node, call, args, before, foreign, removed>>

(* symlink() makes nothing where there is something, a link to nothing       *)
(* included.  rc remains APR_ENOENT either way.                              *)
MakeSymlink ==
  /\ pstep = "link"
  /\ \/ /\ node[args[i][2]] = "none"
        /\ node' = [node EXCEPT ![args[i][2]] = args[i][1]]
        /\ Next1
     \/ Break /\ UNCHANGED node
  /\ UNCHANGED <<call, args, prc, before, foreign, removed>>

PathStep == CheckDir \/ MakeDir \/ CheckSource \/ CheckLink \/ MakeSymlink

PathNext == Begin \/ PathStep \/ Interfere

-----------------------------------------------------------------------------
PathTypeOK ==
  /\ node \in [Names -> Nodes] /\ before \in [Names -> Nodes]
  /\ call \in {"none", "MakeDir", "MakeSymlink"} /\ Len(args) <= MaxArgs
  /\ i \in 1..MaxArgs
  /\ pstep \in {"idle", "check", "checksym", "make", "link", "returned"}
  /\ prc \in {"APR_SUCCESS", "APR_NOTFOUND", "APR_ENOENT", "other"}
  /\ foreign \subseteq Names /\ removed \in {"no", "yes"}

Returned(fn) == pstep = "returned" /\ call = fn /\ removed = "no"

(* Whatever other processes make between a stat() and what follows it, as      *)
(* long as none removes anything: when kahanaIOMakeDir returns APR_SUCCESS    *)
(* there is something at every path, and a directory at the last one unless a *)
(* link was there, or another process made something else there, which       *)
(* apr_dir_make_recursive() passes over; of the paths before it, some may be  *)
(* no directories.  Unless kahanaIOMakeSymlink broke off or has skipped its   *)
(* last pair, there is something at every link whose source was there.       *)
(* Neither changes what was there.                                           *)
MadeAsTold ==
  /\ Returned("MakeDir") /\ prc = "APR_SUCCESS" =>
       /\ \A k \in DOMAIN args : node[args[k]] # "none"
       /\ LET last == args[Len(args)]
          IN before[last] \in Names \/ last \in foreign \/ node[last] = "dir"
  /\ Returned("MakeDir") /\ prc = "APR_NOTFOUND" => Stat(node, args[Len(args)]) \notin {"dir", "none"}
  /\ Returned("MakeSymlink") /\ prc \in {"APR_SUCCESS", "APR_NOTFOUND"} =>
       \A k \in DOMAIN args : Stat(before, args[k][1]) # "none" => node[args[k][2]] # "none"
  /\ removed = "no" => \A p \in Names : before[p] # "none" => node[p] = before[p]

(* "correct = APR_SUCCESS, incorrect = APR_NOTFOUND, nofile = APR_NOENT"       *)
(* (kahana_io.h:22, io.c:143) of kahanaIOPathTypeIs, which kahanaIOMakeSymlink *)
(* asks whether there is a link already: with nobody else at work, a pair     *)
(* whose link is there and leads somewhere returns APR_SUCCESS.  It does not: *)
(* stat() follows the link.                                                   *)
LinkIsFound ==
  (/\ pstep = "returned" /\ call = "MakeSymlink" /\ Len(args) = 1 /\ prc # "other"
   /\ node = before /\ removed = "no" /\ foreign = {}
   /\ before[args[1][2]] \in Names
   /\ Stat(before, args[1][1]) # "none" /\ Stat(before, args[1][2]) # "none")
  => prc = "APR_SUCCESS"
================================================================================
