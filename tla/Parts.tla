---------------------------------- MODULE Parts ----------------------------------
(***************************************************************************)
(* The parts of the library that keep their state to themselves: sockets       *)
(* before their threads (SockSetup), the loading of a file (FileLoad), the     *)
(* command runner (Command), directories and links (Paths), positions (Geo),  *)
(* ciphers (Cipher) and address ranges (Cidr).  A behaviour is of one of       *)
(* them, so that the variables two of them name alike may be shared.          *)
(***************************************************************************)
EXTENDS Integers, Sequences

CONSTANTS
  Sizes, Default, Signals,                          \* SockSetup
  Chunk, Letters, Nul, Stray, MaxFile,              \* FileLoad
  MaxRuns, MaxOutput,                               \* Command, and Chunk, Nul, Stray
  Names, MaxLinks, MaxArgs,                          \* Paths
  Scale, Coords, Degree, CharBits, HashSize,        \* Geo
  Clues, Texts, BlockSize, IVSize, GivenIVs, MaxCalls, \* Cipher
  ByteBits, Bytes                                   \* Cidr

ASSUME BoundsAssumption == {MaxFile, MaxRuns, MaxOutput, MaxCalls} \subseteq Nat /\ MaxArgs \in Nat \ {0}
ASSUME SizesAssumption == Sizes \subseteq Nat \ {0} /\ Default \in Sizes
ASSUME ChunkAssumption == Chunk \in Nat \ {0}
ASSUME NamesAssumption ==
  Names \cap {"none", "dir", "reg", "link", "loop"} = {} /\ MaxLinks \in Nat
ASSUME RunsAssumption == Nul \notin 1..MaxRuns \* no command writes a '\0'
(* However often the loops over a geohash halve a range, it has a middle.     *)
Halvings == (HashSize * CharBits) \div 2 + 1
ASSUME HashAssumption ==
  /\ HashSize \in Nat \ {0} /\ CharBits \in Nat \ {0} /\ Scale \in Nat \ {0} /\ Coords \subseteq 0..Scale
  /\ Scale % 2 ^ Halvings = 0 /\ Degree \in Nat
ASSUME BytesAssumption == ByteBits \in Nat /\ Bytes \in Nat
(* A text is a string of C. *)
ASSUME CipherAssumption ==
  /\ BlockSize \in Nat \ {0} /\ IVSize \in Nat \ {0} /\ GivenIVs \subseteq [name : STRING, size : Nat]
  /\ \A str \in Texts : str \in Seq({str[n] : n \in DOMAIN str} \ {Nul})

VARIABLES
  part,                                                   \* the part a behaviour is of
  fd, held, kern, copy, ev, cb, fault,                    \* SockSetup
  files, named, since, opened, stated, size, data, rc,    \* FileLoad
  temps, ends, run, body, own, old, child, errat, errcode, errstr, left, \* Command
  phase,                                                  \* SockSetup and Command
  step, at, rd, room, text, out,                          \* FileLoad and Command
  node, call, args, i, pstep, prc, before, foreign, removed, \* Paths
  geo, source,                                            \* Geo
  mode, co, ivs, made, told, crash,                       \* Cipher
  cidr                                                    \* Cidr

sockOnly == <<fd, held, kern, copy, ev, cb, fault>>
loadOnly == <<files, named, since, opened, stated, size, data, rc>>
cmdOnly  == <<temps, ends, run, body, own, old, child, errat, errcode, errstr, left>>
reading  == <<step, at, rd, room, text, out>>
paths    == <<node, call, args, i, pstep, prc, before, foreign, removed>>
others   == <<geo, source, mode, co, ivs, made, told, crash, cidr>>
vars     == <<part, sockOnly, loadOnly, cmdOnly, phase, reading, paths, others>>

S == INSTANCE SockSetup
L == INSTANCE FileLoad
C == INSTANCE Command
P == INSTANCE Paths
G == INSTANCE Geo
E == INSTANCE Cipher
N == INSTANCE Cidr

Init ==
  /\ part \in {"sock", "load", "cmd", "path", "geo", "cipher", "cidr"}
  /\ S!Init /\ C!CmdInit /\ G!GeoInit /\ E!CipherStart /\ N!CidrInit
  /\ L!LoadInit /\ (part = "load" \/ (files = [f \in 1..2 |-> <<>>] /\ named = 0))
  /\ P!PathInit /\ (part = "path" \/ node = [p \in Names |-> "none"])

-----------------------------------------------------------------------------
Sock(Action) == part = "sock" /\ Action /\ UNCHANGED <<part, loadOnly, cmdOnly, reading, paths, others>>
Load(Action) == part = "load" /\ Action /\ UNCHANGED <<part, sockOnly, cmdOnly, phase, paths, others>>
Cmd(Action)  == part = "cmd" /\ Action /\ UNCHANGED <<part, sockOnly, loadOnly, paths, others>>
Path(Action) == part = "path" /\ Action /\ UNCHANGED <<part, sockOnly, loadOnly, cmdOnly, phase, reading, others>>

Alone == UNCHANGED <<part, sockOnly, loadOnly, cmdOnly, phase, reading, paths>>

Next ==
  \/ Sock(S!Next)
  \/ Load(L!LoadFile)
  \/ Load(L!Others)
  \/ Cmd(C!CmdNext)
  \/ Path(P!PathNext)
  \/ part = "geo" /\ G!GeoNext /\ Alone /\ UNCHANGED <<mode, co, ivs, made, told, crash, cidr>>
  \/ part = "cipher" /\ E!CipherNext /\ Alone /\ UNCHANGED <<geo, source, cidr>>
  \/ part = "cidr" /\ N!NetCIDR /\ Alone /\ UNCHANGED <<geo, source, mode, co, ivs, made, told, crash>>

(* What runs on the caller's thread goes on; other processes, a child and the *)
(* application need not do anything.                                         *)
Spec ==
  /\ Init /\ [][Next]_vars
  /\ WF_vars(Load(L!LoadFile)) /\ WF_vars(Cmd(C!CmdStep)) /\ WF_vars(Path(P!PathStep))

-----------------------------------------------------------------------------
(* Every variable stays in its range. *)
TypeOK ==
  /\ part = "sock" => S!TypeOK
  /\ part = "load" => L!LoadTypeOK
  /\ part = "cmd" => C!CmdTypeOK
  /\ part = "path" => P!PathTypeOK
  /\ part = "geo" => G!GeoTypeOK
  /\ part = "cipher" => E!CipherTypeOK

(* Nothing stays open whose owner is gone: what kahanaSockCreate had acquired *)
(* at the step that fails, but for the event base, and what a socket has when *)
(* it is destroyed, but for descriptor 0; the file kahanaIOLoadFile has       *)
(* opened; the temporary files and the pipes of a command attribute, however  *)
(* far it had come.                                                          *)
NothingLeftOpen ==
  /\ part = "sock" => S!NothingLeftOpen
  /\ part = "load" /\ step \in {"idle", "stat", "returned"} => opened = 0
  /\ part = "cmd" /\ phase # "live" => temps = {}

(* What kahanaIOLoadFile returns describes what the file was or has become    *)
(* (SizeDescribesData of FileLoad), and what the application reads of a run   *)
(* of a command is what that run has written (OutputOfRun of Command).        *)
DataAsWritten ==
  /\ part = "load" => L!SizeDescribesData
  /\ part = "cmd" => C!OutputOfRun

(* kahanaIOMakeDir and kahanaIOMakeSymlink (PathsAsTold of Paths). *)
PathsAsTold == part = "path" => P!MadeAsTold

(* Positions and their geohashes, texts and their ciphertexts, ranges and the *)
(* networks they are written as (the properties of Geo, Cipher and Cidr).     *)
ConversionsAsTold ==
  /\ part = "geo" => G!GeohashOfPosition
  /\ part = "cipher" => E!DecryptsBack
  /\ part = "cidr" => N!RangeIsNetwork

(* The calls that look at files end: kahanaIOLoadFile, whatever happens to    *)
(* the file as long as it does not grow for ever; kahanaCmdRunProcess once    *)
(* its child has ended, since the second read of the error output asks for    *)
(* nothing; and the loops over paths.                                        *)
Returns ==
  /\ part = "load" ~> step = "returned"
  /\ (part = "cmd" /\ child = "exited") ~> step = "returned"
  /\ (part = "path" /\ pstep = "check") ~> pstep = "returned"
================================================================================
