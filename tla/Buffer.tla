-------------------------------- MODULE Buffer --------------------------------
(***************************************************************************)
(* The growable string buffer of src/buffer.c (kBuffer_t), with the text   *)
(* abstracted to its length.  What is kept is everything memory safety      *)
(* depends on: the allocator's idea of the block (cap), the buffer's own    *)
(* idea of it (nmem), the text length (size), whether mem[size] holds the   *)
(* terminating NUL, and every request, early return and failure of          *)
(* realloc().  A write outside the block is recorded in `fault', after      *)
(* which the C program has no defined behaviour and the model stops.        *)
(***************************************************************************)
EXTENDS Integers

CONSTANTS Bytes,     \* bo->bytes, the element width given to kahanaBufCreate
          NAllocs,   \* the values callers give to nalloc
          Lens,      \* the lengths of the strings callers pass
          MaxSize,   \* bound: the longest text a caller builds
          SizeMod    \* size_t is arithmetic modulo this (2^64)

ASSUME BytesAssumption == Bytes \in Nat \ {0}
ASSUME NAllocsAssumption == NAllocs \subseteq Nat
ASSUME LensAssumption == Lens \subseteq Nat
ASSUME SizeAssumption == /\ MaxSize \in Nat
                         /\ SizeMod \in Nat
                         /\ SizeMod > 2 * MaxSize + 2

VARIABLES
  st,      \* "none" before kahanaBufCreate, "live", "gone" after Destroy
  mem,     \* bo->mem: a "block" or "NULL"
  cap,     \* bytes the allocator really holds at bo->mem (no C variable)
  nmem,    \* bo->nmem, what kahanaBufAllocSize returns
  size,    \* bo->size
  nalloc,  \* bo->nalloc
  nul,     \* mem[size] is inside the block and is '\0': "set" or "unset"
  slack,   \* history: "none" from an empty Create or a compaction until the
           \* block grows again, "some" otherwise
  heap,    \* history: "failed" once a realloc() has failed, "good" before
  fault,   \* "none", "null" (write through NULL) or "oob" (write past cap)
  rc       \* result of the last call: "ok" or "err"

vars == <<st, mem, cap, nmem, size, nalloc, nul, slack, heap, fault, rc>>

block == <<mem, cap, nmem, slack, heap>>

Init == /\ st = "none" /\ mem = "NULL" /\ cap = 0 /\ nmem = 0 /\ size = 0
        /\ nalloc = 0 /\ nul = "unset" /\ slack = "none" /\ heap = "good"
        /\ fault = "none" /\ rc = "ok"

Live == st = "live" /\ fault = "none"

-----------------------------------------------------------------------------
(* size_t addition of two size_t values. *)
Wrap(x) == IF x >= SizeMod THEN x - SizeMod ELSE x

(* Mutant of Grown: only the slack is asked for. *)
MutGrownSlackOnly(req) == Bytes * nalloc

(* BufRealloc's new block: it is asked for `req' bytes and adds the slack. *)
Grown(req) == Bytes * (req + nalloc)

(* bo->nmem once BufRealloc has found room for req bytes. *)
Promised(req) == IF req > nmem THEN Grown(req) ELSE nmem

(* BufRealloc(bo, req) returns 0: the block was enough, or has been grown. *)
Room(req) ==
  \/ /\ req <= nmem
     /\ UNCHANGED block
  \/ /\ req > nmem
     /\ mem' = "block" /\ cap' = Grown(req) /\ nmem' = Promised(req)
     /\ slack' = "some"
     /\ UNCHANGED heap

(* BufRealloc(bo, req) returns errno: bo->mem is overwritten with NULL and *)
(* bo->nmem keeps the size of the block that is lost.                      *)
NoRoom(req) ==
  /\ req > nmem
  /\ mem' = "NULL" /\ cap' = 0 /\ heap' = "failed"
  /\ UNCHANGED <<nmem, slack>>

Nul(there) == IF there THEN "set" ELSE "unset"

(* What writing the bytes 0 .. extent-1 of the block does. *)
Written(extent) == IF mem' = "NULL" THEN "null"
                   ELSE IF extent > cap' THEN "oob" ELSE "none"

(* A string call that asks for req bytes, stores bytes below extent, and    *)
(* ends with mem[newsize] = '\0'; when BufRealloc fails, bo->size is left   *)
(* at failsize.                                                             *)
Store(req, newsize, extent, failsize) ==
  /\ UNCHANGED <<st, nalloc>>
  /\ \/ /\ Room(req)
        /\ size' = newsize /\ rc' = "ok"
        /\ fault' = Written(extent)
        /\ nul' = Nul(fault' = "none")
     \/ /\ NoRoom(req)
        /\ size' = failsize /\ rc' = "err"
        /\ nul' = "unset"
        /\ UNCHANGED fault

-----------------------------------------------------------------------------
(* kahanaBufCreate: calloc(nalloc, bytes), a zeroed block of nmem bytes. *)
Create(n) ==
  /\ st = "none"
  /\ nalloc' = n
  /\ UNCHANGED <<size, heap, fault>>
  /\ \/ /\ st' = "live" /\ rc' = "ok"
        /\ mem' = "block" /\ cap' = Bytes * n /\ nmem' = Bytes * n
        /\ nul' = Nul(Bytes * n > 0)
        /\ slack' = IF Bytes * n > 0 THEN "some" ELSE "none"
     \/ /\ st' = "gone" /\ rc' = "err"
        /\ UNCHANGED <<mem, cap, nmem, nul, slack>>

(* kahanaBufDestroy: the pool's cleanup, BufferCleanup, frees bo->mem. *)
Destroy ==
  /\ Live
  /\ st' = "gone" /\ mem' = "NULL" /\ cap' = 0 /\ nul' = "unset"
  /\ UNCHANGED <<nmem, size, nalloc, slack, heap, fault, rc>>

SetNAllocSize(n) ==
  /\ Live
  /\ nalloc' = n
  /\ UNCHANGED <<st, mem, cap, nmem, size, nul, slack, heap, fault, rc>>

(* Mutant of Tight: the last byte of the text is forgotten. *)
MutTightLessOne == IF size = 0 THEN 0 ELSE Bytes * size - 1

(* The bytes a compaction keeps. *)
Tight == Bytes * size

(* The body the two compactions share: realloc() to Bytes * size, while     *)
(* bo->nmem becomes stated.  The test of the result is inverted in the      *)
(* source, so success returns whatever errno holds and failure returns 0.   *)
(* realloc(mem, 0) may free the block and return NULL.                      *)
Compact(stated) ==
  /\ Live
  /\ UNCHANGED <<st, size, nalloc, fault>>
  /\ \/ /\ nmem <= Tight
        /\ rc' = "ok"
        /\ UNCHANGED <<mem, cap, nmem, nul, slack, heap>>
     \/ /\ nmem > Tight
        /\ nmem' = stated /\ cap' = Tight
        /\ mem' = "block" /\ slack' = "none"
        /\ nul' = Nul(nul = "set" /\ size < Tight)
        /\ rc' \in {"ok", "err"}
        /\ UNCHANGED heap
     \/ /\ nmem > Tight
        /\ nmem' = stated /\ cap' = 0
        /\ mem' = "NULL" /\ slack' = "none" /\ nul' = "unset"
        /\ heap' = (IF size > 0 THEN "failed" ELSE heap)
        /\ rc' = "ok"

(* What each compaction leaves in bo->nmem for a block of n bytes. *)
CompactionStates(n) == n
StrCompactionStates(n) == n + 1

Compaction == Compact(CompactionStates(Tight))
StrCompaction == Compact(StrCompactionStates(Tight))

-----------------------------------------------------------------------------
(* Mutants of TextRoom and ChrRoom: the room for the NUL is forgotten. *)
MutTextRoomNoNul(n) == n
MutChrRoomNoNul(n) == n + 1

(* The room each call asks for, in bytes: the text and its NUL. *)
TextRoom(n) == n + 1
ChrRoom(n) == n + 2

(* kahanaBufStrSet and kahanaBufStrNSet: memset() of all nmem bytes, then   *)
(* the text.  NSet returns at once for len = 0, Set does not.               *)
StrSet(len) ==
  /\ Live
  /\ len <= MaxSize
  /\ Store(TextRoom(len), len, Promised(TextRoom(len)), size)

StrNSet(len) ==
  /\ len > 0
  /\ StrSet(len)

(* kahanaBufStrCat and kahanaBufStrNCat append len bytes. *)
StrCat(len) ==
  /\ Live
  /\ size + len <= MaxSize
  /\ Store(TextRoom(size + len), size + len, size + len + 1, size)

StrNCat(len) ==
  /\ len > 0
  /\ StrCat(len)

StrChrCat ==
  /\ Live
  /\ size + 1 <= MaxSize
  /\ Store(ChrRoom(size), size + 1, size + 2, size)

-----------------------------------------------------------------------------
(* BufShift asks for room for the moved text and its padding; n is a size_t *)
(* so a shift to the left by k is n = SizeMod - k and every sum wraps.      *)
ShiftRoom(n) == Wrap(Wrap(size + n) + 1)

(* BufShift(bo, cur, n, 1), n # 0, followed by mem[size] = '\0'.  On failure  *)
(* bo->size has been moved by n all the same.                                *)
Shift(n) == LET newsize == Wrap(size + n) IN
            Store(ShiftRoom(n), newsize, newsize + 1, newsize)

(* With n = 0 BufShift does nothing and the callers that still write the    *)
(* NUL write it without asking for room.                                    *)
Terminate == Store(0, size, size + 1, size)

(* Mutant of Diff: the operands are swapped. *)
MutDiffSwapped(len, rlen) == IF rlen >= len THEN rlen - len ELSE SizeMod + rlen - len

(* len - rlen as a size_t *)
Diff(len, rlen) == IF len >= rlen THEN len - rlen ELSE SizeMod + len - rlen

(* kahanaBufStrShift: by n to the right, or by k to the left of a cursor    *)
(* that is at or after k.  The padding is 1, as in every call the library   *)
(* makes itself: an application that passes 0 to kahanaBufStrShift has its   *)
(* NUL written one past a block that was just grown, and is not modelled.    *)
StrShiftRight(n) == Live /\ n > 0 /\ size + n <= MaxSize /\ Shift(n)
StrShiftLeft(k) == Live /\ k \in 1..size /\ Shift(SizeMod - k)

(* kahanaBufStrInsert of len bytes at any cursor inside the text. *)
StrInsert(len) ==
  /\ Live
  /\ size + len <= MaxSize
  /\ IF len # 0 THEN Shift(len) ELSE Terminate

(* kahanaBufStrReplaceFromTo of rlen = to - from bytes of the text by len.  *)
StrReplaceFromTo(rlen, len) ==
  /\ Live
  /\ rlen \in 1..size
  /\ size - rlen + len <= MaxSize
  /\ IF Diff(len, rlen) # 0 THEN Shift(Diff(len, rlen)) ELSE Terminate

-----------------------------------------------------------------------------
Next ==
  \/ \E n \in NAllocs : Create(n) \/ SetNAllocSize(n)
  \/ Destroy
  \/ Compaction
  \/ StrCompaction
  \/ StrChrCat
  \/ \E len \in Lens : \/ StrSet(len) \/ StrNSet(len)
                       \/ StrCat(len) \/ StrNCat(len)
                       \/ StrShiftRight(len) \/ StrShiftLeft(len)
                       \/ StrInsert(len)
  \/ \E rlen \in Lens, len \in Lens : StrReplaceFromTo(rlen, len)

Spec == Init /\ [][Next]_vars

-----------------------------------------------------------------------------
(* Every variable stays in its range. *)
TypeOK ==
  /\ st \in {"none", "live", "gone"}
  /\ mem \in {"block", "NULL"} /\ nul \in {"set", "unset"}
  /\ slack \in {"some", "none"} /\ heap \in {"good", "failed"}
  /\ cap \in Nat /\ nmem \in Nat /\ nalloc \in Nat
  /\ size \in 0..MaxSize
  /\ fault \in {"none", "null", "oob"}
  /\ rc \in {"ok", "err"}

(* As long as a realloc() never failed and the block has been grown since   *)
(* the last compaction (or was created with room), no sequence of calls,    *)
(* shifts with padding 1 among them, writes outside it: the +1 each caller   *)
(* of BufRealloc adds is enough for its NUL, the size_t wrap-around of a     *)
(* left shift included.                                                     *)
InBounds == slack = "some" /\ heap = "good" => fault = "none"

(* In the same states the pointer kahanaBufPtr returns is a C string of     *)
(* `size' bytes inside the block, and kahanaBufAllocSize is the true size.  *)
StringReadable ==
  st = "live" /\ slack = "some" /\ heap = "good" => mem = "block" /\ nul = "set" /\ size < cap /\ nmem = cap

(* bo->nmem never promises more than the block has, but for the single byte *)
(* that kahanaBufStrCompaction adds and the block lost by a failed realloc. *)
NoPromiseBeyondBlock ==
  st = "live" /\ heap = "good" => nmem <= cap \/ (slack = "none" /\ nmem = cap + 1)

(* The text itself never leaves the block, compacted or not. *)
TextInBlock == Live /\ heap = "good" => size <= cap

(* The buffer as its user sees it: a string as long as mem[size] is the NUL, *)
(* inside a block that is as large as bo->nmem says.                         *)
IsString == mem = "block" /\ nul = "set" /\ size < cap /\ nmem = cap

Seen == IF st # "live"          THEN st
        ELSE IF fault # "none"  THEN "overrun"
        ELSE IF heap = "failed" THEN "lost"
        ELSE IF IsString        THEN "string" ELSE "raw"

Text == INSTANCE TextBuffer WITH MaxLen <- MaxSize, state <- Seen, len <- size, answer <- rc

(* Whatever the calls, as long as shifts have padding 1: a string stays one, *)
(* whether it grows, shrinks or is moved, until a compaction or a failed     *)
(* realloc(); a call that has not done its work says so, but for the         *)
(* compactions, whose test is inverted; and no call writes outside the block *)
(* of a string.                                                              *)
ImplementsText == Text!Spec

=============================================================================
