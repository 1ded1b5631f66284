----------------------------- MODULE BufferProofs -----------------------------
(* The safety of Buffer, proved for every element width, every set of       *)
(* lengths and slacks the callers use and every bound on the text; and that   *)
(* it implements TextBuffer.                                                *)
EXTENDS Buffer, TLAPS

(* What holds while the buffer is in use and no realloc() has failed: with  *)
(* room, the block has a byte for the NUL and nmem is exact; without, the   *)
(* text still fits and nmem is at most one byte too large.                  *)
LiveInv ==
  (st = "live" /\ heap = "good" /\ fault = "none") =>
     /\ size <= cap
     /\ IF slack = "none" THEN nmem = cap \/ nmem = cap + 1
                 ELSE mem = "block" /\ nul = "set" /\ nmem = cap /\ size + 1 <= cap

(* A write outside the block needs a block without room, and one through    *)
(* NULL a block that was lost.                                              *)
FaultInv ==
  /\ fault = "oob" => slack = "none" \/ heap = "failed"
  /\ fault = "null" => heap = "failed" \/ (slack = "none" /\ cap = 0)
  /\ st = "live" /\ heap = "good" /\ fault # "none"
        => slack = "none" /\ (nmem = cap \/ nmem = cap + 1)
  /\ st = "live" /\ heap = "good" /\ mem = "NULL" => slack = "none" /\ cap = 0

(* Nothing happens to a buffer before kahanaBufCreate. *)
StartInv == st = "none" => size = 0 /\ fault = "none" /\ heap = "good"

IInv == TypeOK /\ LiveInv /\ FaultInv /\ StartInv

(* bo->bytes * x is a natural number not below x. *)
LEMMA ScaleUp ==
  ASSUME NEW x \in Nat
  PROVE  Bytes * x \in Nat /\ x <= Bytes * x
<1>1. Bytes \in Nat /\ 1 <= Bytes
  BY BytesAssumption
<1>2. Bytes * x \in Nat
  BY <1>1
<1>3. (Bytes - 1) * x \in Nat
  BY <1>1
<1>4. Bytes * x = (Bytes - 1) * x + x
  BY <1>1
<1> QED BY <1>2, <1>3, <1>4

(* The block BufRealloc asks for holds at least what its caller asked for.  *)
LEMMA GrownHolds ==
  ASSUME NEW req \in Nat, nalloc \in Nat
  PROVE  Grown(req) \in Nat /\ req <= Grown(req)
<1>1. req + nalloc \in Nat
  OBVIOUS
<1> QED BY <1>1, ScaleUp DEF Grown

(* Every string call that asks for at least newsize + 1 bytes before it     *)
(* writes up to there, or at most all of nmem, keeps the invariant.         *)
LEMMA StoreKeeps ==
  \A req \in Nat, newsize \in 0..MaxSize, failsize \in 0..MaxSize, extent \in Nat :
    /\ IInv /\ Live
    /\ newsize + 1 <= req /\ (extent <= req \/ extent = Promised(req))
    /\ Store(req, newsize, extent, failsize)
    => IInv'
<1> SUFFICES ASSUME NEW req \in Nat, NEW newsize \in 0..MaxSize,
                    NEW failsize \in 0..MaxSize, NEW extent \in Nat,
                    IInv, Live, newsize + 1 <= req,
                    extent <= req \/ extent = Promised(req),
                    Store(req, newsize, extent, failsize)
             PROVE  IInv'
  OBVIOUS
<1>1. Grown(req) \in Nat /\ req <= Grown(req)
  BY GrownHolds DEF IInv, TypeOK
<1> HIDE DEF Grown
<1>2. MaxSize \in Nat
  BY SizeAssumption
<1>3. CASE NoRoom(req)
  <2>1. /\ mem' = "NULL" /\ cap' = 0 /\ heap' = "failed"
        /\ nmem' = nmem /\ slack' = slack
    BY <1>3 DEF NoRoom
  <2>2. /\ size' = failsize /\ rc' = "err" /\ nul' = "unset" /\ fault' = fault
        /\ st' = st /\ nalloc' = nalloc
    <3>1. ~ Room(req)
      BY <1>3 DEF Room, NoRoom, IInv, TypeOK
    <3> QED BY <3>1 DEF Store
  <2> QED BY <1>2, <2>1, <2>2 DEF IInv, LiveInv, FaultInv, StartInv, TypeOK, Live
<1>4. CASE Room(req)
  <2>1. /\ size' = newsize /\ rc' = "ok" /\ st' = st /\ nalloc' = nalloc
        /\ fault' = Written(extent) /\ nul' = Nul(fault' = "none")
    BY <1>4, <1>1 DEF Store, NoRoom, Room, IInv, TypeOK, block
  <2>2. nmem' = Promised(req)
    BY <1>4 DEF Room, block, Promised, IInv, TypeOK
  <2>3. TypeOK'
    BY <1>1, <1>2, <1>4, <2>1, <2>2 DEF IInv, TypeOK, Room, block, Nul, Promised, Written
  <2>4. CASE req <= nmem
    <3>1. UNCHANGED block
      BY <1>4, <2>4 DEF Room, IInv, TypeOK
    <3>2. extent <= nmem
      BY <2>4 DEF IInv, TypeOK, Promised
    <3>3. LiveInv'
      BY <1>2, <2>1, <2>4, <3>1, <3>2
         DEF IInv, LiveInv, FaultInv, TypeOK, Live, Nul, block, Written
    <3>4. FaultInv'
      BY <1>2, <2>1, <2>4, <3>1, <3>2
         DEF IInv, LiveInv, FaultInv, TypeOK, Live, Nul, block, Written
    <3> QED BY <2>1, <2>3, <3>3, <3>4 DEF IInv, StartInv, Nul, Live
  <2>5. CASE req > nmem
    <3>1. /\ mem' = "block" /\ cap' = Grown(req) /\ nmem' = Grown(req)
          /\ slack' = "some" /\ heap' = heap
      BY <1>4, <2>5 DEF Room, Promised, IInv, TypeOK
    <3>2. extent <= Grown(req)
      BY <1>1, <2>5 DEF Promised, IInv, TypeOK
    <3>3. LiveInv' /\ FaultInv' /\ StartInv'
      BY <1>1, <1>2, <2>1, <3>1, <3>2
         DEF IInv, LiveInv, FaultInv, StartInv, TypeOK, Live, Nul, Written
    <3> QED BY <2>3, <3>3 DEF IInv
  <2> QED BY <2>4, <2>5 DEF IInv, TypeOK
<1> QED BY <1>3, <1>4 DEF Store

(* BufShift is asked for a shift that moves the end of the text to newsize: *)
(* the size_t sums it computes wrap to exactly newsize and newsize + 1.     *)
LEMMA ShiftWraps ==
  ASSUME NEW sz \in 0..MaxSize, NEW newsize \in 0..MaxSize, NEW n \in Nat,
         n = newsize - sz \/ n = SizeMod + newsize - sz
  PROVE  /\ Wrap(sz + n) = newsize
         /\ Wrap(Wrap(sz + n) + 1) = newsize + 1
<1>1. MaxSize \in Nat /\ SizeMod \in Nat /\ SizeMod > 2 * MaxSize + 2
  BY SizeAssumption
<1>2. Wrap(sz + n) = newsize
  BY <1>1 DEF Wrap
<1> QED BY <1>1, <1>2 DEF Wrap

LEMMA ShiftKeeps ==
  \A n \in Nat, newsize \in 0..MaxSize :
    /\ IInv /\ Live
    /\ n = newsize - size \/ n = SizeMod + newsize - size
    /\ Shift(n)
    => IInv'
<1> SUFFICES ASSUME NEW n \in Nat, NEW newsize \in 0..MaxSize, IInv, Live,
                    n = newsize - size \/ n = SizeMod + newsize - size,
                    Shift(n)
             PROVE  IInv'
  OBVIOUS
<1>1. MaxSize \in Nat /\ size \in 0..MaxSize
  BY SizeAssumption DEF IInv, TypeOK
<1>2. Wrap(size + n) = newsize /\ ShiftRoom(n) = newsize + 1
  BY <1>1, ShiftWraps DEF ShiftRoom
<1>3. Store(newsize + 1, newsize, newsize + 1, newsize)
  BY <1>2 DEF Shift
<1>4. newsize + 1 \in Nat
  BY <1>1
<1> QED BY <1>1, <1>3, <1>4, StoreKeeps

(* The NUL a zero-length insertion or an equal-length replacement writes    *)
(* without asking for room: harmless with room, and only then.              *)
LEMMA TerminateKeeps ==
  ASSUME IInv, Live, Terminate
  PROVE  IInv'
<1>1. 0 <= nmem /\ size \in 0..MaxSize /\ MaxSize \in Nat
  BY SizeAssumption DEF IInv, TypeOK
<1>2. /\ UNCHANGED block /\ size' = size /\ rc' = "ok" /\ UNCHANGED <<st, nalloc>>
      /\ fault' = Written(size + 1) /\ nul' = Nul(fault' = "none")
  BY <1>1 DEF Terminate, Store, Room, NoRoom, IInv, TypeOK
<1>3. TypeOK'
  BY <1>1, <1>2 DEF IInv, TypeOK, Nul, block, Written
<1>4. LiveInv' /\ FaultInv' /\ StartInv'
  BY <1>1, <1>2 DEF IInv, TypeOK, LiveInv, FaultInv, StartInv, Live, Nul, block, Written
<1> QED BY <1>3, <1>4 DEF IInv

-----------------------------------------------------------------------------
LEMMA CreateKeeps ==
  ASSUME NEW n \in NAllocs, IInv, Create(n)
  PROVE  IInv'
<1>1. n \in Nat
  BY NAllocsAssumption
<1>2. Bytes * n \in Nat
  BY <1>1, ScaleUp
<1>3. PICK b \in Nat : b = Bytes * n
  BY <1>2
<1>4. /\ st = "none" /\ nalloc' = n
      /\ size' = size /\ heap' = heap /\ fault' = fault
  BY DEF Create
<1>5. CASE st' = "live"
  <2>1. /\ rc' = "ok" /\ mem' = "block" /\ cap' = b /\ nmem' = b
        /\ nul' = Nul(b > 0)
        /\ slack' = IF b > 0 THEN "some" ELSE "none"
    BY <1>3, <1>5 DEF Create
  <2>2. size = 0 /\ fault = "none"
    BY <1>4 DEF IInv, StartInv
  <2>3. TypeOK'
    BY <1>1, <1>3, <1>4, <1>5, <2>1 DEF IInv, TypeOK, Nul
  <2>4. LiveInv' /\ FaultInv' /\ StartInv'
    BY <1>3, <1>4, <1>5, <2>1, <2>2 DEF LiveInv, FaultInv, StartInv, Nul
  <2> QED BY <2>3, <2>4 DEF IInv
<1>6. CASE st' = "gone"
  <2>1. rc' = "err" /\ UNCHANGED <<mem, cap, nmem, nul, slack>>
    BY <1>6 DEF Create
  <2> QED BY <1>1, <1>4, <1>6, <2>1 DEF IInv, TypeOK, LiveInv, FaultInv, StartInv, Nul
<1> QED BY <1>5, <1>6 DEF Create

(* A compaction leaves bo->nmem exact, or one byte too large. *)
LEMMA CompactKeeps ==
  \A stated \in Nat :
    /\ stated = Bytes * size \/ stated = Bytes * size + 1
    /\ IInv /\ Compact(stated)
    => IInv'
<1> SUFFICES ASSUME NEW stated \in Nat,
                    stated = Bytes * size \/ stated = Bytes * size + 1,
                    IInv, Compact(stated)
             PROVE  IInv'
  OBVIOUS
<1>1. MaxSize \in Nat /\ size \in 0..MaxSize /\ size \in Nat
  BY SizeAssumption DEF IInv, TypeOK
<1>2. Bytes * size \in Nat /\ size <= Bytes * size
  BY <1>1, ScaleUp
<1>3. PICK b \in Nat : b = Bytes * size /\ size <= b
  BY <1>2
<1>4. CASE nmem <= b
  BY <1>1, <1>3, <1>4 DEF Compact, Tight, IInv, TypeOK, LiveInv, FaultInv, StartInv, Nul, Live
<1>5. CASE nmem > b /\ mem' = "block"
  BY <1>1, <1>3, <1>5 DEF Compact, Tight, IInv, TypeOK, LiveInv, FaultInv, StartInv, Nul, Live
<1>6. CASE nmem > b /\ mem' = "NULL"
  <2>1. /\ nmem' = stated /\ cap' = 0 /\ slack' = "none" /\ nul' = "unset"
        /\ heap' = (IF size > 0 THEN "failed" ELSE heap) /\ rc' = "ok"
        /\ UNCHANGED <<st, size, nalloc, fault>> /\ Live
    BY <1>3, <1>6 DEF Compact, Tight, IInv, TypeOK
  <2>2. CASE heap = "failed" \/ size > 0
    BY <1>1, <1>6, <2>1, <2>2 DEF IInv, TypeOK, LiveInv, FaultInv, StartInv, Nul, Live
  <2>3. CASE heap = "good" /\ size = 0
    <3>1. Bytes * 0 = 0
      BY BytesAssumption
    <3>2. b = 0
      BY <1>3, <2>3, <3>1
    <3>3. stated = 0 \/ stated = 1
      BY <1>3, <3>2
    <3>4. heap' = heap
      BY <2>1, <2>3
    <3>5. TypeOK'
      BY <1>6, <2>1, <3>3, <3>4 DEF IInv, TypeOK
    <3>6. /\ st' = "live" /\ fault' = "none" /\ slack' = "none" /\ size' = 0
          /\ cap' = 0 /\ (nmem' = 0 \/ nmem' = 1)
      BY <2>1, <2>3, <3>3 DEF Live
    <3>7. LiveInv' /\ FaultInv' /\ StartInv'
      BY <3>6 DEF LiveInv, FaultInv, StartInv
    <3> QED BY <3>5, <3>7 DEF IInv
  <2> QED BY <1>1, <2>2, <2>3 DEF IInv, TypeOK
<1>7. nmem <= b \/ nmem > b
  BY <1>3 DEF IInv, TypeOK
<1>8. nmem > b => mem' = "block" \/ mem' = "NULL"
  BY <1>3 DEF Compact, Tight, IInv, TypeOK
<1> QED BY <1>4, <1>5, <1>6, <1>7, <1>8

(* kahanaBufStrSet needs room for len + 1 bytes and clears all of nmem. *)
LEMMA StrSetKeeps ==
  ASSUME NEW len \in Lens, IInv, StrSet(len)
  PROVE  IInv'
<1>1. len \in 0..MaxSize /\ MaxSize \in Nat /\ size \in 0..MaxSize
  BY LensAssumption, SizeAssumption DEF StrSet, IInv, TypeOK
<1>2. len + 1 \in Nat /\ nmem \in Nat /\ nalloc \in Nat
  BY <1>1 DEF IInv, TypeOK
<1>3. Grown(len + 1) \in Nat
  BY <1>2, GrownHolds
<1>4. Promised(len + 1) \in Nat
  BY <1>2, <1>3 DEF Promised
<1>5. Store(len + 1, len, Promised(len + 1), size) /\ Live
  BY DEF StrSet, TextRoom
<1> QED BY <1>1, <1>2, <1>4, <1>5, StoreKeeps

LEMMA StrCatKeeps ==
  ASSUME NEW len \in Lens, IInv, StrCat(len)
  PROVE  IInv'
<1>1. /\ len \in Nat /\ MaxSize \in Nat /\ size \in 0..MaxSize
      /\ size + len \in 0..MaxSize
  BY LensAssumption, SizeAssumption DEF StrCat, IInv, TypeOK
<1>2. Store(size + len + 1, size + len, size + len + 1, size) /\ Live
  BY DEF StrCat, TextRoom
<1>3. size + len + 1 \in Nat
  BY <1>1
<1> QED BY <1>1, <1>2, <1>3, StoreKeeps

(* Every call keeps the invariant. *)
LEMMA NextKeeps ==
  IInv /\ [Next]_vars => IInv'
<1> SUFFICES ASSUME IInv, [Next]_vars PROVE IInv'
  OBVIOUS
<1> USE SizeAssumption
<1>0. size \in 0..MaxSize /\ MaxSize \in Nat /\ SizeMod \in Nat
  BY DEF IInv, TypeOK
<1>1. CASE UNCHANGED vars
  BY <1>1 DEF vars, IInv, TypeOK, LiveInv, FaultInv, StartInv, Nul
<1>2. ASSUME NEW n \in NAllocs, Create(n) PROVE IInv'
  BY <1>2, CreateKeeps
<1>3. ASSUME NEW n \in NAllocs, SetNAllocSize(n) PROVE IInv'
  BY <1>3, NAllocsAssumption DEF SetNAllocSize, IInv, TypeOK, LiveInv, FaultInv, StartInv, Nul, Live
<1>4. CASE Destroy
  BY <1>4 DEF Destroy, IInv, TypeOK, LiveInv, FaultInv, StartInv, Nul, Live
<1>5. CASE Compaction \/ StrCompaction
  <2>1. Bytes * size \in Nat
    BY <1>0, ScaleUp
  <2> QED BY <1>5, <2>1, CompactKeeps
          DEF Compaction, StrCompaction, CompactionStates, StrCompactionStates, Tight
<1>6. CASE StrChrCat
  <2>1. Store(size + 2, size + 1, size + 2, size) /\ Live /\ size + 1 <= MaxSize
    BY <1>6 DEF StrChrCat, ChrRoom
  <2>2. size + 2 \in Nat /\ size + 1 \in 0..MaxSize
    BY <1>0, <2>1
  <2> QED BY <1>0, <2>1, <2>2, StoreKeeps
<1>7. ASSUME NEW len \in Lens, StrSet(len) \/ StrNSet(len) PROVE IInv'
  BY <1>7, StrSetKeeps DEF StrNSet
<1>8. ASSUME NEW len \in Lens, StrCat(len) \/ StrNCat(len) PROVE IInv'
  BY <1>8, StrCatKeeps DEF StrNCat
<1>9. ASSUME NEW len \in Lens, StrShiftRight(len) PROVE IInv'
  <2>1. len \in Nat /\ size + len \in 0..MaxSize /\ Live /\ Shift(len)
    BY <1>0, <1>9, LensAssumption DEF StrShiftRight
  <2>2. len = (size + len) - size
    BY <1>0, <2>1
  <2> QED BY <2>1, <2>2, ShiftKeeps
<1>10. ASSUME NEW k \in Lens, StrShiftLeft(k) PROVE IInv'
  <2>1. k \in 1..size /\ Live /\ Shift(SizeMod - k)
    BY <1>10 DEF StrShiftLeft
  <2>2. /\ size - k \in 0..MaxSize /\ SizeMod - k \in Nat
        /\ SizeMod - k = SizeMod + (size - k) - size
    BY <1>0, <2>1
  <2> QED BY <2>1, <2>2, ShiftKeeps
<1>11. ASSUME NEW len \in Lens, StrInsert(len) PROVE IInv'
  <2>1. /\ len \in Nat /\ size + len \in 0..MaxSize /\ Live
        /\ Shift(len) \/ Terminate
    BY <1>0, <1>11, LensAssumption DEF StrInsert
  <2>2. len = (size + len) - size
    BY <1>0, <2>1
  <2> QED BY <2>1, <2>2, ShiftKeeps, TerminateKeeps
<1>12. ASSUME NEW rlen \in Lens, NEW len \in Lens, StrReplaceFromTo(rlen, len)
       PROVE  IInv'
  <2>1. /\ len \in Nat /\ rlen \in 1..size /\ Live
        /\ size - rlen + len \in 0..MaxSize
        /\ Shift(Diff(len, rlen)) \/ Terminate
    BY <1>0, <1>12, LensAssumption DEF StrReplaceFromTo
  <2>2. /\ Diff(len, rlen) \in Nat
        /\ \/ Diff(len, rlen) = (size - rlen + len) - size
           \/ Diff(len, rlen) = SizeMod + (size - rlen + len) - size
    BY <1>0, <2>1 DEF Diff
  <2> QED BY <2>1, <2>2, ShiftKeeps, TerminateKeeps
<1> QED BY <1>1, <1>2, <1>3, <1>4, <1>5, <1>6, <1>7, <1>8, <1>9, <1>10,
           <1>11, <1>12 DEF Next

LEMMA InitHolds == Init => IInv
<1>1. MaxSize \in Nat
  BY SizeAssumption
<1>2. Init => TypeOK
  BY <1>1 DEF Init, TypeOK
<1>3. Init => LiveInv /\ FaultInv /\ StartInv
  BY DEF Init, LiveInv, FaultInv, StartInv
<1> QED BY <1>2, <1>3 DEF IInv

(* The inductive invariant of every behaviour of a buffer. *)
THEOREM Invariant == Spec => []IInv
<1> QED BY InitHolds, NextKeeps, PTL DEF Spec

(* Every variable stays in its range, and bo->size within the callers' bound. *)
THEOREM TypeCorrect == Spec => []TypeOK
<1>1. IInv => TypeOK
  BY DEF IInv
<1> QED BY <1>1, Invariant, PTL

(* No sequence of calls, their shifts of padding 1, writes outside a block   *)
(* that has been given room.                                                *)
THEOREM MemorySafe == Spec => []InBounds
<1>1. IInv => InBounds
  BY DEF IInv, FaultInv, TypeOK, InBounds
<1> QED BY <1>1, Invariant, PTL

(* What kahanaBufPtr returns is then a terminated string of `size' bytes.   *)
THEOREM Readable == Spec => []StringReadable
<1>1. IInv => StringReadable
  BY DEF IInv, FaultInv, LiveInv, TypeOK, StringReadable
<1> QED BY <1>1, Invariant, PTL

(* kahanaBufAllocSize overstates the block by at most the one byte of        *)
(* kahanaBufStrCompaction.                                                   *)
THEOREM AllocSizeHonest == Spec => []NoPromiseBeyondBlock
<1>1. IInv => NoPromiseBeyondBlock
  BY DEF IInv, FaultInv, LiveInv, TypeOK, NoPromiseBeyondBlock
<1> QED BY <1>1, Invariant, PTL

(* The text never leaves its block, even where its NUL may. *)
THEOREM TextFits == Spec => []TextInBlock
<1>1. IInv => TextInBlock
  BY DEF IInv, LiveInv, TypeOK, TextInBlock, Live
<1> QED BY <1>1, Invariant, PTL

-----------------------------------------------------------------------------
(* Buffer implements TextBuffer: the invariant says which states a step can    *)
(* begin in, and each call of the buffer is a call of the text, or leaves what *)
(* its user sees alone.                                                      *)
(* One of the calls that edit the text. *)
Edit == \E n \in 0..MaxSize : \/ Text!Edited(n) \/ Text!EditedRaw(n)
                              \/ Text!Failed(n) \/ Text!EditedLost(n)

(* A buffer on which calls can be made is seen as one of three things. *)
LEMMA SeenLive ==
  ASSUME IInv, Live
  PROVE  /\ heap = "failed" => Seen = "lost"
         /\ heap = "good" /\ IsString => Seen = "string"
         /\ heap = "good" /\ ~ IsString => Seen = "raw"
         /\ heap \in {"good", "failed"}
  BY DEF Seen, Live, IInv, TypeOK

(* A call that asks for the room it then writes to, and its NUL, is an edit. *)
LEMMA StoreEdits ==
  \A req \in Nat, newsize \in 0..MaxSize, failsize \in 0..MaxSize, extent \in Nat :
    /\ IInv /\ Live
    /\ newsize + 1 <= req /\ (extent <= req \/ extent = Promised(req))
    /\ Store(req, newsize, extent, failsize)
    => Edit
<1> SUFFICES ASSUME NEW req \in Nat, NEW newsize \in 0..MaxSize,
                    NEW failsize \in 0..MaxSize, NEW extent \in Nat,
                    IInv, Live, newsize + 1 <= req,
                    extent <= req \/ extent = Promised(req),
                    Store(req, newsize, extent, failsize)
             PROVE  Edit
  OBVIOUS
<1>1. Grown(req) \in Nat /\ req <= Grown(req)
  BY GrownHolds DEF IInv, TypeOK
<1> HIDE DEF Grown
<1>2. MaxSize \in Nat /\ nmem \in Nat /\ cap \in Nat
  BY SizeAssumption DEF IInv, TypeOK
<1>3. st' = "live"
  BY DEF Store, Live
<1>4. CASE NoRoom(req) /\ rc' = "err"
  <2>1. /\ mem' = "NULL" /\ heap' = "failed" /\ size' = failsize /\ fault' = "none"
    <3>1. ~ Room(req)
      BY <1>2, <1>4 DEF Room, NoRoom
    <3> QED BY <1>4, <3>1 DEF Store, NoRoom, Live
  <2>2. Seen' = "lost"
    BY <1>3, <2>1 DEF Seen
  <2>3. Text!Failed(failsize) \/ Text!EditedLost(failsize)
    BY <1>4, <2>1, <2>2, SeenLive DEF Text!Failed, Text!EditedLost
  <2> QED BY <2>3 DEF Edit
<1>5. CASE Room(req) /\ rc' = "ok"
  <2>1. /\ size' = newsize /\ heap' = heap
        /\ fault' = Written(extent) /\ nul' = Nul(fault' = "none")
    BY <1>2, <1>5 DEF Store, Room, NoRoom, block
  <2>2. CASE heap = "failed"
    <3>1. Seen' \in {"lost", "overrun"}
      BY <1>3, <2>1, <2>2 DEF Seen, Written
    <3>2. Text!EditedLost(newsize)
      BY <2>1, <2>2, <3>1, SeenLive DEF Text!EditedLost
    <3> QED BY <3>2 DEF Edit
  <2>3. CASE heap = "good" /\ (IsString \/ req > nmem)
    <3>1. mem' = "block" /\ cap' = nmem' /\ req <= nmem' /\ extent <= nmem'
      <4>1. CASE req > nmem
        BY <1>1, <1>2, <1>5, <4>1 DEF Room, Promised
      <4>2. CASE IsString /\ req <= nmem
        <5>1. UNCHANGED block
          BY <1>2, <1>5, <4>2 DEF Room
        <5> QED BY <1>2, <4>2, <5>1 DEF Promised, IsString, block
      <4> QED BY <1>2, <2>3, <4>1, <4>2
    <3>2. cap' \in Nat /\ nmem' \in Nat
      BY <1>1, <1>2, <1>5 DEF Room, Promised, block
    <3>3. fault' = "none" /\ nul' = "set" /\ size' < cap'
      BY <2>1, <3>1, <3>2 DEF Written, Nul
    <3>4. Seen' = "string"
      BY <1>3, <2>1, <2>3, <3>1, <3>3 DEF Seen, IsString
    <3>5. Text!Edited(newsize)
      BY <1>5, <2>1, <2>3, <3>4, SeenLive DEF Text!Edited
    <3> QED BY <3>5 DEF Edit
  <2>4. CASE heap = "good" /\ ~ IsString
    <3>1. Seen' \in {"string", "raw", "overrun"}
      BY <1>3, <2>1, <2>4 DEF Seen
    <3>2. Text!Edited(newsize) \/ Text!EditedRaw(newsize)
      BY <1>5, <2>1, <2>4, <3>1, SeenLive DEF Text!Edited, Text!EditedRaw
    <3> QED BY <3>2 DEF Edit
  <2> QED BY <2>2, <2>3, <2>4, SeenLive
<1> QED BY <1>4, <1>5 DEF Store

(* So is a shift, whose wrapped sums are the true lengths. *)
LEMMA ShiftEdits ==
  \A n \in Nat, newsize \in 0..MaxSize :
    /\ IInv /\ Live
    /\ n = newsize - size \/ n = SizeMod + newsize - size
    /\ Shift(n)
    => Edit
<1> SUFFICES ASSUME NEW n \in Nat, NEW newsize \in 0..MaxSize, IInv, Live,
                    n = newsize - size \/ n = SizeMod + newsize - size,
                    Shift(n)
             PROVE  Edit
  OBVIOUS
<1>1. MaxSize \in Nat /\ size \in 0..MaxSize
  BY SizeAssumption DEF IInv, TypeOK
<1>2. Wrap(size + n) = newsize /\ ShiftRoom(n) = newsize + 1
  BY <1>1, ShiftWraps DEF ShiftRoom
<1>3. Store(newsize + 1, newsize, newsize + 1, newsize) /\ newsize + 1 \in Nat
  BY <1>1, <1>2 DEF Shift
<1> QED BY <1>1, <1>3, StoreEdits

(* The NUL that is written without asking for room lands inside a string.    *)
LEMMA TerminateEdits ==
  ASSUME IInv, Live, Terminate
  PROVE  Edit
<1>1. /\ 0 <= nmem /\ size \in 0..MaxSize /\ MaxSize \in Nat /\ nmem \in Nat
      /\ cap \in Nat
  BY SizeAssumption DEF IInv, TypeOK
<1>2. /\ UNCHANGED block /\ size' = size /\ rc' = "ok" /\ st' = "live"
      /\ fault' = Written(size + 1) /\ nul' = Nul(fault' = "none")
  BY <1>1 DEF Terminate, Store, Room, NoRoom, Live
<1>3. CASE heap = "failed"
  <2>1. Seen' \in {"lost", "overrun"}
    BY <1>2, <1>3 DEF Seen, block
  <2>2. Text!EditedLost(size)
    BY <1>2, <1>3, <2>1, SeenLive DEF Text!EditedLost
  <2> QED BY <1>1, <2>2 DEF Edit
<1>4. CASE heap = "good" /\ IsString
  <2>1. fault' = "none" /\ nul' = "set"
    BY <1>1, <1>2, <1>4 DEF Written, IsString, Nul, block
  <2>2. Seen' = "string"
    BY <1>2, <1>4, <2>1 DEF Seen, IsString, block
  <2>3. Text!Edited(size)
    BY <1>2, <1>4, <2>2, SeenLive DEF Text!Edited
  <2> QED BY <1>1, <2>3 DEF Edit
<1>5. CASE heap = "good" /\ ~ IsString
  <2>1. Seen' \in {"string", "raw", "overrun"}
    BY <1>2, <1>5 DEF Seen, block
  <2>2. Text!Edited(size) \/ Text!EditedRaw(size)
    BY <1>2, <1>5, <2>1, SeenLive DEF Text!Edited, Text!EditedRaw
  <2> QED BY <1>1, <2>2 DEF Edit
<1> QED BY <1>3, <1>4, <1>5, SeenLive

-----------------------------------------------------------------------------
(* Making a buffer: with no room at all it is no string yet. *)
LEMMA CreateRefines ==
  ASSUME NEW n \in NAllocs, IInv, Create(n)
  PROVE  Text!Create
<1>1. st = "none" /\ Seen = "none" /\ size' = size /\ heap' = heap /\ fault' = fault
  BY DEF Create, Seen
<1>2. CASE st' = "live"
  <2>1. Seen' \in {"string", "raw", "overrun", "lost"} /\ rc' = "ok"
    BY <1>2 DEF Seen, Create
  <2>2. fault' = "none" /\ heap' = "good"
    BY <1>1 DEF IInv, StartInv
  <2> QED BY <1>1, <1>2, <2>1, <2>2 DEF Text!Create, Seen
<1>3. CASE st' = "gone"
  BY <1>1, <1>3 DEF Text!Create, Seen, Create
<1> QED BY <1>2, <1>3 DEF Create

(* A compaction, whatever it leaves in bo->nmem. *)
LEMMA CompactRefines ==
  \A stated \in Nat : IInv /\ Compact(stated) => Text!Compact
<1> SUFFICES ASSUME NEW stated \in Nat, IInv, Compact(stated) PROVE Text!Compact
  OBVIOUS
<1>1. Live /\ st' = "live" /\ fault' = "none" /\ size' = size /\ rc' \in {"ok", "err"}
  BY DEF Compact, Live
<1>2. CASE heap = "failed"
  <2>1. heap' = "failed"
    BY <1>2 DEF Compact
  <2>2. Seen = "lost" /\ Seen' = "lost"
    BY <1>1, <1>2, <2>1, SeenLive DEF Seen
  <2> QED BY <1>1, <2>2 DEF Text!Compact
<1>3. CASE heap = "good" /\ heap' = "failed"
  <2>1. Seen' = "lost" /\ rc' = "ok"
    BY <1>1, <1>3 DEF Seen, Compact
  <2> QED BY <1>1, <1>3, <2>1, SeenLive DEF Text!Compact
<1>4. CASE heap = "good" /\ heap' = "good"
  <2>1. Seen' \in {"string", "raw"}
    BY <1>1, <1>4 DEF Seen
  <2> QED BY <1>1, <1>4, <2>1, SeenLive DEF Text!Compact
<1>5. heap' \in {heap, "failed"}
  BY DEF Compact
<1> QED BY <1>1, <1>2, <1>3, <1>4, <1>5, SeenLive

(* Every step of the buffer is a step of the text, or is not seen. *)
LEMMA NextRefines ==
  IInv /\ [Next]_vars => [Text!Next]_Text!vars
<1> SUFFICES ASSUME IInv, [Next]_vars PROVE [Text!Next]_Text!vars
  OBVIOUS
<1> USE SizeAssumption
<1>0. size \in 0..MaxSize /\ MaxSize \in Nat /\ SizeMod \in Nat
  BY DEF IInv, TypeOK
<1>e. Edit => Text!Next
  BY DEF Edit, Text!Next
<1>1. CASE UNCHANGED vars
  BY <1>1 DEF vars, Text!vars, Seen, IsString
<1>2. ASSUME NEW n \in NAllocs, Create(n) PROVE Text!Next
  BY <1>2, CreateRefines DEF Text!Next
<1>3. ASSUME NEW n \in NAllocs, SetNAllocSize(n) PROVE UNCHANGED Text!vars
  BY <1>3 DEF SetNAllocSize, Text!vars, Seen, IsString
<1>4. CASE Destroy
  <2>1. Seen \in {"string", "raw", "lost"} /\ Seen' = "gone"
    BY <1>4, SeenLive DEF Destroy, Seen
  <2> QED BY <1>4, <2>1 DEF Destroy, Text!Next, Text!Destroy
<1>5. CASE Compaction \/ StrCompaction
  <2>1. Bytes * size \in Nat
    BY <1>0, ScaleUp
  <2>2. Text!Compact
    BY <1>5, <2>1, CompactRefines
       DEF Compaction, StrCompaction, CompactionStates, StrCompactionStates, Tight
  <2> QED BY <2>2 DEF Text!Next
<1>6. CASE StrChrCat
  <2>1. Store(size + 2, size + 1, size + 2, size) /\ Live /\ size + 1 <= MaxSize
    BY <1>6 DEF StrChrCat, ChrRoom
  <2>2. size + 2 \in Nat /\ size + 1 \in 0..MaxSize
    BY <1>0, <2>1
  <2> QED BY <1>0, <1>e, <2>1, <2>2, StoreEdits
<1>7. ASSUME NEW len \in Lens, StrSet(len) \/ StrNSet(len) PROVE Edit
  <2>1. /\ len \in 0..MaxSize /\ nmem \in Nat /\ nalloc \in Nat /\ Live
        /\ Store(len + 1, len, Promised(len + 1), size)
    BY <1>0, <1>7, LensAssumption DEF StrSet, StrNSet, TextRoom, IInv, TypeOK
  <2>2. len + 1 \in Nat /\ Promised(len + 1) \in Nat
    BY <1>0, <2>1, GrownHolds DEF Promised
  <2> QED BY <1>0, <2>1, <2>2, StoreEdits
<1>8. ASSUME NEW len \in Lens, StrCat(len) \/ StrNCat(len) PROVE Edit
  <2>1. /\ len \in Nat /\ Live /\ size + len \in 0..MaxSize
        /\ Store(size + len + 1, size + len, size + len + 1, size)
    BY <1>0, <1>8, LensAssumption DEF StrCat, StrNCat, TextRoom
  <2>2. size + len + 1 \in Nat
    BY <1>0, <2>1
  <2> QED BY <1>0, <2>1, <2>2, StoreEdits
<1>9. ASSUME NEW len \in Lens, StrShiftRight(len) PROVE Edit
  <2>1. len \in Nat /\ size + len \in 0..MaxSize /\ Live /\ Shift(len)
    BY <1>0, <1>9, LensAssumption DEF StrShiftRight
  <2>2. len = (size + len) - size
    BY <1>0, <2>1
  <2> QED BY <2>1, <2>2, ShiftEdits
<1>10. ASSUME NEW k \in Lens, StrShiftLeft(k) PROVE Edit
  <2>1. k \in 1..size /\ Live /\ Shift(SizeMod - k)
    BY <1>10 DEF StrShiftLeft
  <2>2. /\ size - k \in 0..MaxSize /\ SizeMod - k \in Nat
        /\ SizeMod - k = SizeMod + (size - k) - size
    BY <1>0, <2>1
  <2> QED BY <2>1, <2>2, ShiftEdits
<1>11. ASSUME NEW len \in Lens, StrInsert(len) PROVE Edit
  <2>1. /\ len \in Nat /\ size + len \in 0..MaxSize /\ Live
        /\ Shift(len) \/ Terminate
    BY <1>0, <1>11, LensAssumption DEF StrInsert
  <2>2. len = (size + len) - size
    BY <1>0, <2>1
  <2> QED BY <2>1, <2>2, ShiftEdits, TerminateEdits
<1>12. ASSUME NEW rlen \in Lens, NEW len \in Lens, StrReplaceFromTo(rlen, len)
       PROVE  Edit
  <2>1. /\ len \in Nat /\ rlen \in 1..size /\ Live
        /\ size - rlen + len \in 0..MaxSize
        /\ Shift(Diff(len, rlen)) \/ Terminate
    BY <1>0, <1>12, LensAssumption DEF StrReplaceFromTo
  <2>2. /\ Diff(len, rlen) \in Nat
        /\ \/ Diff(len, rlen) = (size - rlen + len) - size
           \/ Diff(len, rlen) = SizeMod + (size - rlen + len) - size
    BY <1>0, <2>1 DEF Diff
  <2> QED BY <2>1, <2>2, ShiftEdits, TerminateEdits
<1> QED BY <1>e, <1>1, <1>2, <1>3, <1>4, <1>5, <1>6, <1>7, <1>8, <1>9, <1>10,
           <1>11, <1>12 DEF Next

(* A kBuffer_t is a text: from its creation, through every call, where a      *)
(* shift has padding 1.                                                       *)
THEOREM Refinement == Spec => ImplementsText
<1>1. Init => Text!Init
  BY DEF Init, Text!Init, Seen
<1> QED BY <1>1, NextRefines, Invariant, PTL DEF Spec, ImplementsText, Text!Spec
================================================================================
