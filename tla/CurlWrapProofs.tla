----------------------------- MODULE CurlWrapProofs -----------------------------
(* The HTTP client, proved for every set of texts, of the caller's strings    *)
(* and of piece lengths: its query is what was set, its response what was     *)
(* received, and its buffer is used as module Buffer says a caller uses one,  *)
(* so that what is proved of a buffer holds of this one.                     *)
EXTENDS CurlWrap, TLAPS

BP == INSTANCE BufferProofs WITH Bytes <- 1, NAllocs <- {0}, SizeMod <- 2 * MaxSize + 3

(* The client uses its kBuffer_t as module Buffer says its callers do: every   *)
(* step of the client is a call of the buffer, or leaves it alone.            *)
THEOREM UsesBuffer == Spec => BP!Spec
<1>1. Init => BP!Init
  BY DEF Init, B!Init, BP!Init
<1>2. [Next]_vars => [BP!Next]_(BP!vars)
  <2> SUFFICES ASSUME [Next]_vars, bufVars' # bufVars PROVE BP!Next
    BY DEF bufVars, BP!vars
  <2>1. CASE Create
    BY <2>1 DEF Create, B!Create, B!Nul, BP!Next, BP!Create, BP!Nul
  <2>2. CASE Destroy
    BY <2>2 DEF Destroy, B!Destroy, B!Live, BP!Next, BP!Destroy, BP!Live
  <2>3. ASSUME NEW len \in Lens, Receive(len) PROVE BP!Next
    <3>1. B!StrNCat(len) = BP!StrNCat(len)
      BY DEF B!StrNCat, B!StrCat, B!Live, B!Store, B!TextRoom, B!Room, B!NoRoom, B!block, B!Promised, B!Grown,
             B!Written, B!Nul,
             BP!StrNCat, BP!StrCat, BP!Live, BP!Store, BP!TextRoom, BP!Room, BP!NoRoom, BP!block,
             BP!Promised, BP!Grown, BP!Written, BP!Nul
    <3> QED BY <2>3, <3>1 DEF Receive, BP!Next
  <2> QED BY <2>1, <2>2, <2>3 DEF Next, vars, respVars, Performed, CallerWrites, SetQuery, Request
<1> QED BY <1>1, <1>2, PTL DEF Spec, BP!Spec

LEMMA BufferInvariant == Spec => []BP!IInv
<1>1. BP!BytesAssumption /\ BP!NAllocsAssumption /\ BP!LensAssumption /\ BP!SizeAssumption
  BY LensAssumption DEF BP!BytesAssumption, BP!NAllocsAssumption, BP!LensAssumption, BP!SizeAssumption
<1>2. BP!Spec => []BP!IInv
  BY <1>1, BP!Invariant
<1> QED BY UsesBuffer, <1>2, PTL

-----------------------------------------------------------------------------
(* The variables the buffer does not have. *)
ClientTypes ==
  /\ pc \in {"none", "idle", "perform", "gone"} /\ text \in [Bufs -> Texts]
  /\ entries \subseteq [hash : Texts, key : Bufs, val : Bufs \cup Texts]
  /\ set \in [Texts -> Texts \cup {Null}] /\ reused \in {"no", "yes"}
  /\ method \in {"GET", "POST"} /\ asked \in {"none", "GET", "POST"}
  /\ url \in {"none", "garbage", "pairs"} /\ reqs \in 0..MaxReqs
  /\ ec \in {"SUCCESS", "error"}
  /\ sent \in 0..MaxSize

(* The bytes in the buffer are the last ones that came, without a gap, behind *)
(* stray ones if memory ran out.                                             *)
BytesInv ==
  /\ size <= sent /\ rcvd \in [1..size -> 0..sent]
  /\ \A i \in 1..size : rcvd[i] \in {0, sent - (size - i)}
  /\ \A i, j \in 1..size : i < j /\ rcvd[j] = 0 => rcvd[i] = 0
  /\ heap = "good" => size = sent /\ \A i \in 1..size : rcvd[i] = i

(* Responses come during a request, into a buffer that is not written past.   *)
ReceiveInv ==
  /\ pc = "perform" => reqs > 0
  /\ pc = "none" <=> st = "none"
  /\ size \in Nat /\ BytesInv
  /\ st = "live" /\ heap = "good" /\ slack = "none" => nmem = 0
  /\ heap = "good" => fault = "none"

(* As long as no string in the table was overwritten, an entry's hash is its   *)
(* key's, no two have the same, and each value reads as what was set last.    *)
QueryInv ==
  pc # "gone" /\ reused = "no" =>
    /\ \A e \in entries : e.hash = text[e.key] /\ ValueOf(e) = set[e.hash]
    /\ \A e, f \in entries : e.hash = f.hash => e = f
    /\ \A t \in Texts : set[t] # Null => \E e \in entries : e.hash = t

IInv == ClientTypes /\ ReceiveInv /\ QueryInv

LEMMA InitHolds == Init => IInv
<1> SUFFICES ASSUME Init PROVE IInv
  OBVIOUS
<1>1. ClientTypes
  BY LensAssumption DEF Init, ClientTypes
<1>2. ReceiveInv /\ QueryInv
  BY DEF Init, B!Init, ReceiveInv, BytesInv, QueryInv
<1> QED BY <1>1, <1>2 DEF IInv

(* What the table holds of the caller's strings is as it was, since none of   *)
(* them was in it.                                                           *)
LEMMA CallerWritesKeeps ==
  ASSUME NEW b \in Bufs, NEW t \in Texts, IInv, CallerWrites(b, t)
  PROVE  IInv'
<1> USE DEF CallerWrites, respVars, bufVars, handleVars
<1>1. ClientTypes'
  BY DEF IInv, ClientTypes
<1>2. ReceiveInv'
  BY DEF IInv, ReceiveInv, BytesInv
<1>3. QueryInv'
  <2> SUFFICES ASSUME reused' = "no" PROVE QueryInv'
    BY DEF QueryInv
  <2>1. reused = "no" /\ pc = "idle" /\ \A e \in entries : e.key # b /\ e.val # b
    OBVIOUS
  <2>2. \A e \in entries : e.key \in Bufs /\ text'[e.key] = text[e.key]
    BY <2>1 DEF IInv, ClientTypes
  <2>3. \A e \in entries : ValueOf(e)' = ValueOf(e)
    BY <2>1 DEF IInv, ClientTypes, ValueOf
  <2> QED BY <2>1, <2>2, <2>3 DEF IInv, QueryInv
<1> QED BY <1>1, <1>2, <1>3 DEF IInv

(* apr_hash_set() replaces, adds or deletes the entry of one key's text. *)
LEMMA StoredHolds ==
  ASSUME IInv, NEW key \in Bufs, NEW val \in Bufs \cup Texts \cup {Null},
         pc = "idle", reused = "no"
  PROVE  /\ Stored(key, val) \subseteq [hash : Texts, key : Bufs, val : Bufs \cup Texts]
         /\ \A e \in Stored(key, val) :
               \/ e \in entries /\ e.hash # text[key]
               \/ e.hash = text[key] /\ text[e.key] = text[key] /\ e.val = val /\ val # Null
         /\ \A e \in entries : e.hash # text[key] => e \in Stored(key, val)
         /\ val # Null => \E e \in Stored(key, val) : e.hash = text[key]
         /\ \A e, f \in Stored(key, val) : e.hash = f.hash => e = f
<1> DEFINE old == {e \in entries : Matches(e, key)}
           T == [hash : Texts, key : Bufs, val : Bufs \cup Texts]
<1>1. text[key] \in Texts /\ entries \subseteq T
  BY DEF IInv, ClientTypes
<1>2. old = {e \in entries : e.hash = text[key]}
  BY DEF Matches, IInv, QueryInv
<1>3. \A e, f \in entries : e.hash = f.hash => e = f
  BY DEF IInv, QueryInv
<1>4. CASE val = Null
  <2>1. Stored(key, val) = entries \ old
    BY <1>4 DEF Stored
  <2> QED BY <1>1, <1>2, <1>3, <1>4, <2>1
<1>5. CASE val # Null /\ old # {}
  <2>1. PICK o \in old : old = {o}
    BY <1>2, <1>3, <1>5
  <2> DEFINE new == [o EXCEPT !.val = val]
  <2>2. Stored(key, val) = (entries \ old) \cup {new}
    BY <1>5, <2>1 DEF Stored
  <2>3. /\ new \in T /\ new.hash = text[key] /\ new.val = val
        /\ text[new.key] = text[key]
    BY <1>1, <1>2, <1>5, <2>1 DEF IInv, QueryInv
  <2> HIDE DEF new
  <2> QED BY <1>1, <1>2, <1>3, <1>5, <2>2, <2>3
<1>6. CASE val # Null /\ old = {}
  <2> DEFINE new == [hash |-> text[key], key |-> key, val |-> val]
  <2>1. Stored(key, val) = entries \cup {new}
    BY <1>6 DEF Stored
  <2>2. new \in T /\ new.hash = text[key] /\ new.val = val /\ new.key = key
    BY <1>1, <1>6
  <2> HIDE DEF new
  <2> QED BY <1>1, <1>2, <1>3, <1>6, <2>1, <2>2
<1> QED BY <1>4, <1>5, <1>6

LEMMA StoredInRange ==
  ASSUME IInv, NEW key \in Bufs, NEW val \in Bufs \cup Texts \cup {Null}
  PROVE  Stored(key, val) \subseteq [hash : Texts, key : Bufs, val : Bufs \cup Texts]
<1> DEFINE T == [hash : Texts, key : Bufs, val : Bufs \cup Texts]
<1>1. text[key] \in Texts /\ entries \subseteq T
  BY DEF IInv, ClientTypes
<1>2. CASE val = Null
  BY <1>1, <1>2 DEF Stored
<1>3. CASE val # Null
  <2> DEFINE old == {e \in entries : Matches(e, key)}
             new == [hash |-> text[key], key |-> key, val |-> val]
  <2>1. \A e \in T : [e EXCEPT !.val = val] \in T
    BY <1>3
  <2>2. new \in T
    BY <1>1, <1>3
  <2>3. Stored(key, val) = IF old # {} THEN (entries \ old) \cup {[e EXCEPT !.val = val] : e \in old}
                           ELSE entries \cup {new}
    BY <1>3 DEF Stored
  <2>4. old \subseteq T
    BY <1>1
  <2> HIDE DEF T, old, new
  <2>5. {[e EXCEPT !.val = val] : e \in old} \subseteq T
    BY <2>1, <2>4
  <2>6. Stored(key, val) \subseteq T
    BY <1>1, <2>2, <2>3, <2>5
  <2> QED BY <2>6 DEF T
<1> QED BY <1>2, <1>3

LEMMA SetQueryKeeps ==
  ASSUME NEW key \in Bufs \cup {Null}, NEW val \in Bufs \cup {Null}, NEW escape \in {"yes", "no"},
         IInv, SetQuery(key, val, escape)
  PROVE  IInv'
<1> USE DEF SetQuery, respVars, bufVars, handleVars
<1>1. ReceiveInv'
  BY DEF IInv, ReceiveInv, BytesInv
<1>2. CASE UNCHANGED <<entries, set>>
  <2>1. ClientTypes'
    BY <1>2 DEF IInv, ClientTypes
  <2>2. QueryInv'
    BY <1>2 DEF IInv, QueryInv, ValueOf
  <2> QED BY <1>1, <2>1, <2>2 DEF IInv
<1>3. CASE ~ UNCHANGED <<entries, set>>
  <2> DEFINE v == IF escape = "yes" /\ val # Null THEN text[val] ELSE val
             told == IF val = Null THEN Null ELSE text[val]
  <2>1. /\ key \in Bufs /\ ec' = "SUCCESS"
        /\ entries' = Stored(key, v) /\ set' = [set EXCEPT ![text[key]] = told]
    BY <1>3
  <2>2. /\ text[key] \in Texts /\ v \in Bufs \cup Texts \cup {Null} /\ told \in Texts \cup {Null}
        /\ v = Null <=> told = Null
        /\ v # Null => told = IF v \in Bufs THEN text[v] ELSE v
    BY <2>1, NamesAssumption DEF IInv, ClientTypes
  <2> HIDE DEF v, told
  <2>3. Stored(key, v) \subseteq [hash : Texts, key : Bufs, val : Bufs \cup Texts]
    BY <2>1, <2>2, StoredInRange
  <2>4. ClientTypes'
    BY <2>1, <2>2, <2>3 DEF IInv, ClientTypes
  <2>5. QueryInv'
    <3> SUFFICES ASSUME reused = "no" PROVE QueryInv'
      BY DEF QueryInv
    <3> DEFINE S == Stored(key, v)
    <3>1. /\ \A e \in S :
               \/ e \in entries /\ e.hash # text[key]
               \/ e.hash = text[key] /\ text[e.key] = text[key] /\ e.val = v /\ v # Null
          /\ \A e \in entries : e.hash # text[key] => e \in S
          /\ v # Null => \E e \in S : e.hash = text[key]
          /\ \A e, f \in S : e.hash = f.hash => e = f
      BY <2>1, <2>2, StoredHolds
    <3>2. entries' = S /\ text' = text
      BY <2>1
    <3> HIDE DEF S
    <3>3. \A t \in Texts : set'[t] = IF t = text[key] THEN told ELSE set[t]
      BY <2>1, <2>2 DEF IInv, ClientTypes
    <3>4. \A e \in entries : e.hash \in Texts /\ e.hash = text[e.key] /\ ValueOf(e) = set[e.hash]
      BY DEF IInv, ClientTypes, QueryInv
    <3>5. \A e \in S : e.hash = text[e.key] /\ ValueOf(e) = set'[e.hash]
      BY <2>2, <3>1, <3>3, <3>4 DEF ValueOf
    <3>6. \A t \in Texts : set'[t] # Null => \E e \in S : e.hash = t
      BY <2>2, <3>1, <3>3 DEF IInv, QueryInv
    <3>7. \A e \in S : ValueOf(e)' = ValueOf(e)
      BY DEF ValueOf
    <3> QED BY <3>1, <3>2, <3>5, <3>6, <3>7 DEF QueryInv
  <2> QED BY <1>1, <2>4, <2>5 DEF IInv
<1> QED BY <1>2, <1>3

(* A piece of len bytes goes behind the text; or the text is lost. *)
LEMMA BytesKeep ==
  ASSUME NEW len \in Nat, BytesInv, size \in Nat, sent \in Nat, len > 0,
         sent' = sent + len, rcvd' = BytesWith(len),
         \/ size' = size + len /\ heap' = heap /\ (heap = "good" => mem' = "block")
         \/ size' = size /\ heap' = "failed" /\ mem' = "NULL"
  PROVE  BytesInv'
<1>1. size' \in Nat /\ size' <= sent'
  BY DEF BytesInv
<1>2. CASE mem' # "block"
  <2>1. \A i \in 1..size' : rcvd'[i] = 0
    BY <1>2 DEF BytesWith
  <2>2. rcvd' \in [1..size' -> 0..sent']
    BY <1>1, <1>2 DEF BytesWith
  <2>3. heap' # "good"
    BY <1>2
  <2> QED BY <1>1, <2>1, <2>2, <2>3 DEF BytesInv
<1>3. CASE mem' = "block"
  <2>1. size' = size + len /\ heap' = heap
    BY <1>3
  <2>2. \A i \in 1..size' : rcvd'[i] = IF i > size THEN sent + (i - size) ELSE rcvd[i]
    BY <1>3, <2>1 DEF BytesWith, Offset
  <2>3. \A i \in 1..size' : rcvd'[i] \in 0..sent'
    BY <2>1, <2>2 DEF BytesInv
  <2>4. rcvd' \in [1..size' -> 0..sent']
    <3>1. \A i \in 1..size' : rcvd'[i] \in 0..sent'
      BY <2>3
    <3>2. rcvd' = [i \in 1..size' |-> rcvd'[i]]
      BY DEF BytesWith
    <3> QED BY <3>1, <3>2
  <2>5. \A i \in 1..size' : rcvd'[i] \in {0, sent' - (size' - i)}
    BY <2>1, <2>2 DEF BytesInv
  <2>6. \A i, j \in 1..size' : i < j /\ rcvd'[j] = 0 => rcvd'[i] = 0
    BY <2>1, <2>2 DEF BytesInv
  <2>7. heap' = "good" => size' = sent' /\ \A i \in 1..size' : rcvd'[i] = i
    BY <2>1, <2>2 DEF BytesInv
  <2> QED BY <1>1, <2>4, <2>5, <2>6, <2>7 DEF BytesInv
<1> QED BY <1>2, <1>3

LEMMA ReceiveKeeps ==
  ASSUME NEW len \in Lens, IInv, BP!IInv, Receive(len)
  PROVE  IInv'
<1>1. /\ pc = "perform" /\ sent + len <= MaxSize /\ sent' = sent + len
      /\ UNCHANGED <<pc, text, queryVars, handleVars, ec>>
      /\ rcvd' = BytesWith(len)
  BY DEF Receive
<1>2. /\ len \in Nat /\ len > 0 /\ st = "live" /\ st' = st
      /\ size \in Nat /\ nmem \in Nat /\ nalloc \in Nat /\ sent \in Nat
  BY LensAssumption DEF IInv, ClientTypes, Receive, B!StrNCat, B!StrCat, B!Live, B!Store, BP!IInv, BP!TypeOK
<1>3. CASE rc' = "ok"
  <2>1. /\ size' = size + len /\ heap' = heap
        /\ \/ slack' = slack /\ nmem' = nmem /\ nmem > 0
           \/ slack' = "some"
    BY <1>2, <1>3 DEF Receive, B!StrNCat, B!StrCat, B!Store, B!TextRoom, B!Room, B!NoRoom, B!block
  <2>2. heap = "good" => fault' = "none"
    <3> SUFFICES ASSUME heap = "good" PROVE fault' = "none"
      OBVIOUS
    <3>1. /\ fault = "none" /\ B!Room(size + len + 1) /\ fault' = B!Written(size + len + 1)
      BY <1>2, <1>3 DEF Receive, B!StrNCat, B!StrCat, B!Live, B!Store, B!TextRoom
    <3>2. CASE size + len + 1 <= nmem
      <4>1. slack # "none" /\ slack' = slack /\ mem' = mem /\ cap' = cap /\ cap \in Nat
        BY <1>2, <3>1, <3>2 DEF B!Room, B!block, IInv, ReceiveInv, BP!IInv, BP!TypeOK
      <4>2. mem = "block" /\ nmem = cap
        BY <1>2, <3>1, <4>1 DEF BP!IInv, BP!TypeOK, BP!LiveInv
      <4> QED BY <1>2, <3>1, <3>2, <4>1, <4>2 DEF B!Written
    <3>3. CASE size + len + 1 > nmem
      <4>1. mem' = "block" /\ cap' = size + len + 1 + nalloc
        BY <1>2, <3>1, <3>3 DEF B!Room, B!Grown
      <4> QED BY <1>2, <3>1, <4>1 DEF B!Written
    <3> QED BY <1>2, <3>2, <3>3
  <2>3. heap = "good" => mem' = "block"
    BY <1>2, <1>3, <2>2 DEF Receive, B!StrNCat, B!StrCat, B!Store, B!Written, B!Room, B!NoRoom, B!block,
                             BP!IInv, BP!TypeOK
  <2>4. BytesInv'
    BY <1>1, <1>2, <2>1, <2>3, BytesKeep DEF IInv, ReceiveInv
  <2>5. ReceiveInv'
    BY <1>1, <1>2, <1>3, <2>1, <2>2, <2>4 DEF IInv, ReceiveInv, handleVars
  <2> QED BY <1>1, <1>2, <2>5, LensAssumption
          DEF IInv, ClientTypes, QueryInv, ValueOf, queryVars, handleVars
<1>4. CASE rc' = "err"
  <2>1. size' = size /\ heap' = "failed" /\ mem' = "NULL"
    BY <1>2, <1>4 DEF Receive, B!StrNCat, B!StrCat, B!Store, B!NoRoom
  <2>2. BytesInv'
    BY <1>1, <1>2, <2>1, BytesKeep DEF IInv, ReceiveInv
  <2>3. ReceiveInv'
    BY <1>1, <1>2, <2>1, <2>2 DEF IInv, ReceiveInv, handleVars
  <2> QED BY <1>1, <1>2, <2>3, LensAssumption
          DEF IInv, ClientTypes, QueryInv, ValueOf, queryVars, handleVars
<1> QED BY <1>3, <1>4 DEF Receive, B!StrNCat, B!StrCat, B!Store

LEMMA StepKeeps == IInv /\ BP!IInv /\ [Next]_vars => IInv'
<1> SUFFICES ASSUME IInv, BP!IInv, [Next]_vars PROVE IInv'
  OBVIOUS
<1> USE DEF queryVars, handleVars, respVars, bufVars
<1>1. CASE UNCHANGED vars
  BY <1>1 DEF vars, IInv, ClientTypes, ReceiveInv, BytesInv, QueryInv, ValueOf
<1>2. CASE Create
  <2>1. /\ pc = "none" /\ st' # "none" /\ pc' \in {"idle", "gone"} /\ UNCHANGED <<heap, size, fault>>
        /\ st' = "live" => nmem' = 1 * 0
    BY <1>2 DEF Create, B!Create
  <2>2. IInv' <=> ClientTypes' /\ ReceiveInv' /\ QueryInv'
    BY DEF IInv
  <2>3. UNCHANGED <<text, queryVars, handleVars, ec, sent, rcvd>>
    BY <1>2 DEF Create
  <2>4. ClientTypes' /\ QueryInv'
    BY <2>1, <2>3 DEF IInv, ClientTypes, QueryInv, ValueOf
  <2>5. ReceiveInv'
    BY <2>1, <2>3 DEF IInv, ReceiveInv, BytesInv
  <2> QED BY <2>4, <2>5 DEF IInv
<1>3. CASE Destroy
  <2>1. pc' = "gone" /\ st' = "gone" /\ entries' = {} /\ UNCHANGED <<size, heap, fault>>
    BY <1>3 DEF Destroy, B!Destroy
  <2> QED BY <1>3, <2>1 DEF Destroy, IInv, ClientTypes, ReceiveInv, BytesInv, QueryInv
<1>4. ASSUME NEW post \in {"GET", "POST"}, Request(post) PROVE IInv'
  <2>1. ClientTypes'
    BY <1>4, LensAssumption DEF Request, Query, IInv, ClientTypes
  <2>2. ReceiveInv'
    BY <1>4 DEF Request, IInv, ClientTypes, ReceiveInv, BytesInv
  <2>3. QueryInv'
    BY <1>4 DEF Request, IInv, QueryInv, ValueOf
  <2> QED BY <2>1, <2>2, <2>3 DEF IInv
<1>5. CASE Performed
  BY <1>5 DEF Performed, IInv, ClientTypes, ReceiveInv, BytesInv, QueryInv, ValueOf
<1> QED BY <1>1, <1>2, <1>3, <1>4, <1>5, CallerWritesKeeps, SetQueryKeeps, ReceiveKeeps DEF Next

LEMMA Invariant == Spec => [](IInv /\ BP!IInv)
BY InitHolds, StepKeeps, BufferInvariant, PTL DEF Spec

(* Every variable stays in its range, those of the client's buffer included. *)
THEOREM TypeCorrect == Spec => []TypeOK
<1>1. IInv /\ BP!IInv => TypeOK
  BY DEF IInv, ClientTypes, ReceiveInv, BytesInv, TypeOK, BP!IInv, BP!TypeOK, B!TypeOK
<1> QED BY <1>1, Invariant, PTL

(* As long as the caller leaves the strings it passed alone, the query is what *)
(* it set last for each key, whichever of its strings it used.               *)
THEOREM QueryIsWhatWasSet == Spec => []QueryAsSet
<1>1. IInv => QueryAsSet
  <2> SUFFICES ASSUME IInv, pc \in {"idle", "perform"}, reused = "no"
               PROVE  Pairs = {<<t, set[t]>> : t \in {u \in Texts : set[u] # Null}}
    BY DEF QueryAsSet
  <2>1. /\ \A e \in entries : /\ e.hash \in Texts /\ e.hash = text[e.key]
                             /\ ValueOf(e) = set[e.hash] /\ ValueOf(e) \in Texts
        /\ \A t \in Texts : set[t] # Null => \E e \in entries : e.hash = t
    BY DEF IInv, ClientTypes, QueryInv, ValueOf
  <2> QED BY <2>1, NamesAssumption DEF Pairs
<1> QED BY <1>1, Invariant, PTL

(* Unless memory ran out the buffer holds every byte received, in order; and  *)
(* if it did, the bytes that are left are the last ones, without a gap.      *)
THEOREM ReceivedIsWhatWasSent == Spec => []ReceivedInOrder
<1>1. IInv => ReceivedInOrder
  <2> SUFFICES ASSUME IInv PROVE ReceivedInOrder
    OBVIOUS
  <2>1. BytesInv
    BY DEF IInv, ReceiveInv
  <2>2. heap = "good" => rcvd = [i \in 1..sent |-> i]
    BY <2>1 DEF BytesInv
  <2> QED BY <2>1, <2>2 DEF ReceivedInOrder, BytesInv
<1> QED BY <1>1, Invariant, PTL

(* cbCurlWrapReceive writes outside its buffer only after a failed realloc(),  *)
(* although a buffer that was given no room could be overrun by its users.   *)
THEOREM NoOverrun == Spec => [](heap = "good" => fault = "none")
<1>1. IInv => (heap = "good" => fault = "none")
  BY DEF IInv, ReceiveInv
<1> QED BY <1>1, Invariant, PTL
================================================================================
