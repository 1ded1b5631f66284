------------------------------- MODULE CurlWrap -------------------------------
(***************************************************************************)
(* The HTTP client of src/curlw.c.  Its query is a hash table whose keys,   *)
(* and whose values unless they are escaped, stay in the caller's memory;   *)
(* its options live in the curl handle from one request to the next; and    *)
(* its response goes into a kBuffer_t, which is module Buffer with, added    *)
(* here, what its bytes are.  Texts are abstract; the bytes of all responses *)
(* are numbered as curl delivers them, 1, 2, ...                             *)
(***************************************************************************)
EXTENDS Naturals, Sequences

CONSTANTS Texts,     \* the keys and values of queries
          Bufs,      \* the caller's strings
          Null,      \* a NULL value; "no text"
          Lens,      \* the lengths of the pieces of a response
          MaxSize,   \* bound: the bytes received in all
          MaxReqs    \* bound: the requests made

ASSUME NamesAssumption == Null \notin Texts \cup Bufs /\ Texts \cap Bufs = {}
ASSUME LensAssumption == Lens \subseteq Nat /\ MaxSize \in Nat /\ MaxReqs \in Nat

VARIABLES
  pc,       \* "none", "idle", "perform" inside curl_easy_perform(), "gone"
  text,     \* what the caller's strings hold
  entries,  \* cw->query: the hash, key pointer and value of each entry
  set,      \* history: the value the caller gave each key, Null if none
  reused,   \* history: "yes" once the caller overwrote a string in the table
  method,   \* CURLOPT_POST of the handle: "GET", or "POST" with a body
            \* (CURLOPT_POSTFIELDS) in a pool that is destroyed by then
  asked,    \* history: what the last request was to be, "none", "GET", "POST"
  url,      \* the query part of cw->url: "none", "garbage", or the
            \* "pairs" of entries at the time of the request
  ec,       \* cw->ec: "SUCCESS" or "error"
  reqs,     \* the number of requests made
  sent,     \* history: how many bytes curl passed to the callback
  rcvd,     \* bo->mem[0 .. size - 1]: each byte's number, 0 for a stray one
  st, mem, cap, nmem, size, nalloc, nul, slack, heap, fault, rc  \* cw->rcvd

B == INSTANCE Buffer WITH Bytes <- 1, NAllocs <- {0}, SizeMod <- 2 * MaxSize + 3

bufVars == <<st, mem, cap, nmem, size, nalloc, nul, slack, heap, fault, rc>>
queryVars == <<entries, set, reused>>
handleVars == <<method, asked, url, reqs>>
respVars == <<sent, rcvd, bufVars>>
vars == <<pc, text, queryVars, handleVars, ec, respVars>>

Init ==
  /\ pc = "none" /\ text \in [Bufs -> Texts]
  /\ entries = {} /\ set = [t \in Texts |-> Null] /\ reused = "no"
  /\ method = "GET" /\ asked = "none" /\ url = "none" /\ reqs = 0
  /\ ec = "SUCCESS"
  /\ sent = 0 /\ rcvd = <<>>
  /\ B!Init

-----------------------------------------------------------------------------
(* kahanaCurlWrapCreate: the pool, the buffer and the handle, each of which *)
(* may fail and takes what was there before with it.                        *)
Create ==
  /\ pc = "none"
  /\ B!Create(0)
  /\ pc' \in (IF st' = "live" THEN {"idle", "gone"} ELSE {"gone"})
  /\ UNCHANGED <<text, queryVars, handleVars, ec, sent, rcvd>>

(* CurlWrapDestroy, after the cleanup of the buffer's pool. *)
Destroy ==
  /\ pc = "idle"
  /\ B!Destroy
  /\ pc' = "gone" /\ entries' = {}
  /\ UNCHANGED <<text, set, reused, handleVars, ec, sent, rcvd>>

(* The caller writes another text into a string of its own. *)
CallerWrites(b, t) ==
  /\ pc = "idle" /\ t # text[b]
  /\ text' = [text EXCEPT ![b] = t]
  /\ reused' = IF \E e \in entries : e.key = b \/ e.val = b THEN "yes" ELSE reused
  /\ UNCHANGED <<pc, entries, set, handleVars, ec, respVars>>

-----------------------------------------------------------------------------
(* What an entry's value reads as: a copy, or the caller's string. *)
ValueOf(e) == IF e.val \in Bufs THEN text[e.val] ELSE e.val

(* Mutant of Matches: the keys are compared by address. *)
MutMatchesAddress(e, key) == e.key = key

(* apr_hash_set() and apr_hash_get() compare the hash computed when the     *)
(* entry was made, and then the texts.                                      *)
Matches(e, key) == e.hash = text[key] /\ text[e.key] = text[key]

(* Mutant of Stored: a NULL value is stored, and does not delete. *)
MutStoredNull(key, val) ==
  {e \in entries : ~Matches(e, key)} \cup {[hash |-> text[key], key |-> key, val |-> val]}

(* apr_hash_set(): an entry that matches keeps its key's address.           *)
Stored(key, val) ==
  LET old == {e \in entries : Matches(e, key)}
  IN  IF val = Null THEN entries \ old
      ELSE IF old # {} THEN (entries \ old) \cup {[e EXCEPT !.val = val] : e \in old}
      ELSE entries \cup {[hash |-> text[key], key |-> key, val |-> val]}

(* kahanaCurlWrapSetQuery. An escaped value is copied into the pool; *)
(* without a key nothing is set. *)
SetQuery(key, val, escape) ==
  /\ pc = "idle"
  /\ \/ /\ key = Null /\ ec' = "SUCCESS" /\ UNCHANGED <<entries, set>>
     \/ /\ key # Null
        /\ entries' = Stored(key, IF escape = "yes" /\ val # Null THEN text[val] ELSE val)
        /\ set' = [set EXCEPT ![text[key]] = IF val = Null THEN Null ELSE text[val]]
        /\ ec' = "SUCCESS"
     \/ /\ key # Null /\ escape = "yes" /\ val # Null      \* curl_easy_escape() fails
        /\ ec' = "error"
        /\ UNCHANGED <<entries, set>>
  /\ UNCHANGED <<pc, text, reused, handleVars, respVars>>

-----------------------------------------------------------------------------
Pairs == {<<text[e.key], ValueOf(e)>> : e \in entries}

(* `query++' skips the first "&"; the empty query has none, and what follows *)
(* its NUL is read.                                                          *)
Query == IF entries = {} THEN "garbage" ELSE "pairs"

(* kahanakCurlWrapRequest up to curl_easy_perform(). A POST sets the handle  *)
(* to POST for good, with a body whose pool is destroyed at once; a GET      *)
(* sets the URL only.                                                        *)
Request(post) ==
  /\ pc = "idle" /\ reqs < MaxReqs
  /\ \/ /\ pc' = "perform" /\ reqs' = reqs + 1
        /\ ec' = "SUCCESS"
        /\ asked' = post
        /\ IF post = "POST"
           THEN method' = "POST" /\ url' = "none"
           ELSE url' = Query /\ UNCHANGED method
     \/ /\ ec' = "error"      \* apr_pool_create() fails
        /\ UNCHANGED <<pc, handleVars>>
  /\ UNCHANGED <<text, queryVars, respVars>>

(* Mutant of Offset: the piece replaces the text, as kahanaBufStrNSet does. *)
MutOffsetStart == 0

(* Where kahanaBufStrNCat puts a piece: at bo->mem + bo->size. *)
Offset == size

(* The bytes of the text once kahanaBufStrNCat returns.  realloc() keeps what *)
(* the block held; when it fails, the block and its bytes are lost, and the  *)
(* next block is given out with whatever it holds.                           *)
BytesWith(len) ==
  [i \in 1..size' |->
     IF mem' # "block" THEN 0
     ELSE IF i \in Offset + 1..Offset + len THEN sent + (i - Offset)
     ELSE IF i <= size THEN rcvd[i] ELSE 0]

(* cbCurlWrapReceive: the result of kahanaBufStrNCat is not looked at, so    *)
(* that curl goes on when the buffer could not grow and lost what it held.   *)
Receive(len) ==
  /\ pc = "perform" /\ sent + len <= MaxSize
  /\ B!StrNCat(len)
  /\ sent' = sent + len
  /\ rcvd' = BytesWith(len)
  /\ UNCHANGED <<pc, text, queryVars, handleVars, ec>>

(* curl_easy_perform() returns. *)
Performed ==
  /\ pc = "perform"
  /\ pc' = "idle"
  /\ ec' \in {ec, "error"}
  /\ UNCHANGED <<text, queryVars, handleVars, respVars>>

(* After a write outside the buffer the program has no defined behaviour. *)
Next ==
  /\ fault = "none"
  /\ \/ Create \/ Destroy \/ Performed
     \/ \E b \in Bufs, t \in Texts : CallerWrites(b, t)
     \/ \E key, val \in Bufs \cup {Null}, escape \in {"yes", "no"} : SetQuery(key, val, escape)
     \/ \E post \in {"GET", "POST"} : Request(post)
     \/ \E len \in Lens : Receive(len)

Spec == Init /\ [][Next]_vars

-----------------------------------------------------------------------------
(* Every variable stays in its range. *)
TypeOK ==
  /\ pc \in {"none", "idle", "perform", "gone"} /\ text \in [Bufs -> Texts]
  /\ \A e \in entries : e.hash \in Texts /\ e.key \in Bufs /\ e.val \in Bufs \cup Texts
  /\ set \in [Texts -> Texts \cup {Null}] /\ reused \in {"no", "yes"}
  /\ method \in {"GET", "POST"}
  /\ asked \in {"none", "GET", "POST"}
  /\ url \in {"none", "garbage", "pairs"} /\ reqs \in 0..MaxReqs
  /\ ec \in {"SUCCESS", "error"}
  /\ sent \in 0..MaxSize /\ rcvd \in [1..size -> 0..sent]
  /\ B!TypeOK

(* As long as the caller leaves alone the strings it passed, the query is    *)
(* what it set last for each key, whichever of its strings it used.          *)
QueryAsSet ==
  pc \in {"idle", "perform"} /\ reused = "no" =>
     Pairs = {<<t, set[t]>> : t \in {u \in Texts : set[u] # Null}}

(* Unless memory ran out the buffer holds every byte curl delivered, in      *)
(* order, those of failed requests included.  Once it ran out, which curl is *)
(* not told, the end of the text still is the end of what was delivered,     *)
(* without a gap: only a beginning is lost, and stray bytes stand for it.    *)
ReceivedInOrder ==
  /\ heap = "good" => rcvd = [i \in 1..sent |-> i]
  /\ \A i \in 1..size : rcvd[i] \in {0, sent - (size - i)}
  /\ \A i, j \in 1..size : i < j /\ rcvd[j] = 0 => rcvd[i] = 0

(* A request that was not to be a POST is not sent as one.                    *)
GetIsGet == pc = "perform" /\ asked = "GET" => method = "GET"
=============================================================================
