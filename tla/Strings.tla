-------------------------------- MODULE Strings --------------------------------
(***************************************************************************)
(* The loops of src/string.c, and of kahanaBufStrReplace in src/buffer.c,    *)
(* that go through a text from match to match.  A behaviour is one call: its *)
(* arguments are chosen, each round of its loop is a step, and it returns.   *)
(* Texts are sequences of characters and offsets count from 0, as in C.      *)
(*                                                                         *)
(* A pattern of oniguruma is abstracted to the finite set of words that      *)
(* match it, of which the longest is taken at the first place one matches;   *)
(* what strstr() looks for is a set of one word.                             *)
(***************************************************************************)
EXTENDS Integers, Sequences, FiniteSets, FiniteSetsExt, SequencesExt

CONSTANTS CR, LF,     \* the characters of the texts
          MaxSrc,     \* bound: length of the text a call is given
          MaxWord,    \* bound: length of words, markers and replacements
          MaxCount,   \* bound: number of replacements, pieces, extractions
          MaxText,    \* bound: length to which a text may grow
          Null        \* the NULL pointer

ASSUME BoundsAssumption ==
  {MaxSrc + 1, MaxWord, MaxCount} \subseteq 1..MaxText /\ {MaxSrc, MaxText} \subseteq Nat

VARIABLES
  call,    \* the arguments: [fn, src, pat, rep, n, flags]
  text,    \* the result so far: resultStr, or the string in the buffer
  at,      \* offset of the next search: scanSrc, match, start or ptr
  count,   \* rounds, as far as the call has a limit of them
  out,     \* the array of results
  status   \* "idle", "running", "returned", "nothing" (NULL), "failed";
           \* "stale" or "wild" if the pointer has left the text

vars == <<call, text, at, count, out, status>>

Texts(n) == UNION {[1..k -> {CR, LF}] : k \in 0..n}

Init ==
  /\ call = Null /\ text = <<>> /\ at = 0 /\ count = 0 /\ out = <<>>
  /\ status = "idle"

-----------------------------------------------------------------------------
(* Searching, by onig_search() and strstr(): where a word of pat is found at  *)
(* or after offset i of s, and how long it is.  Past the end none is.         *)
At(s, i, w) == i + Len(w) <= Len(s) /\ SubSeq(s, i + 1, i + Len(w)) = w
Places(s, pat, i) == {p \in i..Len(s) : \E w \in pat : At(s, p, w)}
Beg(s, pat, i) == Min(Places(s, pat, i))
Longest(s, pat, p) == Max({Len(w) : w \in {v \in pat : At(s, p, v)}})
Drop(s, k) == SubSeq(s, k + 1, Len(s))
Take(s, k) == SubSeq(s, 1, k)
Cut(s, from, to) == SubSeq(s, from + 1, to)

(* s with its part [from, to) replaced by r *)
Spliced(s, from, to, r) == Take(s, from) \o r \o Drop(s, to)

Src == call.src
Pat == call.pat
Rep == IF call.rep = Null THEN <<>> ELSE call.rep

Running(fn) == status = "running" /\ call.fn = fn
Found(s) == Places(s, Pat, at) # {}

Stop(how) == status' = how /\ UNCHANGED <<call, text, at, count, out>>
Return == Stop("returned")

(* A round that goes on from offset i with what it has made. *)
Round(newtext, i, newout) ==
  /\ Len(newtext) <= MaxText
  /\ text' = newtext /\ at' = i /\ out' = newout
  /\ count' = IF call.n = 0 THEN count ELSE count + 1
  /\ UNCHANGED <<call, status>>

-----------------------------------------------------------------------------
(* kahanaStrReplace.  It searches the string it began with and takes from    *)
(* the new one what is before the place that is as far from the end.         *)
Times(n) == IF n < 0 THEN 1 ELSE n

StrReplace ==
  /\ Running("StrReplace")
  /\ IF call.rep # Null /\ count < Times(call.n) /\ Found(Src)
     THEN LET p == Beg(Src, Pat, at)
              q == p + Longest(Src, Pat, p)
          IN Round(Take(text, Len(text) - (Len(Src) - p)) \o Rep \o Drop(Src, q), q, out)
     ELSE Return

(* Mutant of Resumed: with a limit, too, the shift is added once more. *)
MutResumed(p, len, rlen, n) == IF len = 0 THEN p ELSE p + (len - rlen) + len

(* Mutant of Resumed: the character after a replacement is passed over. *)
MutResumedBehind(p, len, rlen, n) == IF len = 0 THEN p ELSE p + len + 1

(* Where kahanaBufStrReplace looks for the next match: without a limit it    *)
(* adds the shift to its pointer once more.                                  *)
Resumed(p, len, rlen, n) ==
  CASE len = 0            -> p
    [] len # 0 /\ n = 0   -> p + (len - rlen) + len
    [] len # 0 /\ n # 0   -> p + len

(* kahanaBufStrReplace.  To make room BufShift may have to realloc(), which  *)
(* can fail, and can move the block away from under the pointer `match'.     *)
BufReplace ==
  /\ Running("BufReplace")
  /\ \/ /\ call.rep = Null \/ (call.n # 0 /\ count >= call.n) \/ ~ Found(text)
        /\ Return
     \/ /\ call.rep # Null /\ (call.n = 0 \/ count < call.n) /\ Found(text)
        /\ LET p == Beg(text, Pat, at)
               rlen == Longest(text, Pat, p)
               len == Len(Rep)
               next == Spliced(text, p, p + rlen, Rep)
               match == Resumed(p, len, rlen, call.n)
           IN \/ match \in 0..Len(next) /\ Round(next, match, out)
              \/ match \notin 0..Len(next) /\ Stop("wild")
              \/ len > rlen /\ (Stop("failed") \/ Stop("stale"))

(* kahanaStrEOLtoLF, in place: after a CR that is dropped the LF is passed.   *)
(* The overlapping memcpy() is taken to copy forwards.                       *)
EOLtoLF ==
  /\ Running("EOLtoLF")
  /\ \/ at >= Len(text) /\ Return
     \/ /\ at < Len(text)
        /\ LET next == CASE At(text, at, <<CR, LF>>) -> Spliced(text, at, at + 1, <<>>)
                         [] At(text, at, <<CR>>) /\ ~ At(text, at, <<CR, LF>>)
                              -> Spliced(text, at, at + 1, <<LF>>)
                         [] OTHER -> text
           IN Round(next, at + 1, out)

-----------------------------------------------------------------------------
(* kahanaBufStrReplaceFromTo, which leaves an empty match alone.             *)
ReplaceFromTo(s, from, to, r) == IF from < to THEN Spliced(s, from, to, r) ELSE s

(* kahanaStrRegexpReplace: every match, whatever `global' says, and `start'   *)
(* goes on as far behind the place of the match as the replacement is long,  *)
(* behind the end if an empty match there was left alone.  The buffer's block *)
(* may not grow.                                                             *)
RegexpReplace ==
  /\ Running("RegexpReplace")
  /\ LET p == Beg(text, Pat, at)
         q == p + Longest(text, Pat, p)
     IN \/ ~ Found(text) /\ Return
        \/ Found(text) /\ Round(ReplaceFromTo(text, p, q, Rep), p + Len(Rep), out)
        \/ Found(text) /\ p < q /\ Len(Rep) > q - p /\ Stop("failed")

(* kahanaStrRegexpReplaceByCallback gives onig_search() the SIZE of the text  *)
(* as the address of its end: start is behind it, nothing matches, and the    *)
(* callback is never called.                                                 *)
ReplaceByCallback == Running("ReplaceByCallback") /\ Return

(* kahanaStrRegexpMatch and, with no array, kahanaStrRegexpMatchBool. *)
RegexpMatch ==
  /\ Running("RegexpMatch")
  /\ LET p == Beg(Src, Pat, at)
         q == p + Longest(Src, Pat, p)
     IN \/ ~ Found(Src) /\ Return
        \/ /\ Found(Src) /\ Len(out) < MaxText
           /\ at' = q /\ out' = Append(out, Cut(Src, p, q))
           /\ status' = IF "global" \in call.flags THEN "running" ELSE "returned"
           /\ UNCHANGED <<call, text, count>>

(* What kahanaStrRegexpSplit copies at `ps' when the match is at `p': as many *)
(* characters as there are before the match, counted from the start of s.     *)
Piece(s, ps, p) == Take(Drop(s, ps), Min({p, Len(s) - ps}))

(* kahanaStrRegexpSplit into an empty array.  The last piece is as long as    *)
(* the pointer `end' happens to be as an int, and is there only if another    *)
(* one is.                                                                   *)
RegexpSplit ==
  /\ Running("RegexpSplit")
  /\ LET p == Beg(Src, Pat, at)
         q == p + Longest(Src, Pat, p)
     IN \/ /\ Found(Src) /\ (call.n = 0 \/ count < call.n) /\ Len(out) < MaxText
           /\ Round(text, q, IF p # at THEN Append(out, Piece(Src, at, p)) ELSE out)
        \/ /\ ~ Found(Src) \/ (call.n # 0 /\ count >= call.n)
           /\ \E k \in 0..(Len(Src) - at) :
                out' = IF out = <<>> THEN out ELSE Append(out, Take(Drop(Src, at), k))
           /\ status' = "returned"
           /\ UNCHANGED <<call, text, at, count>>

(* onig_search() returns less than ONIG_MISMATCH: the loop ends, what is in   *)
(* the array stays, and the message is returned.                             *)
SearchFails ==
  /\ \E fn \in {"RegexpReplace", "ReplaceByCallback", "RegexpMatch", "RegexpSplit"} : Running(fn)
  /\ Stop("failed")

-----------------------------------------------------------------------------
(* Mutant of ScanOn: with matchAll the end marker is always gone back to. *)
MutScanOn(inside, e, lenEnd) == IF "all" \in call.flags THEN e ELSE e + lenEnd

(* Mutant of ScanOn: it goes on behind the character after the end marker. *)
MutScanPast(inside, e, lenEnd) == e + lenEnd + 1

(* Where kahanaStrExtr goes on: with matchAll an end marker that closed what  *)
(* was extracted may also be a start marker.                                 *)
ScanOn(inside, e, lenEnd) ==
  IF inside # <<>> /\ "all" \in call.flags THEN e ELSE e + lenEnd

(* kahanaStrExtr: what is between the start marker, Pat, and the end, Rep. *)
Extr ==
  /\ Running("Extr")
  /\ LET p == Beg(Src, Pat, at)
         begin == p + Longest(Src, Pat, p)
         ends == IF Found(Src) THEN Places(Src, {Rep}, begin) ELSE {}
         inside == Cut(Src, begin, Min(ends))
         wrapped == IF "inside" \in call.flags THEN inside ELSE Cut(Src, p, Min(ends) + Len(Rep))
         more == ends # {} /\ (call.n = 0 \/ count < call.n)
     IN \/ ~ more /\ Return
        \/ /\ more /\ Len(out) < MaxText
           /\ Round(text, ScanOn(inside, Min(ends), Len(Rep)),
                    IF inside # <<>> \/ "empty" \in call.flags THEN Append(out, wrapped) ELSE out)

(* kahanaStrDeleteOverlap: each word that apr_strtok() cuts at a character    *)
(* of the separator is kept if it is the first of its kind; out is the hash.  *)
(* They are cut from a copy without room for its NUL, which is written behind *)
(* it first: what that does is not defined, and the call may go on as if     *)
(* there were room.                                                          *)
DeleteOverlap ==
  /\ Running("DeleteOverlap")
  /\ LET sep == Rep
         Seps(i) == {k \in i..(Len(Src) - 1) : Src[k + 1] \in ToSet(sep)}
         begins == (at..(Len(Src) - 1)) \ Seps(at)
         b == Min(begins)
         e == Min(Seps(b) \cup {Len(Src)})
         word == Cut(Src, b, e)
     IN \/ at = 0 /\ Stop("wild")
        \/ begins = {} /\ Return
        \/ /\ begins # {}
           /\ IF word \in ToSet(out) THEN Round(text, Min({e + 1, Len(Src)}), out)
              ELSE Round(IF out = <<>> THEN word ELSE text \o sep \o word,
                         Min({e + 1, Len(Src)}), Append(out, word))

-----------------------------------------------------------------------------
(* URIs. Of the characters that matter here "/" is reserved, three are hex    *)
(* digits, and "other" is any that none of the texts begins with.            *)
Digits == {"2", "5", "F"}
UriChars == Digits \cup {"%", "/", "u"}

(* sprintf( "%02X" ) and strtol( , 16 ) *)
Hex(c) == CASE c = "%" -> <<"2", "5">> [] c = "/" -> <<"2", "F">>
CharOf(h) == CASE h = <<"2", "5">> -> "%" [] h = <<"2", "F">> -> "/" [] OTHER -> "other"

(* Mutant of Encoded: "%" is left as it is. *)
MutEncoded(c, flags) == IF c = "/" /\ "component" \in flags THEN <<"%">> \o Hex(c) ELSE <<c>>

Encoded(c, flags) ==
  IF c = "%" \/ (c = "/" /\ "component" \in flags) THEN <<"%">> \o Hex(c) ELSE <<c>>

KeptEncoded(flags) == IF "component" \in flags THEN {} ELSE {"/"}

(* The character kahanaStrDecodeURI makes of what is at s[i], and how many it  *)
(* is made of: "%" and two digits, unless they stand for a character that is   *)
(* kept; "%u" and four, whose low byte remains; else itself.                 *)
DecodedAt(s, i, flags) ==
  LET IsHex(k) == i + k <= Len(s) /\ s[i + k] \in Digits
      char == CharOf(SubSeq(s, i + 1, i + 2))
  IN CASE s[i] = "%" /\ IsHex(1) /\ IsHex(2) /\ char \notin KeptEncoded(flags) -> <<char, 3>>
       [] s[i] = "%" /\ i < Len(s) /\ s[i + 1] = "u" /\ \A k \in 2..5 : IsHex(k)
            -> <<CharOf(SubSeq(s, i + 4, i + 5)), 6>>
       [] OTHER -> <<s[i], 1>>

DecodeURI(s, flags) ==
  LET D[i \in 1..(Len(s) + 1)] ==
        IF i > Len(s) THEN <<>>
        ELSE <<DecodedAt(s, i, flags)[1]>> \o D[i + DecodedAt(s, i, flags)[2]]
  IN D[1]

(* kahanaStrEncodeURI, whose result for an empty text is NULL. *)
EncodeURI ==
  /\ Running("EncodeURI")
  /\ \/ at = Len(Src) /\ IF text = <<>> THEN Stop("nothing") ELSE Return
     \/ at < Len(Src) /\ Round(text \o Encoded(Src[at + 1], call.flags), at + 1, out)

-----------------------------------------------------------------------------
(* Characters of UTF-8. Of a byte only matters what kahanaStrByteCount makes  *)
(* of it: one that is inside a character counts as the first of two, and     *)
(* 0xfe and 0xff, which are of none, as one.                                 *)
Widths == [one |-> 1, two |-> 2, three |-> 3, four |-> 4, five |-> 5, six |-> 6,
           inside |-> 2, none |-> 1]

ByteCount(b) == Widths[b]

(* A round that passes a character; the last one may reach beyond the NUL.    *)
Pass(newtext) ==
  LET width == ByteCount(Src[at + 1])
  IN IF at + width > Len(Src) THEN Stop("wild") ELSE Round(newtext, at + width, out)

(* kahanaStrlen, which counts characters. *)
Strlen ==
  /\ Running("Strlen")
  /\ IF at < Len(Src) THEN Pass(text) ELSE Return

(* kahanaStrPos, whose result is the offset of the character call.n. *)
StrPos ==
  /\ Running("StrPos")
  /\ IF at < Len(Src) /\ count < call.n THEN Pass(text) ELSE Return

(* kahanaStrtoBytes: two digits for each byte of a character that has several. *)
StrtoBytes ==
  /\ Running("StrtoBytes")
  /\ IF at < Len(Src)
     THEN LET width == ByteCount(Src[at + 1])
          IN Pass(text \o (IF width = 1 THEN <<Src[at + 1]>>
                           ELSE [k \in 1..(2 * width) |-> "digit"]))
     ELSE IF text = <<>> THEN Stop("nothing") ELSE Return

-----------------------------------------------------------------------------
Calls(fn, srcs, pats, reps, limits, flags) ==
  [fn : {fn}, src : srcs, pat : pats, rep : reps, n : limits, flags : flags]

Sources == Texts(MaxSrc)
Words == Texts(MaxWord)
Single == {{w} : w \in Words}
Patterns == {{v, w} : v, w \in Words}

StringCalls ==
  Calls("StrReplace", Sources, Single, Words \cup {Null}, (-1)..MaxCount, {{}})
    \cup Calls("BufReplace", Sources, Single, Words \cup {Null}, 0..MaxCount, {{}})
    \cup Calls("EOLtoLF", Sources, {{}}, {Null}, {0}, {{}})
    \cup Calls("Extr", Sources, Single, Words, 0..MaxCount, SUBSET {"inside", "all", "empty"})
    \cup Calls("DeleteOverlap", Sources, {{}}, Words, {0}, {{}})

RegexpCalls ==
  Calls("RegexpReplace", Sources, Patterns, Words \cup {Null}, {0}, {{}})
    \cup Calls("ReplaceByCallback", Sources, Patterns, {Null}, {0}, {{}})
    \cup Calls("RegexpMatch", Sources, Patterns, {Null}, {0}, {{}, {"global"}})
    \cup Calls("RegexpSplit", Sources, Patterns, {Null}, 0..MaxCount, {{}})

UriCalls ==
  Calls("EncodeURI", UNION {[1..k -> UriChars] : k \in 0..MaxSrc}, {{}}, {Null}, {0}, {{}, {"component"}})

(* kahanaStrlen has no limit, but counts. *)
ByteCalls ==
  LET texts == UNION {[1..k -> DOMAIN Widths] : k \in 0..MaxSrc}
  IN Calls("Strlen", texts, {{}}, {Null}, {-1}, {{}})
       \cup Calls("StrPos", texts, {{}}, {Null}, 0..MaxCount, {{}})
       \cup Calls("StrtoBytes", texts, {{}}, {Null}, {0}, {{}})

AllCalls == StringCalls \cup RegexpCalls \cup UriCalls \cup ByteCalls

ASSUME NullAssumption == Null \notin AllCalls \cup Words

(* A call begins; a pattern may not compile, or its buffer not be created. *)
Begin ==
  /\ status = "idle"
  /\ \/ call' \in StringCalls \cup UriCalls \cup ByteCalls /\ status' = "running"
     \/ call' \in RegexpCalls /\ status' \in {"running", "failed"}
  /\ text' = IF call'.fn \in {"EncodeURI", "StrtoBytes"} THEN <<>> ELSE call'.src
  /\ UNCHANGED <<at, count, out>>

Rounds ==
  \/ StrReplace \/ BufReplace \/ EOLtoLF \/ RegexpReplace \/ ReplaceByCallback
  \/ RegexpMatch \/ RegexpSplit \/ SearchFails \/ Extr \/ DeleteOverlap \/ EncodeURI
  \/ Strlen \/ StrPos \/ StrtoBytes

Next == Begin \/ Rounds

Spec == Init /\ [][Next]_vars

-----------------------------------------------------------------------------
(* The place of the search is in the text, and the texts in their bounds.    *)
TypeOK ==
  /\ status \in {"idle", "running", "returned", "nothing", "failed", "stale", "wild"}
  /\ status = "idle" <=> call = Null
  /\ Len(text) <= MaxText /\ Len(out) <= MaxText /\ count \in 0..MaxText
  /\ at >= 0
  /\ status # "idle" =>
       IF call.fn \in {"BufReplace", "EOLtoLF"} THEN at <= Len(text)
       ELSE call.fn # "RegexpReplace" => at <= Len(Src)

(* s with its first n words of pat, from the left, replaced by r: what is to  *)
(* replace k words in from offset i on.                                      *)
Subst(s, pat, r, n) ==
  LET From[k \in 0..n] ==
        [i \in 0..Len(s) |->
           IF k = 0 \/ Places(s, pat, i) = {} THEN Drop(s, i)
           ELSE LET p == Beg(s, pat, i)
                IN Cut(s, i, p) \o r \o From[k - 1][p + Longest(s, pat, p)]]
  IN From[n][0]

All == MaxSrc + 1

(* The four functions that replace, one on a copy, one in a buffer, one by    *)
(* regular expression and one in place, do the same thing, but for what n =  *)
(* 0 and n < 0 mean, and for kahanaBufStrReplace without a limit when the     *)
(* replacement has another length.                                           *)
ReplacesAsTold ==
  status = "returned" /\ <<>> \notin Pat =>
    /\ call.fn = "StrReplace" /\ call.rep # Null =>
          text = Subst(Src, Pat, Rep, IF call.n = -1 THEN 1 ELSE call.n)
    /\ call.fn = "BufReplace" /\ call.rep # Null =>
          /\ call.n # 0 => text = Subst(Src, Pat, Rep, call.n)
          /\ call.n = 0 /\ (Rep = <<>> \/ {Len(Rep)} = {Len(w) : w \in Pat}) =>
                text = Subst(Src, Pat, Rep, All)
    /\ call.fn = "EOLtoLF" => text = Subst(Src, {<<CR>>, <<CR, LF>>}, <<LF>>, All)
    /\ call.fn = "RegexpReplace" => text = Subst(Src, Pat, Rep, All)

(* Where the characters of a text begin, and whether it is one of UTF-8: each *)
(* has as many bytes as its first one says (five and six bytes are counted   *)
(* in, as they once were).                                                   *)
Leads(s) == {k \in DOMAIN s : s[k] # "inside"}

(* The characters of one byte. *)
Ones(s) == {k \in DOMAIN s : ByteCount(s[k]) = 1}

WellFormed(s) ==
  /\ s # <<>> => 1 \in Leads(s)
  /\ \A k \in Leads(s) : LET next == k + ByteCount(s[k])
                         IN /\ next \in Leads(s) \cup {Len(s) + 1}
                            /\ \A m \in (k + 1)..(next - 1) : s[m] = "inside"

(* Characters are counted, found and taken apart as UTF-8 has them. *)
CharactersAsTold ==
  status = "returned" /\ call.fn \in {"Strlen", "StrPos", "StrtoBytes"} /\ WellFormed(Src) =>
    LET nth(n) == {k \in Leads(Src) : Cardinality({m \in Leads(Src) : m < k}) = n}
    IN /\ call.fn = "Strlen" => count = Cardinality(Leads(Src))
       /\ call.fn = "StrPos" => {at + 1} = IF nth(call.n) = {} THEN {Len(Src) + 1} ELSE nth(call.n)
       /\ call.fn = "StrtoBytes" => Len(text) = 2 * Len(Src) - Cardinality(Ones(Src))

(* What is left of the text from the place of the search on. *)
Left == Len(IF call.fn \in {"BufReplace", "EOLtoLF", "RegexpReplace"} THEN text ELSE Src) - at

(* The pointer leaves its text or its block in these cases only:              *)
(* kahanaBufStrReplace goes on outside the text if the length changes and     *)
(* there is no limit, and in a block that realloc() has moved if the text     *)
(* grows; the functions that go from character to character pass the end of a *)
(* text that is not UTF-8; kahanaStrDeleteOverlap has no room for the NUL of  *)
(* its copy; and `start' of kahanaStrRegexpReplace passes the end if the      *)
(* pattern matches the empty text, by the length of the replacement at most. *)
StaysInText ==
  /\ status = "wild" =>
       \/ call.fn = "BufReplace" /\ call.n = 0 /\ \A w \in Pat : Len(w) # Len(Rep)
       \/ call.fn \in {"Strlen", "StrPos", "StrtoBytes"} /\ ~ WellFormed(Src)
       \/ call.fn = "DeleteOverlap"
  /\ status = "stale" => call.fn = "BufReplace" /\ \A w \in Pat : Len(w) < Len(Rep)
  /\ status # "idle" =>
       \/ Left >= 0
       \/ call.fn = "RegexpReplace" /\ <<>> \in Pat /\ Left >= - Len(Rep)

(* What is before and between the first n words of pat in s, unless empty. *)
Gaps(s, pat, n) ==
  LET From[k \in 0..n] ==
        [i \in 0..Len(s) |->
           IF k = 0 \/ Places(s, pat, i) = {} THEN <<>>
           ELSE LET p == Beg(s, pat, i)
                IN (IF p = i THEN <<>> ELSE <<Cut(s, i, p)>>) \o From[k - 1][p + Longest(s, pat, p)]]
  IN From[n][0]

(* kahanaStrRegexpSplit returns a piece for each text between two matches     *)
(* that is not empty, which begins with that text, and one for the rest       *)
(* unless there is no other; kahanaStrDeleteOverlap keeps the same words.     *)
PiecesAsTold ==
  status = "returned" =>
    /\ call.fn = "RegexpSplit" /\ <<>> \notin Pat =>
         LET gaps == Gaps(Src, Pat, IF call.n = 0 THEN All ELSE call.n)
         IN /\ Len(out) = IF gaps = <<>> THEN 0 ELSE Len(gaps) + 1
            /\ \A k \in DOMAIN gaps : IsPrefix(gaps[k], out[k])
    /\ call.fn = "DeleteOverlap" =>
         /\ IsInjective(out)
         /\ ToSet(out) = {Cut(Src, ij[1], ij[2]) : ij \in
              {ij \in (0..Len(Src)) \X (0..Len(Src)) :
                 /\ ij[1] < ij[2]
                 /\ \A k \in (ij[1] + 1)..ij[2] : Src[k] \notin ToSet(Rep)
                 /\ ij[1] = 0 \/ Src[ij[1]] \in ToSet(Rep)
                 /\ ij[2] = Len(Src) \/ Src[ij[2] + 1] \in ToSet(Rep)}}

(* What the loops return (the three above). *)
ResultsAsTold == ReplacesAsTold /\ PiecesAsTold /\ CharactersAsTold

(* kahanaStrDecodeURI undoes kahanaStrEncodeURI with the same `component',    *)
(* texts that look encoded already included; of an empty one there is none.  *)
URIRoundTrip ==
  call # Null /\ call.fn = "EncodeURI" =>
    /\ status = "returned" => DecodeURI(text, call.flags) = Src
    /\ status = "nothing" => Src = <<>>

(* The calls an empty match keeps where they are, so that they never end. *)
Stuck ==
  CASE call.fn = "BufReplace" -> call.n = 0 /\ <<>> \in Pat
    [] call.fn = "RegexpReplace" -> <<>> \in Pat /\ Rep = <<>>
    [] call.fn \in {"RegexpMatch", "RegexpSplit"} -> <<>> \in Pat
    [] call.fn = "Extr" -> <<>> \in Pat /\ Rep = <<>>
    [] OTHER -> FALSE

(* The calls that count, count up to this: kahanaStrReplace, BufReplace,      *)
(* RegexpSplit, Extr and kahanaStrPos.                                       *)
Limit == IF call.fn = "StrReplace" THEN Times(call.n) ELSE call.n

(* Every other call ends: each round of its loop leaves less of the text to   *)
(* search, even where the text grows or the search goes back, or counts one  *)
(* of the rounds the call is limited to.                                     *)
GoesForward ==
  [][status = "running" /\ status' = "running" /\ ~ Stuck =>
       Left' < Left \/ (count < count' /\ count' <= Limit)]_vars
================================================================================
