----------------------------- MODULE StringsProofs -----------------------------
(* The loops of string.c, proved for every pattern, text and bound: the place *)
(* of the search stays in the text but where TLC shows it does not, each      *)
(* round goes forward, what became a URI becomes the text again, and what is  *)
(* returned is what the functions are said to return.                        *)
EXTENDS Strings, SequenceTheorems, FiniteSetTheorems, WellFoundedInduction, TLAPS

-----------------------------------------------------------------------------
(* The least and the greatest of numbers. *)
LEMMA Least ==
  ASSUME NEW T \in SUBSET Nat, T # {}
  PROVE  Min(T) \in T /\ \A y \in T : Min(T) <= y
<1>1. \E x \in T : \A y \in T : ~ (<<y, x>> \in OpToRel(<, Nat))
  BY WFMin, NatLessThanWellFounded, Zenon
<1>2. \A x, y \in T : y < x => <<y, x>> \in OpToRel(<, Nat)
  BY Zenon DEF OpToRel
<1>3. \E x \in T : \A y \in T : ~ (y < x)
  BY <1>1, <1>2, Zenon
<1>4. \E x \in T : \A y \in T : x <= y
  BY <1>3
<1> QED BY <1>4 DEF Min

LEMMA Greatest ==
  ASSUME NEW b \in Nat, NEW T \in SUBSET (0..b), T # {}
  PROVE  Max(T) \in T /\ \A y \in T : Max(T) >= y
<1> DEFINE R == {b - y : y \in T}
<1>1. R \in SUBSET Nat /\ R # {}
  <2>1. PICK y \in T : TRUE
    OBVIOUS
  <2>2. b - y \in R
    BY <2>1
  <2>3. \A z \in T : b - z \in Nat
    OBVIOUS
  <2> QED BY <2>2, <2>3
<1>2. Min(R) \in R /\ \A y \in R : Min(R) <= y
  <2> HIDE DEF R
  <2> QED BY <1>1, Least
<1>3. PICK x \in T : Min(R) = b - x
  BY <1>2
<1>4. \A y \in T : x >= y
  <2> TAKE y \in T
  <2>1. b - x <= b - y
    BY <1>2, <1>3
  <2> QED BY <2>1
<1> QED BY <1>4 DEF Max

-----------------------------------------------------------------------------
(* Parts of a text. *)
Chars == {CR, LF} \cup UriChars \cup DOMAIN Widths \cup {"other", "digit"}
Strs == Seq(Chars)

LEMMA Parts ==
  ASSUME NEW X, NEW s \in Seq(X), NEW a \in Nat, NEW b \in Int, b <= Len(s)
  PROVE  /\ SubSeq(s, a + 1, b) \in Seq(X)
         /\ Len(SubSeq(s, a + 1, b)) = IF a <= b THEN b - a ELSE 0
<1>1. \A i \in (a + 1)..b : s[i] \in X
  OBVIOUS
<1> QED BY <1>1, SubSeqProperties

LEMMA Joined ==
  ASSUME NEW r \in Strs, NEW s \in Strs, NEW t \in Strs
  PROVE  /\ r \o s \in Strs /\ Len(r \o s) = Len(r) + Len(s)
         /\ r \o s \o t \in Strs /\ Len(r \o s \o t) = Len(r) + Len(s) + Len(t)
BY DEF Strs

LEMMA SplicedIs ==
  ASSUME NEW s \in Strs, NEW r \in Strs, NEW from \in Nat, NEW to \in Nat,
         from <= to, to <= Len(s)
  PROVE  /\ Spliced(s, from, to, r) \in Strs
         /\ Len(Spliced(s, from, to, r)) = Len(s) - (to - from) + Len(r)
<1>1. Len(s) \in Nat /\ 0 \in Nat
  BY DEF Strs
<1>2. Take(s, from) \in Strs /\ Len(Take(s, from)) = from
  <2>1. SubSeq(s, 0 + 1, from) \in Strs /\ Len(SubSeq(s, 0 + 1, from)) = from
    BY <1>1, Parts DEF Strs
  <2> QED BY <2>1 DEF Take
<1>3. Drop(s, to) \in Strs /\ Len(Drop(s, to)) = Len(s) - to
  BY <1>1, Parts DEF Drop, Strs
<1> DEFINE a == Take(s, from)
           c == Drop(s, to)
<1> HIDE DEF a, c
<1>4. a \o r \o c \in Strs /\ Len(a \o r \o c) = Len(a) + Len(r) + Len(c)
  BY <1>2, <1>3, Joined DEF a, c
<1>5. Len(r) \in Nat
  BY DEF Strs
<1> QED BY <1>1, <1>2, <1>3, <1>4, <1>5 DEF Spliced, a, c

(* What a search finds. *)
LEMMA Finds ==
  ASSUME NEW s \in Strs, NEW pat \in SUBSET Strs, NEW i \in Nat, Places(s, pat, i) # {}
  PROVE  /\ Beg(s, pat, i) \in i..Len(s)
         /\ Longest(s, pat, Beg(s, pat, i)) \in 0..(Len(s) - Beg(s, pat, i))
         /\ \E w \in pat : Len(w) = Longest(s, pat, Beg(s, pat, i))
<1> DEFINE p == Beg(s, pat, i)
           T == {Len(w) : w \in {v \in pat : At(s, p, v)}}
<1>0. Len(s) \in Nat /\ \A w \in pat : Len(w) \in Nat
  BY DEF Strs
<1>1. Places(s, pat, i) \in SUBSET Nat
  BY <1>0 DEF Places
<1>2. p \in Places(s, pat, i)
  BY <1>1, Least DEF Beg
<1>3. p \in i..Len(s) /\ p \in Nat /\ \E w \in pat : At(s, p, w)
  BY <1>0, <1>2 DEF Places
<1> HIDE DEF p
<1>4. T # {} /\ Len(s) - p \in Nat
  <2>1. PICK w \in pat : At(s, p, w)
    BY <1>3
  <2>2. Len(w) \in T
    BY <2>1
  <2> HIDE DEF T
  <2> QED BY <1>0, <1>3, <2>2
<1>5. T \in SUBSET (0..(Len(s) - p))
  BY <1>0, <1>3 DEF At
<1> HIDE DEF T
<1>6. Max(T) \in T
  BY <1>4, <1>5, Greatest
<1>7. Longest(s, pat, p) = Max(T)
  BY DEF Longest, T
<1>8. \E w \in pat : Len(w) = Max(T)
  BY <1>6 DEF T
<1> QED BY <1>3, <1>5, <1>6, <1>7, <1>8 DEF p

-----------------------------------------------------------------------------
(* What the arguments of a call are. *)
Counted == {"StrReplace", "BufReplace", "Extr", "RegexpSplit", "StrPos"}
Bytewise == {"Strlen", "StrPos", "StrtoBytes"}

One(pat) == \E w : pat = {w}

CallIs(c) ==
  /\ c.src \in Strs /\ Len(c.src) <= MaxSrc /\ c.pat \in SUBSET Strs
  /\ c.rep = Null \/ c.rep \in Strs
  /\ c.n \in Int /\ c.n <= MaxCount
  /\ c.fn \in {"StrReplace", "BufReplace", "Extr"} => One(c.pat)
  /\ c.fn = "StrReplace" => c.n >= -1
  /\ c.fn \in Counted \ {"StrReplace"} => c.n >= 0
  /\ c.fn = "Strlen" => c.n = -1
  /\ c.fn \notin Counted \cup {"Strlen"} => c.n = 0
  /\ c.fn = "EncodeURI" => c.src \in Seq(UriChars)
  /\ c.fn \in Bytewise => c.src \in Seq(DOMAIN Widths)

LEMMA TextsAre ==
  ASSUME NEW n \in Nat, NEW X, X \subseteq Chars, NEW s \in UNION {[1..k -> X] : k \in 0..n}
  PROVE  s \in Strs /\ s \in Seq(X) /\ Len(s) <= n
<1>1. PICK k \in 0..n : s \in [1..k -> X]
  OBVIOUS
<1>2. s \in [1..k -> Chars]
  BY <1>1
<1>3. s \in Seq(Chars) /\ s \in Seq(X) /\ Len(s) = k
  BY <1>1, <1>2
<1> QED BY <1>3 DEF Strs

LEMMA CallsAre ==
  ASSUME NEW c \in AllCalls
  PROVE  CallIs(c)
<1>0. /\ MaxSrc \in Nat /\ MaxWord \in Nat /\ MaxCount \in Nat
      /\ {CR, LF} \subseteq Chars /\ UriChars \subseteq Chars /\ DOMAIN Widths \subseteq Chars
  BY BoundsAssumption DEF Chars
<1>1. \A s \in Sources : s \in Strs /\ Len(s) <= MaxSrc
  BY <1>0, TextsAre DEF Sources, Texts
<1>2. \A w \in Words : w \in Strs
  BY <1>0, TextsAre DEF Words, Texts
<1>3. Patterns \subseteq SUBSET Strs /\ Single \subseteq SUBSET Strs /\ \A pat \in Single : One(pat)
  BY <1>2 DEF Patterns, Single, One
<1>4. CASE c \in StringCalls
  <2>1. CASE c \in Calls("StrReplace", Sources, Single, Words \cup {Null}, (-1)..MaxCount, {{}})
    BY <1>0, <1>1, <1>2, <1>3, <2>1 DEF Calls, CallIs, Counted, Bytewise
  <2>2. CASE c \in Calls("BufReplace", Sources, Single, Words \cup {Null}, 0..MaxCount, {{}})
    BY <1>0, <1>1, <1>2, <1>3, <2>2 DEF Calls, CallIs, Counted, Bytewise
  <2>3. CASE c \in Calls("EOLtoLF", Sources, {{}}, {Null}, {0}, {{}})
    BY <1>0, <1>1, <1>2, <1>3, <2>3 DEF Calls, CallIs, Counted, Bytewise
  <2>4. CASE c \in Calls("Extr", Sources, Single, Words, 0..MaxCount, SUBSET {"inside", "all", "empty"})
    BY <1>0, <1>1, <1>2, <1>3, <2>4 DEF Calls, CallIs, Counted, Bytewise
  <2>5. CASE c \in Calls("DeleteOverlap", Sources, {{}}, Words, {0}, {{}})
    BY <1>0, <1>1, <1>2, <1>3, <2>5 DEF Calls, CallIs, Counted, Bytewise
  <2> QED BY <1>4, <2>1, <2>2, <2>3, <2>4, <2>5 DEF StringCalls
<1>5. CASE c \in RegexpCalls
  BY <1>0, <1>1, <1>2, <1>3, <1>5 DEF RegexpCalls, Calls, CallIs, Counted, Bytewise
<1>6. CASE c \in UriCalls
  <2>1. c.src \in Strs /\ c.src \in Seq(UriChars) /\ Len(c.src) <= MaxSrc
    BY <1>0, <1>6, TextsAre DEF UriCalls, Calls
  <2> QED BY <1>0, <1>6, <2>1 DEF UriCalls, Calls, CallIs, Counted, Bytewise
<1>7. CASE c \in ByteCalls
  <2>1. c.src \in Strs /\ c.src \in Seq(DOMAIN Widths) /\ Len(c.src) <= MaxSrc
    BY <1>0, <1>7, TextsAre DEF ByteCalls, Calls
  <2> QED BY <1>0, <1>7, <2>1 DEF ByteCalls, Calls, CallIs, Counted, Bytewise
<1> QED BY <1>4, <1>5, <1>6, <1>7 DEF AllCalls

-----------------------------------------------------------------------------
(* Where a call is: how far it has come in its text, and how often it has     *)
(* counted and stored.                                                       *)
Texted == {"BufReplace", "EOLtoLF", "RegexpReplace"}

PlaceInv ==
  /\ call.fn \in {"BufReplace", "EOLtoLF"} => at <= Len(text)
  /\ call.fn \notin Texted => at <= Len(Src)
  /\ call.fn \in {"RegexpSplit", "DeleteOverlap"} /\ status = "running" => Len(out) <= at

CountInv ==
  /\ call.fn = "Strlen" => count <= at
  /\ call.fn \in Counted => IF call.n = 0 THEN count = 0 ELSE count <= Times(call.n)
  /\ call.fn \notin Counted \cup {"Strlen"} => count = 0

IInv ==
  /\ status \in {"idle", "running", "returned", "nothing", "failed", "stale", "wild"}
  /\ text \in Strs /\ Len(text) <= MaxText
  /\ out \in Seq(Strs) /\ Len(out) <= MaxText
  /\ at \in Nat /\ count \in 0..MaxText
  /\ IF status = "idle" THEN call = Null /\ at = 0 /\ count = 0 /\ out = <<>>
     ELSE call \in AllCalls /\ PlaceInv /\ CountInv

LEMMA Bounds ==
  /\ MaxSrc \in Nat /\ MaxWord \in Nat /\ MaxCount \in Nat /\ MaxText \in Nat
  /\ MaxSrc < MaxText /\ MaxCount <= MaxText
BY BoundsAssumption

LEMMA InCall ==
  ASSUME IInv, status = "running"
  PROVE  /\ CallIs(call) /\ Src \in Strs /\ Len(Src) \in Nat /\ Len(Src) <= MaxSrc
         /\ Pat \in SUBSET Strs /\ Rep \in Strs /\ Len(Rep) \in Nat
         /\ text \in Strs /\ Len(text) \in Nat /\ at \in Nat
<1>1. CallIs(call)
  BY CallsAre DEF IInv
<1>2. <<>> \in Strs
  BY DEF Strs
<1>3. Src \in Strs /\ Len(Src) <= MaxSrc /\ Pat \in SUBSET Strs /\ Rep \in Strs
  BY <1>1, <1>2 DEF CallIs, Src, Pat, Rep
<1>4. \A s \in Strs : Len(s) \in Nat
  BY DEF Strs
<1> QED BY <1>1, <1>3, <1>4 DEF IInv

LEMMA StopKeeps ==
  ASSUME IInv, status = "running",
         NEW how \in {"returned", "nothing", "failed", "stale", "wild"}, Stop(how)
  PROVE  IInv'
<1>1. UNCHANGED <<call, text, at, count, out>> /\ status' = how
  BY DEF Stop
<1>2. PlaceInv' /\ CountInv'
  BY <1>1 DEF PlaceInv, CountInv, IInv, Src
<1> QED BY <1>1, <1>2 DEF IInv

LEMMA RoundKeeps ==
  ASSUME IInv, status = "running", call.fn # "RegexpMatch",
         NEW t \in Strs, NEW i \in Nat, NEW o \in Seq(Strs), Round(t, i, o), Len(o) <= MaxText,
         call.fn \in {"BufReplace", "EOLtoLF"} => i <= Len(t),
         call.fn \notin Texted => i <= Len(Src),
         call.fn \in {"RegexpSplit", "DeleteOverlap"} => Len(o) <= i,
         call.fn = "Strlen" => at < i,
         call.fn \in Counted /\ call.n # 0 => count < Times(call.n)
  PROVE  IInv'
<1>1. /\ call' = call /\ status' = "running" /\ text' = t /\ at' = i /\ out' = o /\ Len(t) <= MaxText
      /\ count' = IF call.n = 0 THEN count ELSE count + 1
  BY DEF Round
<1>2. CallIs(call) /\ CountInv /\ count \in Nat /\ Len(Src) <= MaxSrc /\ at \in Nat /\ Len(Src) \in Nat
  BY InCall DEF IInv
<1>3. Src' = Src
  BY <1>1 DEF Src
<1>4. PlaceInv'
  BY <1>1, <1>3 DEF PlaceInv
<1>5. CountInv' /\ count' \in 0..MaxText
  <2>0. count \in 0..MaxText /\ call.n \in Int /\ call.n <= MaxCount
    BY <1>2 DEF IInv, CallIs
  <2>1. CASE call.fn \in Counted /\ call.n # 0
    <3>1. Times(call.n) \in Nat /\ Times(call.n) <= MaxText /\ count < Times(call.n)
      BY <2>0, <2>1, Bounds DEF Times
    <3>2. count' = count + 1 /\ count' \in Nat /\ count' <= Times(call.n)
      BY <1>1, <2>0, <2>1, <3>1
    <3>3. count' \in 0..MaxText
      BY <3>1, <3>2, Bounds
    <3> QED BY <1>1, <2>1, <3>2, <3>3 DEF CountInv, Counted
  <2>2. CASE call.fn = "Strlen"
    <3>1. call.n = -1 /\ count <= at /\ i <= Len(Src)
      BY <1>2, <2>2 DEF CallIs, CountInv, Texted
    <3>2. count' = count + 1 /\ count' <= i
      BY <1>1, <1>2, <2>2, <3>1
    <3> QED BY <1>1, <1>2, <2>0, <2>2, <3>1, <3>2, Bounds DEF CountInv, Counted
  <2>3. CASE ~ (call.fn \in Counted /\ call.n # 0) /\ call.fn # "Strlen"
    <3>1. call.n = 0 /\ count' = count
      BY <1>1, <1>2, <2>3 DEF CallIs
    <3> QED BY <1>1, <1>2, <2>0, <2>3, <3>1 DEF CountInv
  <2> QED BY <2>1, <2>2, <2>3
<1> QED BY <1>1, <1>4, <1>5, Bounds DEF IInv

-----------------------------------------------------------------------------
(* GoesForward, of one step. *)
Goes == status = "running" /\ status' = "running" /\ ~ Stuck =>
          Left' < Left \/ (count < count' /\ count' <= Limit)

LEMMA StopGoes ==
  ASSUME NEW how, how # "running", Stop(how)
  PROVE  Goes
BY DEF Stop, Goes

LEMMA CountGoes ==
  ASSUME IInv, status = "running", call.fn \in Counted, NEW t, NEW i, NEW o, Round(t, i, o),
         call.n # 0, count < Times(call.n)
  PROVE  Goes
<1>1. CallIs(call) /\ count \in Nat
  BY InCall DEF IInv
<1>2. Times(call.n) \in Nat /\ Limit = Times(call.n)
  BY <1>1 DEF CallIs, Counted, Limit, Times
<1> QED BY <1>1, <1>2 DEF Round, Goes

LEMMA TextGoes ==
  ASSUME IInv, NEW t, NEW i, NEW o, Round(t, i, o),
         ~ Stuck => IF call.fn \in Texted THEN Len(t) - i < Len(text) - at
                    ELSE Len(Src) - i < Len(Src) - at
  PROVE  Goes
<1>1. call' = call /\ text' = t /\ at' = i
  BY DEF Round
<1> QED BY <1>1 DEF Goes, Left, Src, Texted

LEMMA TakeIs ==
  ASSUME NEW s \in Strs, NEW k \in Int, k <= Len(s)
  PROVE  Take(s, k) \in Strs /\ Len(Take(s, k)) = IF 0 <= k THEN k ELSE 0
<1>1. SubSeq(s, 0 + 1, k) \in Strs /\ Len(SubSeq(s, 0 + 1, k)) = IF 0 <= k THEN k - 0 ELSE 0
  BY Parts DEF Strs
<1> QED BY <1>1 DEF Take

LEMMA DropIs ==
  ASSUME NEW s \in Strs, NEW k \in Nat, k <= Len(s)
  PROVE  Drop(s, k) \in Strs /\ Len(Drop(s, k)) = Len(s) - k
<1>1. Len(s) \in Nat
  BY DEF Strs
<1> QED BY <1>1, Parts DEF Drop, Strs

LEMMA StrReplaceKeeps ==
  ASSUME IInv, StrReplace
  PROVE  IInv' /\ Goes
<1>0. status = "running" /\ call.fn = "StrReplace"
  BY DEF StrReplace, Running
<1>1. CASE Return
  BY <1>0, <1>1, StopKeeps, StopGoes DEF Return
<1>2. CASE ~ Return
  <2> DEFINE p == Beg(Src, Pat, at)
             q == p + Longest(Src, Pat, p)
             r == Take(text, Len(text) - (Len(Src) - p))
             t == r \o Rep \o Drop(Src, q)
  <2>1. Found(Src) /\ count < Times(call.n) /\ Round(t, q, out)
    BY <1>2 DEF StrReplace
  <2>2. p \in at..Len(Src) /\ q \in p..Len(Src)
    <3>1. p \in at..Len(Src) /\ Longest(Src, Pat, p) \in 0..(Len(Src) - p)
      BY <1>0, <2>1, InCall, Finds DEF Found
    <3> QED BY <3>1, <1>0, InCall
  <2>3. r \in Strs /\ Drop(Src, q) \in Strs
    <3>1. Len(text) - (Len(Src) - p) \in Int /\ Len(text) - (Len(Src) - p) <= Len(text) /\ q \in Nat
      BY <1>0, <2>2, InCall
    <3> HIDE DEF p, q
    <3> QED BY <1>0, <2>2, <3>1, InCall, TakeIs, DropIs
  <2>4. t \in Strs /\ q \in Nat /\ q <= Len(Src)
    <3> HIDE DEF p, q, r
    <3> QED BY <1>0, <2>2, <2>3, InCall, Joined
  <2> HIDE DEF p, q, r, t
  <2>5. IInv'
    BY <1>0, <2>1, <2>4, RoundKeeps DEF IInv, Texted
  <2>6. call.n # 0
    BY <2>1 DEF Times, IInv
  <2> QED BY <1>0, <2>1, <2>5, <2>6, CountGoes DEF Counted
<1> QED BY <1>1, <1>2

(* Where kahanaBufStrReplace goes on, and what is left of the text there: less *)
(* than before unless the match was empty.                                   *)
LEMMA ResumedIs ==
  ASSUME NEW p \in Nat, NEW rlen \in Nat, NEW len \in Nat, NEW n \in Nat, NEW size \in Nat,
         p + rlen <= size
  PROVE  /\ Resumed(p, len, rlen, n) \in Int
         /\ Resumed(p, len, rlen, n) \notin 0..(size - rlen + len) => n = 0 /\ len # rlen
         /\ rlen > 0 => (size - rlen + len) - Resumed(p, len, rlen, n) < size - p
<1>1. CASE len = 0
  BY <1>1 DEF Resumed
<1>2. CASE len # 0 /\ n = 0
  BY <1>2 DEF Resumed
<1>3. CASE len # 0 /\ n # 0
  BY <1>3 DEF Resumed
<1> QED BY <1>1, <1>2, <1>3

LEMMA OneWord ==
  ASSUME NEW pat, One(pat), NEW n, \E w \in pat : Len(w) = n
  PROVE  \A w \in pat : Len(w) = n
BY DEF One

(* The match a round of kahanaBufStrReplace has found. *)
LEMMA BufReplaceRound ==
  ASSUME IInv, BufReplace, ~ Return
  PROVE  \E p, rlen, len, match :
           /\ p \in at..Len(text) /\ p \in Nat /\ rlen \in Nat /\ len \in Nat /\ match \in Int
            /\ p + rlen <= Len(text)
           /\ len = Len(Rep) /\ (\A w \in Pat : Len(w) = rlen) /\ call.n \in Nat
           /\ match = Resumed(p, len, rlen, call.n)
           /\ call.n # 0 => count < call.n
           /\ \/ /\ match \in 0..(Len(text) - rlen + len)
                 /\ \E t \in Strs : Len(t) = Len(text) - rlen + len /\ Round(t, match, out)
              \/ match \notin 0..(Len(text) - rlen + len) /\ Stop("wild")
              \/ len > rlen /\ (Stop("failed") \/ Stop("stale"))
<1> DEFINE p == Beg(text, Pat, at)
           rlen == Longest(text, Pat, p)
           len == Len(Rep)
           next == Spliced(text, p, p + rlen, Rep)
           match == Resumed(p, len, rlen, call.n)
<1>0. status = "running" /\ call.fn = "BufReplace"
  BY DEF BufReplace, Running
<1>1. /\ call.n = 0 \/ count < call.n
      /\ Found(text)
      /\ \/ match \in 0..Len(next) /\ Round(next, match, out)
         \/ match \notin 0..Len(next) /\ Stop("wild")
         \/ len > rlen /\ (Stop("failed") \/ Stop("stale"))
  BY DEF BufReplace
<1>2. /\ p \in at..Len(text) /\ rlen \in 0..(Len(text) - p) /\ \E w \in Pat : Len(w) = rlen
  BY <1>0, <1>1, InCall, Finds DEF Found
<1>3. /\ p \in Nat /\ rlen \in Nat /\ p + rlen <= Len(text) /\ len \in Nat /\ p + rlen \in Nat
  BY <1>0, <1>2, InCall
<1>4. call.n \in Nat /\ One(Pat)
  BY <1>0, InCall DEF CallIs, Counted, Pat
<1>5. \A w \in Pat : Len(w) = rlen
  BY <1>2, <1>4, OneWord
<1> HIDE DEF p, rlen
<1>6. next \in Strs /\ Len(next) = Len(text) - rlen + len
  <2> DEFINE to == p + rlen
  <2>1. text \in Strs /\ Rep \in Strs /\ Len(text) \in Nat
    BY <1>0, InCall
  <2>2. to \in Nat /\ p <= to /\ to <= Len(text) /\ to - p = rlen
    BY <1>3
  <2> HIDE DEF to
  <2>3. \A k, m \in Nat : k <= m /\ m <= Len(text) =>
          Spliced(text, k, m, Rep) \in Strs /\ Len(Spliced(text, k, m, Rep)) = Len(text) - (m - k) + Len(Rep)
    BY <2>1, SplicedIs
  <2>4. Spliced(text, p, to, Rep) \in Strs /\ Len(Spliced(text, p, to, Rep)) = Len(text) - (to - p) + Len(Rep)
    BY <1>3, <2>2, <2>3
  <2> QED BY <2>2, <2>4 DEF to
<1>7. match \in Int
  BY <1>0, <1>3, <1>4, InCall, ResumedIs
<1> HIDE DEF next, match, len
<1> WITNESS p, rlen, len, match
<1> QED BY <1>1, <1>2, <1>3, <1>4, <1>5, <1>6, <1>7 DEF len, match

LEMMA BufReplaceKeeps ==
  ASSUME IInv, BufReplace
  PROVE  IInv' /\ Goes
<1>0. status = "running" /\ call.fn = "BufReplace"
  BY DEF BufReplace, Running
<1>1. CASE Return
  BY <1>0, <1>1, StopKeeps, StopGoes DEF Return
<1>2. CASE ~ Return
  <2>1. PICK p, rlen, len, match :
           /\ p \in at..Len(text) /\ p \in Nat /\ rlen \in Nat /\ len \in Nat /\ match \in Int
            /\ p + rlen <= Len(text)
           /\ len = Len(Rep) /\ (\A w \in Pat : Len(w) = rlen) /\ call.n \in Nat
           /\ match = Resumed(p, len, rlen, call.n)
           /\ call.n # 0 => count < call.n
           /\ \/ /\ match \in 0..(Len(text) - rlen + len)
                 /\ \E t \in Strs : Len(t) = Len(text) - rlen + len /\ Round(t, match, out)
              \/ match \notin 0..(Len(text) - rlen + len) /\ Stop("wild")
              \/ len > rlen /\ (Stop("failed") \/ Stop("stale"))
    BY <1>2, BufReplaceRound
  <2>2. CASE Stop("wild") \/ Stop("failed") \/ Stop("stale")
    BY <1>0, <2>2, StopKeeps, StopGoes
  <2>3. ASSUME match \in 0..(Len(text) - rlen + len),
               NEW t \in Strs, Len(t) = Len(text) - rlen + len, Round(t, match, out)
        PROVE  IInv' /\ Goes
    <3>1. IInv'
      <4>1. call.n # 0 => count < Times(call.n)
        BY <2>1 DEF Times
      <4>2. match \in Nat /\ match <= Len(t)
        BY <2>1, <2>3
      <4> QED BY <1>0, <2>3, <4>1, <4>2, RoundKeeps DEF IInv, Texted
    <3>2. ASSUME call.n # 0 PROVE Goes
      <4>1. count < Times(call.n)
        BY <2>1, <3>2 DEF Times
      <4> QED BY <1>0, <2>3, <3>2, <4>1, CountGoes DEF Counted
    <3>3. ASSUME call.n = 0 PROVE Goes
      <4>1. ASSUME ~ Stuck PROVE Len(t) - match < Len(text) - at
        <5>1. rlen > 0
          <6>1. <<>> \notin Pat /\ Pat # {}
            BY <1>0, <3>3, <4>1, InCall DEF Stuck, CallIs, One, Pat
          <6>2. PICK w \in Pat : TRUE
            BY <6>1
          <6>3. w \in Seq(Chars) /\ w # <<>> /\ Len(w) = rlen
            BY <1>0, <2>1, <6>1, <6>2, InCall DEF Strs
          <6> QED BY <6>3
        <5>2. (Len(text) - rlen + len) - match < Len(text) - p
          BY <1>0, <2>1, <5>1, InCall, ResumedIs
        <5>3. Len(text) \in Nat /\ at \in Nat
          BY <1>0, InCall
        <5>4. at <= p /\ Len(t) \in Int /\ Len(text) - p <= Len(text) - at
          BY <2>1, <2>3, <5>3
        <5>5. Len(t) - match < Len(text) - p
          BY <2>3, <5>2
        <5>6. match \in Int /\ p \in Nat
          BY <2>1
        <5> QED BY <5>3, <5>4, <5>5, <5>6
      <4> QED BY <1>0, <2>3, <4>1, TextGoes DEF Texted
    <3> QED BY <3>1, <3>2, <3>3
  <2> QED BY <2>1, <2>2, <2>3
<1> QED BY <1>1, <1>2

LEMMA EOLtoLFKeeps ==
  ASSUME IInv, EOLtoLF
  PROVE  IInv' /\ Goes
<1>0. status = "running" /\ call.fn = "EOLtoLF"
  BY DEF EOLtoLF, Running
<1>1. CASE Return
  BY <1>0, <1>1, StopKeeps, StopGoes DEF Return
<1>2. CASE ~ Return
  <2> DEFINE Next1(t) == t \in Strs /\ at + 1 <= Len(t) /\ Len(t) <= Len(text) /\ Round(t, at + 1, out)
  <2>0. Len(text) \in Nat /\ at \in Nat /\ at < Len(text) /\ text \in Strs /\ call.n = 0
    BY <1>0, <1>2, InCall DEF EOLtoLF, CallIs, Counted
  <2>1. ASSUME NEW r \in Strs, Len(r) \in {0, 1}
        PROVE  /\ Spliced(text, at, at + 1, r) \in Strs
               /\ Len(Spliced(text, at, at + 1, r)) = Len(text) - 1 + Len(r)
    <3>1. \A k, m \in Nat : k <= m /\ m <= Len(text) =>
            Spliced(text, k, m, r) \in Strs /\ Len(Spliced(text, k, m, r)) = Len(text) - (m - k) + Len(r)
      BY <2>0, SplicedIs
    <3>2. at + 1 \in Nat /\ at <= at + 1 /\ at + 1 <= Len(text) /\ at + 1 - at = 1
      BY <2>0
    <3> QED BY <2>0, <3>1, <3>2
  <2>2. <<>> \in Strs /\ <<LF>> \in Strs /\ Len(<<>>) = 0 /\ Len(<<LF>>) = 1
    BY DEF Strs, Chars
  <2>3. \E t : Next1(t)
    <3>1. CASE At(text, at, <<CR, LF>>)
      <4> DEFINE t == Spliced(text, at, at + 1, <<>>)
      <4>1. Round(t, at + 1, out)
        BY <1>2, <2>0, <3>1 DEF EOLtoLF
      <4>2. t \in Strs /\ Len(t) = Len(text) - 1 + 0
        BY <2>1, <2>2
      <4>3. at + 2 <= Len(text)
        BY <3>1 DEF At
      <4> HIDE DEF t
      <4>4. at + 1 <= Len(t) /\ Len(t) <= Len(text)
        BY <2>0, <4>2, <4>3
      <4> QED BY <4>1, <4>2, <4>4
    <3>2. CASE At(text, at, <<CR>>) /\ ~ At(text, at, <<CR, LF>>)
      <4> DEFINE t == Spliced(text, at, at + 1, <<LF>>)
      <4>1. Round(t, at + 1, out)
        BY <1>2, <2>0, <3>2 DEF EOLtoLF
      <4>2. t \in Strs /\ Len(t) = Len(text) - 1 + 1
        BY <2>1, <2>2
      <4> HIDE DEF t
      <4>3. at + 1 <= Len(t) /\ Len(t) <= Len(text)
        BY <2>0, <4>2
      <4> QED BY <4>1, <4>2, <4>3
    <3>3. CASE ~ At(text, at, <<CR>>) /\ ~ At(text, at, <<CR, LF>>)
      BY <1>2, <2>0, <3>3 DEF EOLtoLF
    <3> QED BY <3>1, <3>2, <3>3
  <2>4. PICK t : Next1(t)
    BY <2>3
  <2>5. at + 1 \in Nat
    BY <2>0
  <2>6. IInv'
    BY <1>0, <2>4, <2>5, RoundKeeps DEF IInv, Texted, Counted
  <2>7. Len(t) - (at + 1) < Len(text) - at
    <3>1. Len(t) \in Nat
      BY <2>4 DEF Strs
    <3> QED BY <2>0, <2>4, <3>1
  <2> QED BY <1>0, <2>4, <2>6, <2>7, TextGoes DEF Texted
<1> QED BY <1>1, <1>2

-----------------------------------------------------------------------------
LEMMA ReplaceFromToIs ==
  ASSUME NEW s \in Strs, NEW r \in Strs, NEW from \in Nat, NEW to \in Nat, from <= to, to <= Len(s)
  PROVE  /\ ReplaceFromTo(s, from, to, r) \in Strs
         /\ Len(ReplaceFromTo(s, from, to, r)) = IF from < to THEN Len(s) - (to - from) + Len(r) ELSE Len(s)
BY SplicedIs DEF ReplaceFromTo

LEMMA RegexpReplaceKeeps ==
  ASSUME IInv, RegexpReplace
  PROVE  IInv' /\ Goes
<1> DEFINE p == Beg(text, Pat, at)
           rlen == Longest(text, Pat, p)
           q == p + rlen
           t == ReplaceFromTo(text, p, q, Rep)
<1>0. status = "running" /\ call.fn = "RegexpReplace"
  BY DEF RegexpReplace, Running
<1>1. CASE Return \/ Stop("failed")
  BY <1>0, <1>1, StopKeeps, StopGoes DEF Return
<1>2. CASE Found(text) /\ Round(t, p + Len(Rep), out)
  <2>0. /\ text \in Strs /\ Len(text) \in Nat /\ at \in Nat /\ Pat \in SUBSET Strs
        /\ Rep \in Strs /\ Len(Rep) \in Nat
    BY <1>0, InCall
  <2>1. p \in at..Len(text) /\ rlen \in 0..(Len(text) - p) /\ \E w \in Pat : Len(w) = rlen
    BY <2>0, <1>2, Finds DEF Found
  <2> HIDE DEF p, rlen
  <2>2. p \in Nat /\ q \in Nat /\ p <= q /\ q <= Len(text) /\ at <= p /\ q - p = rlen /\ rlen \in Nat
    BY <2>0, <2>1
  <2>3. p + Len(Rep) \in Nat
    BY <2>0, <2>2
  <2> HIDE DEF q
  <2>4. t \in Strs /\ Len(t) = IF p < q THEN Len(text) - (q - p) + Len(Rep) ELSE Len(text)
    BY <2>0, <2>2, ReplaceFromToIs
  <2> HIDE DEF t
  <2>5. IInv'
    BY <1>0, <1>2, <2>3, <2>4, RoundKeeps DEF IInv, Texted, Counted
  <2>6. ASSUME ~ Stuck PROVE Len(t) - (p + Len(Rep)) < Len(text) - at
    <3>1. CASE p < q
      BY <2>0, <2>2, <2>4, <3>1
    <3>2. CASE ~ (p < q)
      <4>1. rlen = 0
        BY <2>2, <3>2
      <4>2. <<>> \in Pat
        <5>1. PICK w \in Pat : Len(w) = 0
          BY <2>1, <4>1
        <5>2. w \in Seq(Chars)
          BY <2>0 DEF Strs
        <5> QED BY <5>1, <5>2
      <4>3. Rep # <<>>
        BY <1>0, <2>6, <4>2 DEF Stuck
      <4>4. Len(Rep) > 0
        BY <2>0, <4>3 DEF Strs
      <4> QED BY <2>0, <2>2, <2>4, <3>2, <4>4
    <3> QED BY <3>1, <3>2
  <2> QED BY <1>0, <1>2, <2>5, <2>6, TextGoes DEF Texted
<1> QED BY <1>1, <1>2 DEF RegexpReplace

LEMMA FailureKeeps ==
  ASSUME IInv, SearchFails \/ ReplaceByCallback
  PROVE  IInv' /\ Goes
<1>1. status = "running"
  BY DEF SearchFails, ReplaceByCallback, Running
<1> QED BY <1>1, StopKeeps, StopGoes DEF SearchFails, ReplaceByCallback, Return

LEMMA CutIs ==
  ASSUME NEW s \in Strs, NEW from \in Nat, NEW to \in Int, to <= Len(s)
  PROVE  Cut(s, from, to) \in Strs /\ Len(Cut(s, from, to)) = IF from <= to THEN to - from ELSE 0
BY Parts DEF Cut, Strs

(* The words of a pattern without the empty one are longer than that. *)
LEMMA NotEmpty ==
  ASSUME NEW pat \in SUBSET Strs, <<>> \notin pat, NEW n, \E w \in pat : Len(w) = n
  PROVE  n \in Nat /\ n > 0
<1>1. PICK w \in pat : Len(w) = n
  OBVIOUS
<1>2. w \in Seq(Chars) /\ w # <<>>
  BY DEF Strs
<1> QED BY <1>1, <1>2

LEMMA MatchKeeps ==
  ASSUME IInv, RegexpMatch
  PROVE  IInv' /\ Goes
<1> DEFINE p == Beg(Src, Pat, at)
           q == p + Longest(Src, Pat, p)
           part == Cut(Src, p, q)
<1>0. status = "running" /\ call.fn = "RegexpMatch"
  BY DEF RegexpMatch, Running
<1>1. CASE Return
  BY <1>0, <1>1, StopKeeps, StopGoes DEF Return
<1>2. CASE ~ Return
  <2>0. Src \in Strs /\ Len(Src) \in Nat /\ at \in Nat /\ Pat \in SUBSET Strs
    BY <1>0, InCall
  <2>1. /\ Found(Src) /\ Len(out) < MaxText
        /\ at' = q /\ out' = Append(out, part)
        /\ status' \in {"running", "returned"} /\ UNCHANGED <<call, text, count>>
    BY <1>2 DEF RegexpMatch
  <2>2. p \in at..Len(Src) /\ Longest(Src, Pat, p) \in 0..(Len(Src) - p)
        /\ \E w \in Pat : Len(w) = Longest(Src, Pat, p)
    BY <2>0, <2>1, Finds DEF Found
  <2>3. p \in Nat /\ q \in Nat /\ q <= Len(Src) /\ at <= p
    BY <2>0, <2>2
  <2>4. ~ Stuck => at < q
    <3>1. ASSUME ~ Stuck PROVE Longest(Src, Pat, p) > 0
      BY <1>0, <2>0, <2>2, <3>1, NotEmpty DEF Stuck
    <3> QED BY <2>0, <2>2, <3>1
  <2> HIDE DEF p, q
  <2>5. part \in Strs
    BY <2>0, <2>3, CutIs
  <2> HIDE DEF part
  <2>6. count = 0 /\ out \in Seq(Strs) /\ MaxText \in Nat
    BY <1>0, Bounds DEF IInv, CountInv, Counted
  <2>7. out' \in Seq(Strs) /\ Len(out') = Len(out) + 1 /\ Len(out') <= MaxText
    BY <2>1, <2>5, <2>6
  <2>8. PlaceInv' /\ CountInv'
    BY <1>0, <2>1, <2>3, <2>6 DEF PlaceInv, CountInv, Src, Counted, Texted
  <2>9. IInv'
    BY <1>0, <2>1, <2>3, <2>6, <2>7, <2>8 DEF IInv
  <2>10. ~ Stuck => Left' < Left
    BY <1>0, <2>0, <2>1, <2>3, <2>4 DEF Left, Src
  <2> QED BY <2>9, <2>10 DEF Goes
<1> QED BY <1>1, <1>2

LEMMA SplitKeeps ==
  ASSUME IInv, RegexpSplit
  PROVE  IInv' /\ Goes
<1> DEFINE p == Beg(Src, Pat, at)
           len == Longest(Src, Pat, p)
           q == p + len
           o == IF p # at THEN Append(out, Piece(Src, at, p)) ELSE out
<1>0. /\ status = "running" /\ call.fn = "RegexpSplit"
      /\ Src \in Strs /\ Len(Src) \in Nat /\ Len(Src) < MaxText /\ at \in Nat /\ at <= Len(Src)
      /\ Pat \in SUBSET Strs /\ text \in Strs
      /\ out \in Seq(Strs) /\ Len(out) \in Nat /\ Len(out) <= at /\ MaxText \in Nat
      /\ call.n \in Nat
  <2>1. status = "running" /\ call.fn = "RegexpSplit"
    BY DEF RegexpSplit, Running
  <2>2. Len(out) <= at /\ at <= Len(Src) /\ out \in Seq(Strs)
    BY <2>1 DEF IInv, PlaceInv, Texted
  <2>3. call.n \in Nat
    BY <2>1, InCall DEF CallIs, Counted
  <2> QED BY <2>1, <2>2, <2>3, InCall, Bounds
<1>1. CASE Found(Src) /\ (call.n = 0 \/ count < call.n) /\ Round(text, q, o)
  <2>1. p \in at..Len(Src) /\ len \in 0..(Len(Src) - p) /\ \E w \in Pat : Len(w) = len
    BY <1>0, <1>1, Finds DEF Found
  <2> HIDE DEF p, len
  <2>2. /\ p \in Nat /\ q \in Nat /\ q <= Len(Src) /\ at <= p /\ p <= q
        /\ len \in Nat /\ q = p + len
    BY <1>0, <2>1
  <2> HIDE DEF q
  <2>3. o \in Seq(Strs) /\ Len(o) <= q
    <3>1. CASE p = at
      BY <1>0, <2>2, <3>1
    <3>2. CASE p # at
      <4>1. Drop(Src, at) \in Strs /\ Len(Drop(Src, at)) = Len(Src) - at
        BY <1>0, DropIs
      <4>2. {p, Len(Src) - at} \in SUBSET Nat /\ {p, Len(Src) - at} # {}
        BY <1>0, <2>2
      <4>3. Min({p, Len(Src) - at}) \in Nat /\ Min({p, Len(Src) - at}) <= Len(Src) - at
        BY <4>2, Least
      <4>4. Piece(Src, at, p) \in Strs
        BY <1>0, <4>1, <4>3, TakeIs DEF Piece
      <4>5. o = Append(out, Piece(Src, at, p))
        BY <3>2
      <4> HIDE DEF o
      <4>6. o \in Seq(Strs) /\ Len(o) = Len(out) + 1
        BY <1>0, <4>4, <4>5
      <4> QED BY <1>0, <2>2, <3>2, <4>6
    <3> QED BY <3>1, <3>2
  <2> HIDE DEF o
  <2>4. Len(o) <= MaxText
    <3>1. Len(o) \in Nat
      BY <2>3
    <3> QED BY <1>0, <2>2, <2>3, <3>1
  <2>5. IInv'
    <3>1. call.n # 0 => count < Times(call.n)
      BY <1>0, <1>1 DEF Times
    <3> QED BY <1>0, <1>1, <2>2, <2>3, <2>4, <3>1, RoundKeeps DEF Texted
  <2>6. ASSUME call.n = 0 PROVE Goes
    <3>1. ASSUME ~ Stuck PROVE Len(Src) - q < Len(Src) - at
      <4>1. len > 0
        BY <1>0, <2>1, <3>1, NotEmpty DEF Stuck
      <4> QED BY <1>0, <2>2, <4>1
    <3> QED BY <1>0, <1>1, <3>1, TextGoes DEF Texted
  <2>7. ASSUME call.n # 0 PROVE Goes
    <3>1. count < Times(call.n)
      BY <1>0, <1>1, <2>7 DEF Times
    <3> QED BY <1>0, <1>1, <2>7, <3>1, CountGoes DEF Counted
  <2> QED BY <2>5, <2>6, <2>7
<1>2. CASE /\ \E k \in 0..(Len(Src) - at) :
                out' = IF out = <<>> THEN out ELSE Append(out, Take(Drop(Src, at), k))
           /\ status' = "returned" /\ UNCHANGED <<call, text, at, count>>
  <2>1. PICK k \in 0..(Len(Src) - at) : out' = IF out = <<>> THEN out ELSE Append(out, Take(Drop(Src, at), k))
    BY <1>2
  <2>2. Take(Drop(Src, at), k) \in Strs
    <3>1. Drop(Src, at) \in Strs /\ Len(Drop(Src, at)) = Len(Src) - at
      BY <1>0, DropIs
    <3>2. k \in Int /\ k <= Len(Drop(Src, at))
      BY <1>0, <3>1
    <3> QED BY <3>1, <3>2, TakeIs
  <2>3. out' \in Seq(Strs) /\ Len(out') \in {Len(out), Len(out) + 1}
    BY <1>0, <2>1, <2>2
  <2>4. Len(out') <= MaxText
    BY <1>0, <2>3
  <2>5. PlaceInv' /\ CountInv'
    BY <1>0, <1>2, <2>4 DEF PlaceInv, CountInv, Src, Counted, Texted, IInv
  <2> QED BY <1>0, <1>2, <2>3, <2>4, <2>5 DEF IInv, Goes
<1> QED BY <1>1, <1>2 DEF RegexpSplit

LEMMA ExtrKeeps ==
  ASSUME IInv, Extr
  PROVE  IInv' /\ Goes
<1> DEFINE p == Beg(Src, Pat, at)
           len == Longest(Src, Pat, p)
           begin == p + len
           ends == Places(Src, {Rep}, begin)
           e == Min(ends)
           inside == Cut(Src, begin, e)
           wrapped == IF "inside" \in call.flags THEN inside ELSE Cut(Src, p, e + Len(Rep))
           next == ScanOn(inside, e, Len(Rep))
           o == IF inside # <<>> \/ "empty" \in call.flags THEN Append(out, wrapped) ELSE out
<1>0. /\ status = "running" /\ call.fn = "Extr"
      /\ Src \in Strs /\ Len(Src) \in Nat /\ at \in Nat /\ Pat \in SUBSET Strs /\ text \in Strs
      /\ Rep \in Strs /\ Len(Rep) \in Nat
      /\ out \in Seq(Strs) /\ Len(out) \in Nat /\ MaxText \in Nat /\ call.n \in Nat /\ Len(out) <= MaxText
  <2>1. status = "running" /\ call.fn = "Extr"
    BY DEF Extr, Running
  <2>2. call.n \in Nat
    BY <2>1, InCall DEF CallIs, Counted
  <2>3. out \in Seq(Strs) /\ Len(out) \in Nat /\ MaxText \in Nat /\ Len(out) <= MaxText
    BY Bounds DEF IInv
  <2> QED BY <2>1, <2>2, <2>3, InCall
<1>1. CASE Return
  BY <1>0, <1>1, StopKeeps, StopGoes DEF Return
<1>2. CASE ~ Return
  <2>1. /\ Found(Src) /\ ends # {} /\ (call.n = 0 \/ count < call.n) /\ Len(out) < MaxText
        /\ Round(text, next, o)
    BY <1>2 DEF Extr
  <2>2. p \in at..Len(Src) /\ len \in 0..(Len(Src) - p) /\ \E w \in Pat : Len(w) = len
    BY <1>0, <2>1, Finds DEF Found
  <2> HIDE DEF p, len
  <2>3. p \in Nat /\ begin \in Nat /\ at <= p /\ p <= begin /\ len \in Nat /\ begin = p + len
    BY <1>0, <2>2
  <2> HIDE DEF begin
  <2>4. e \in begin..Len(Src) /\ e <= Len(Src) /\ e + Len(Rep) <= Len(Src) /\ e \in Nat /\ e \in Int
    <3>1. ends \in SUBSET Nat
      BY <1>0, <2>3 DEF Places
    <3>2. e \in ends
      BY <2>1, <3>1, Least
    <3> HIDE DEF e
    <3>3. e \in begin..Len(Src) /\ At(Src, e, Rep)
      BY <3>2 DEF Places
    <3> QED BY <1>0, <2>3, <3>3 DEF At
  <2> HIDE DEF e, ends
  <2>5. inside \in Strs /\ wrapped \in Strs /\ (inside # <<>> => begin < e)
    <3>1. inside \in Strs /\ Len(inside) = IF begin <= e THEN e - begin ELSE 0
      BY <1>0, <2>3, <2>4, CutIs
    <3>2. e + Len(Rep) \in Int
      BY <1>0, <2>4
    <3>3. Cut(Src, p, e + Len(Rep)) \in Strs
      BY <1>0, <2>3, <2>4, <3>2, CutIs
    <3> HIDE DEF inside
    <3>4. inside # <<>> => Len(inside) # 0
      BY <3>1 DEF Strs
    <3> QED BY <2>3, <2>4, <3>1, <3>3, <3>4
  <2> HIDE DEF inside, wrapped
  <2>6. next \in Nat /\ next <= Len(Src) /\ (next = e + Len(Rep) \/ (next = e /\ begin < e))
    BY <1>0, <2>3, <2>4, <2>5 DEF ScanOn
  <2> HIDE DEF next
  <2>7. o \in Seq(Strs) /\ Len(o) <= MaxText
    BY <1>0, <2>1, <2>5
  <2> HIDE DEF o
  <2>8. IInv'
    <3>1. call.n # 0 => count < Times(call.n)
      BY <1>0, <2>1 DEF Times
    <3> QED BY <1>0, <2>1, <2>6, <2>7, <3>1, RoundKeeps DEF Texted
  <2>9. ASSUME call.n = 0 PROVE Goes
    <3>1. ASSUME ~ Stuck PROVE Len(Src) - next < Len(Src) - at
      <4>1. next # e + Len(Rep) \/ len > 0 \/ Len(Rep) > 0
        <5>1. <<>> \notin Pat \/ Rep # <<>>
          BY <1>0, <3>1 DEF Stuck
        <5>2. <<>> \notin Pat => len > 0
          BY <1>0, <2>2, NotEmpty
        <5>3. Rep # <<>> => Len(Rep) > 0
          BY <1>0 DEF Strs
        <5> QED BY <5>1, <5>2, <5>3
      <4>2. at < next
        BY <1>0, <2>3, <2>4, <2>6, <4>1
      <4> QED BY <1>0, <2>6, <4>2
    <3> QED BY <1>0, <2>1, <3>1, TextGoes DEF Texted
  <2>10. ASSUME call.n # 0 PROVE Goes
    <3>1. count < Times(call.n)
      BY <1>0, <2>1, <2>10 DEF Times
    <3> QED BY <1>0, <2>1, <2>10, <3>1, CountGoes DEF Counted
  <2> QED BY <2>8, <2>9, <2>10
<1> QED BY <1>1, <1>2

LEMMA DeleteOverlapKeeps ==
  ASSUME IInv, DeleteOverlap
  PROVE  IInv' /\ Goes
<1> DEFINE Seps(i) == {k \in i..(Len(Src) - 1) : Src[k + 1] \in ToSet(Rep)}
           begins == (at..(Len(Src) - 1)) \ Seps(at)
           b == Min(begins)
           rest == Seps(b) \cup {Len(Src)}
           e == Min(rest)
           word == Cut(Src, b, e)
           next == Min({e + 1, Len(Src)})
<1>0. /\ status = "running" /\ call.fn = "DeleteOverlap"
      /\ Src \in Strs /\ Len(Src) \in Nat /\ Len(Src) < MaxText /\ at \in Nat /\ text \in Strs
      /\ Rep \in Strs /\ out \in Seq(Strs) /\ Len(out) \in Nat /\ Len(out) <= at /\ MaxText \in Nat
      /\ call.n = 0
  <2>1. status = "running" /\ call.fn = "DeleteOverlap"
    BY DEF DeleteOverlap, Running
  <2>2. call.n = 0
    BY <2>1, InCall DEF CallIs, Counted
  <2>3. out \in Seq(Strs) /\ Len(out) \in Nat /\ Len(out) <= at
    BY <2>1 DEF IInv, PlaceInv
  <2> QED BY <2>1, <2>2, <2>3, InCall, Bounds
<1>1. CASE Return \/ Stop("wild")
  BY <1>0, <1>1, StopKeeps, StopGoes DEF Return
<1>2. CASE ~ (Return \/ Stop("wild"))
  <2>1. /\ begins # {}
        /\ IF word \in ToSet(out) THEN Round(text, next, out)
           ELSE Round(IF out = <<>> THEN word ELSE text \o Rep \o word, next, Append(out, word))
    BY <1>2 DEF DeleteOverlap
  <2>2. b \in begins /\ b \in at..(Len(Src) - 1) /\ b \notin Seps(at)
    <3>1. begins \in SUBSET Nat
      BY <1>0
    <3>2. b \in begins
      BY <2>1, <3>1, Least
    <3> QED BY <3>2
  <2> HIDE DEF b, begins
  <2>3. b \in Nat /\ at <= b /\ b < Len(Src) /\ b \notin Seps(b)
    BY <1>0, <2>2
  <2>4. e \in Nat /\ e <= Len(Src) /\ b < e
    <3>1. rest \in SUBSET Nat /\ rest # {}
      BY <1>0, <2>3
    <3>2. e \in rest
      <4> HIDE DEF rest
      <4> QED BY <3>1, Least
    <3> HIDE DEF e
    <3>3. e = Len(Src) \/ (e \in b..(Len(Src) - 1) /\ e # b)
      BY <2>3, <3>2
    <3> QED BY <1>0, <2>3, <3>3
  <2> HIDE DEF e, rest
  <2>5. next \in Nat /\ next <= Len(Src) /\ at < next
    <3>1. {e + 1, Len(Src)} \in SUBSET Nat /\ {e + 1, Len(Src)} # {}
      BY <1>0, <2>4
    <3>2. next \in {e + 1, Len(Src)} /\ next <= Len(Src)
      BY <3>1, Least
    <3> HIDE DEF next
    <3> QED BY <1>0, <2>3, <2>4, <3>2
  <2> HIDE DEF next
  <2>6. word \in Strs
    BY <1>0, <2>3, <2>4, CutIs
  <2> HIDE DEF word
  <2>7. PICK t, o : /\ t \in Strs /\ o \in Seq(Strs) /\ Len(o) <= next /\ Len(o) <= MaxText
                    /\ Round(t, next, o)
    <3>1. CASE word \in ToSet(out)
      <4>1. Len(out) <= next /\ Len(out) <= MaxText
        BY <1>0, <2>5
      <4> QED BY <1>0, <2>1, <3>1, <4>1
    <3>2. CASE word \notin ToSet(out)
      <4> DEFINE t == IF out = <<>> THEN word ELSE text \o Rep \o word
                 o == Append(out, word)
      <4>1. Round(t, next, o)
        BY <2>1, <3>2
      <4>2. t \in Strs
        BY <1>0, <2>6, Joined
      <4>3. o \in Seq(Strs) /\ Len(o) = Len(out) + 1
        BY <1>0, <2>6
      <4> HIDE DEF t, o
      <4>4. Len(o) <= next /\ Len(o) <= MaxText
        BY <1>0, <2>5, <4>3
      <4> QED BY <4>1, <4>2, <4>3, <4>4
    <3> QED BY <3>1, <3>2
  <2>8. IInv'
    BY <1>0, <2>5, <2>7, RoundKeeps DEF Texted
  <2>9. Len(Src) - next < Len(Src) - at
    BY <1>0, <2>5
  <2> QED BY <1>0, <2>7, <2>8, <2>9, TextGoes DEF Texted
<1> QED BY <1>1, <1>2

-----------------------------------------------------------------------------
LEMMA EncodeURIKeeps ==
  ASSUME IInv, EncodeURI
  PROVE  IInv' /\ Goes
<1> DEFINE t == text \o Encoded(Src[at + 1], call.flags)
<1>0. /\ status = "running" /\ call.fn = "EncodeURI"
      /\ Src \in Strs /\ Len(Src) \in Nat /\ at \in Nat /\ text \in Strs /\ call.n = 0
  <2>1. status = "running" /\ call.fn = "EncodeURI"
    BY DEF EncodeURI, Running
  <2> QED BY <2>1, InCall DEF CallIs, Counted
<1>1. CASE Stop("nothing") \/ Return
  BY <1>0, <1>1, StopKeeps, StopGoes DEF Return
<1>2. CASE at < Len(Src) /\ Round(t, at + 1, out)
  <2>1. Encoded(Src[at + 1], call.flags) \in Strs
    <3>1. Src[at + 1] \in Chars
      BY <1>0, <1>2 DEF Strs
    <3>2. {"%", "2", "5", "F"} \subseteq Chars
      BY DEF Chars, UriChars, Digits
    <3> QED BY <3>1, <3>2 DEF Encoded, Hex, Strs
  <2>2. t \in Strs
    BY <1>0, <2>1, Joined
  <2> HIDE DEF t
  <2>3. at + 1 \in Nat /\ at + 1 <= Len(Src) /\ Len(Src) - (at + 1) < Len(Src) - at
    BY <1>0, <1>2
  <2>4. IInv'
    BY <1>0, <1>2, <2>2, <2>3, RoundKeeps DEF IInv, Texted, Counted
  <2> QED BY <1>0, <1>2, <2>3, <2>4, TextGoes DEF Texted
<1> QED BY <1>0, <1>1, <1>2 DEF EncodeURI

(* A character that is passed has a byte at least. *)
LEMMA PassKeeps ==
  ASSUME IInv, status = "running", call.fn \in Bytewise, at < Len(Src), NEW t \in Strs, Pass(t),
         call.fn = "StrPos" => count < call.n
  PROVE  IInv' /\ Goes
<1> DEFINE width == ByteCount(Src[at + 1])
<1>0. /\ Src \in Seq(DOMAIN Widths) /\ Len(Src) \in Nat /\ at \in Nat
      /\ call.n \in Int /\ (call.fn = "Strlen" => call.n = -1) /\ (call.fn = "StrtoBytes" => call.n = 0)
  BY InCall DEF CallIs, Counted, Bytewise, Src
<1>1. width \in Nat /\ width > 0
  <2>1. Src[at + 1] \in DOMAIN Widths
    BY <1>0
  <2> QED BY <2>1 DEF ByteCount, Widths
<1> HIDE DEF width
<1>2. CASE Stop("wild")
  BY <1>2, StopKeeps, StopGoes
<1>3. CASE at + width <= Len(Src) /\ Round(t, at + width, out)
  <2>1. at + width \in Nat /\ at < at + width /\ Len(Src) - (at + width) < Len(Src) - at
    BY <1>0, <1>1
  <2>2. call.fn \in Counted /\ call.n # 0 => count < Times(call.n)
    BY <1>0 DEF Bytewise, Counted, Times, IInv
  <2>3. IInv'
    BY <1>0, <1>3, <2>1, <2>2, RoundKeeps DEF IInv, Texted, Bytewise
  <2>4. call.fn \notin Texted
    BY DEF Texted, Bytewise
  <2> QED BY <1>3, <2>1, <2>3, <2>4, TextGoes
<1>4. Stop("wild") \/ (at + width <= Len(Src) /\ Round(t, at + width, out))
  <2>1. ~ (at + width > Len(Src)) => at + width <= Len(Src)
    BY <1>0, <1>1
  <2> QED BY <2>1 DEF Pass, width
<1> QED BY <1>2, <1>3, <1>4

LEMMA BytewiseKeeps ==
  ASSUME IInv, Strlen \/ StrPos \/ StrtoBytes
  PROVE  IInv' /\ Goes
<1>0. status = "running" /\ call.fn \in Bytewise
  BY DEF Strlen, StrPos, StrtoBytes, Running, Bytewise
<1>1. CASE Return \/ Stop("nothing")
  BY <1>0, <1>1, StopKeeps, StopGoes DEF Return
<1>2. CASE ~ (Return \/ Stop("nothing")) /\ (Strlen \/ StrPos)
  <2>1. at < Len(Src) /\ Pass(text) /\ (call.fn = "StrPos" => count < call.n)
    BY <1>2 DEF Strlen, StrPos, Running
  <2> QED BY <1>0, <2>1, InCall, PassKeeps
<1>3. CASE ~ (Return \/ Stop("nothing")) /\ StrtoBytes
  <2> DEFINE width == ByteCount(Src[at + 1])
             more == IF width = 1 THEN <<Src[at + 1]>> ELSE [k \in 1..(2 * width) |-> "digit"]
  <2>1. at < Len(Src) /\ Pass(text \o more) /\ call.fn = "StrtoBytes"
    BY <1>3 DEF StrtoBytes, Running
  <2>2. more \in Strs /\ text \in Strs
    <3>1. Src \in Strs /\ text \in Strs /\ at \in Nat /\ Len(Src) \in Nat /\ Src \in Seq(DOMAIN Widths)
      BY <1>0, InCall DEF CallIs, Src
    <3>2. Src[at + 1] \in Chars /\ Src[at + 1] \in DOMAIN Widths
      BY <2>1, <3>1 DEF Strs
    <3>3. 2 * width \in Nat
      BY <3>2 DEF ByteCount, Widths
    <3>4. <<Src[at + 1]>> \in Strs
      BY <3>2 DEF Strs
    <3>5. "digit" \in Chars
      BY DEF Chars
    <3> HIDE DEF width
    <3>6. [k \in 1..(2 * width) |-> "digit"] \in Strs
      BY <3>3, <3>5 DEF Strs
    <3> QED BY <3>1, <3>4, <3>6
  <2>3. text \o more \in Strs
    <3> HIDE DEF more
    <3> QED BY <2>2, Joined
  <2> HIDE DEF more
  <2> QED BY <1>0, <2>1, <2>3, PassKeeps
<1> QED BY <1>1, <1>2, <1>3

LEMMA BeginKeeps ==
  ASSUME IInv, Begin
  PROVE  IInv' /\ Goes
<1>1. /\ status = "idle" /\ at = 0 /\ count = 0 /\ out = <<>>
      /\ call' \in AllCalls /\ status' \in {"running", "failed"}
      /\ text' = IF call'.fn \in {"EncodeURI", "StrtoBytes"} THEN <<>> ELSE call'.src
      /\ UNCHANGED <<at, count, out>>
  BY DEF Begin, IInv, AllCalls
<1>2. CallIs(call')
  BY <1>1, CallsAre
<1>3. <<>> \in Strs /\ Len(<<>>) = 0 /\ MaxText \in Nat /\ MaxSrc \in Nat /\ MaxSrc < MaxText
  BY Bounds DEF Strs
<1>4. call'.src \in Strs /\ Len(call'.src) <= MaxSrc /\ Len(call'.src) \in Nat
  BY <1>2 DEF CallIs, Strs
<1>5. text' \in Strs /\ Len(text') \in Nat /\ Len(text') <= MaxText
  BY <1>1, <1>3, <1>4
<1>6. PlaceInv'
  BY <1>1, <1>3, <1>4, <1>5 DEF PlaceInv, Src
<1>7. CountInv'
  BY <1>1, <1>2 DEF CountInv, CallIs, Times, Counted
<1> QED BY <1>1, <1>3, <1>5, <1>6, <1>7 DEF IInv, Goes

LEMMA NextKeeps == IInv /\ [Next]_vars => IInv' /\ (Next => Goes)
<1> SUFFICES ASSUME IInv, [Next]_vars PROVE IInv' /\ (Next => Goes)
  OBVIOUS
<1>1. ASSUME Next PROVE IInv' /\ Goes
  BY <1>1, StrReplaceKeeps, BufReplaceKeeps, EOLtoLFKeeps, RegexpReplaceKeeps, FailureKeeps, MatchKeeps,
     SplitKeeps, ExtrKeeps, DeleteOverlapKeeps, EncodeURIKeeps, BytewiseKeeps, BeginKeeps DEF Next, Rounds
<1>2. UNCHANGED vars => IInv'
  BY DEF vars, IInv, PlaceInv, CountInv, Src
<1> QED BY <1>1, <1>2

LEMMA InitHolds == Init => IInv
BY Bounds DEF Init, IInv, Strs

LEMMA Invariant == Spec => []IInv
BY InitHolds, NextKeeps, PTL DEF Spec

-----------------------------------------------------------------------------
(* What a call works with stays in its bounds, and the place of its search in *)
(* the text: `match', `start', `scanSrc' and `ptr' never point behind its NUL, *)
(* except in kahanaStrRegexpReplace.                                         *)
THEOREM TypeCorrect == Spec => []TypeOK
<1>1. IInv => TypeOK
  <2> SUFFICES ASSUME IInv PROVE TypeOK
    OBVIOUS
  <2>1. status = "idle" <=> call = Null
    BY NullAssumption DEF IInv
  <2> QED BY <2>1 DEF IInv, TypeOK, PlaceInv, Texted
<1> QED BY <1>1, Invariant, PTL

(* Each round of a loop of string.c leaves less of the text to search or is   *)
(* one of those it is limited to, unless an empty match keeps it where it is. *)
THEOREM LoopsGoForward == Spec => GoesForward
<1>1. IInv /\ [Next]_vars =>
        [status = "running" /\ status' = "running" /\ ~ Stuck =>
           Left' < Left \/ (count < count' /\ count' <= Limit)]_vars
  BY NextKeeps DEF Goes
<1> QED BY <1>1, Invariant, PTL DEF Spec, GoesForward

-----------------------------------------------------------------------------
(* A call that goes from character to character of UTF-8 is between two. *)
LeadInv ==
  status = "running" /\ call.fn \in Bytewise /\ WellFormed(Src) => at + 1 \in Leads(Src) \cup {Len(Src) + 1}

(* The cases in which something outside the text is written or read. *)
StrayInv ==
  /\ status = "wild" =>
       \/ call.fn = "BufReplace" /\ call.n = 0 /\ \A w \in Pat : Len(w) # Len(Rep)
       \/ call.fn \in Bytewise /\ ~ WellFormed(Src)
       \/ call.fn = "DeleteOverlap"
  /\ status = "stale" => call.fn = "BufReplace" /\ \A w \in Pat : Len(w) < Len(Rep)

LEMMA PassStays ==
  ASSUME IInv, LeadInv, status = "running", call.fn \in Bytewise, at < Len(Src), NEW t, Pass(t)
  PROVE  StrayInv' /\ LeadInv'
<1> DEFINE width == ByteCount(Src[at + 1])
<1>0. Src \in Seq(DOMAIN Widths) /\ Len(Src) \in Nat /\ at \in Nat
  BY InCall DEF CallIs, Src
<1>1. width \in Nat /\ width > 0
  <2>1. Src[at + 1] \in DOMAIN Widths
    BY <1>0
  <2> QED BY <2>1 DEF ByteCount, Widths
<1>2. WellFormed(Src) => at + 1 + width \in Leads(Src) \cup {Len(Src) + 1}
  <2> SUFFICES ASSUME WellFormed(Src) PROVE at + 1 + width \in Leads(Src) \cup {Len(Src) + 1}
    OBVIOUS
  <2>1. at + 1 \in Leads(Src)
    BY <1>0 DEF LeadInv
  <2> QED BY <2>1 DEF WellFormed
<1>3. WellFormed(Src) => at + width <= Len(Src)
  <2>1. Leads(Src) \subseteq 1..Len(Src)
    BY <1>0 DEF Leads
  <2> HIDE DEF width
  <2> QED BY <1>0, <1>1, <1>2, <2>1
<1>4. CASE ~ WellFormed(Src) /\ Stop("wild")
  BY <1>4 DEF Stop, StrayInv, LeadInv, Src, Bytewise
<1>5. CASE Round(t, at + width, out)
  <2>1. at' = at + width /\ call' = call /\ status' = "running"
    BY <1>5 DEF Round
  <2>2. Src' = Src /\ at' + 1 = at + 1 + width
    <3> HIDE DEF width
    <3> QED BY <1>0, <1>1, <2>1 DEF Src
  <2> QED BY <1>2, <2>1, <2>2 DEF StrayInv, LeadInv
<1>6. (~ WellFormed(Src) /\ Stop("wild")) \/ Round(t, at + width, out)
  <2>1. at + width > Len(Src) => ~ WellFormed(Src)
    <3> HIDE DEF width
    <3> QED BY <1>0, <1>1, <1>3
  <2> QED BY <2>1 DEF Pass, width
<1> QED BY <1>4, <1>5, <1>6

LEMMA BufReplaceStays ==
  ASSUME IInv, BufReplace
  PROVE  StrayInv' /\ LeadInv'
<1>0. status = "running" /\ call.fn = "BufReplace"
  BY DEF BufReplace, Running
<1>1. CASE Return
  BY <1>0, <1>1 DEF Return, Stop, StrayInv, LeadInv
<1>2. CASE ~ Return
  <2>1. PICK p, rlen, len, match :
           /\ p \in at..Len(text) /\ p \in Nat /\ rlen \in Nat /\ len \in Nat /\ match \in Int
            /\ p + rlen <= Len(text)
           /\ len = Len(Rep) /\ (\A w \in Pat : Len(w) = rlen) /\ call.n \in Nat
           /\ match = Resumed(p, len, rlen, call.n)
           /\ call.n # 0 => count < call.n
           /\ \/ /\ match \in 0..(Len(text) - rlen + len)
                 /\ \E t \in Strs : Len(t) = Len(text) - rlen + len /\ Round(t, match, out)
              \/ match \notin 0..(Len(text) - rlen + len) /\ Stop("wild")
              \/ len > rlen /\ (Stop("failed") \/ Stop("stale"))
    BY <1>2, BufReplaceRound
  <2>2. CASE match \notin 0..(Len(text) - rlen + len) /\ Stop("wild")
    <3>1. call.n = 0 /\ len # rlen
      BY <1>0, <2>1, <2>2, InCall, ResumedIs
    <3> QED BY <1>0, <2>1, <2>2, <3>1 DEF Stop, StrayInv, LeadInv, Rep, Pat, Bytewise
  <2>3. CASE len > rlen /\ (Stop("failed") \/ Stop("stale"))
    <3>1. \A w \in Pat : Len(w) < Len(Rep)
      BY <2>1, <2>3
    <3> QED BY <1>0, <2>3, <3>1 DEF Stop, StrayInv, LeadInv, Rep, Pat, Bytewise
  <2>4. CASE \E t \in Strs : Round(t, match, out)
    BY <1>0, <2>4 DEF Round, StrayInv, LeadInv, Bytewise
  <2> QED BY <2>1, <2>2, <2>3, <2>4
<1> QED BY <1>1, <1>2

LEMMA NextStays == IInv /\ StrayInv /\ LeadInv /\ [Next]_vars => StrayInv' /\ LeadInv'
<1> SUFFICES ASSUME IInv, StrayInv, LeadInv, [Next]_vars PROVE StrayInv' /\ LeadInv'
  OBVIOUS
<1>1. CASE UNCHANGED vars
  BY <1>1 DEF vars, StrayInv, LeadInv, Src, Pat, Rep
<1>2. CASE Begin
  <2>1. /\ at' = 0 /\ call' \in AllCalls /\ status' \in {"running", "failed"}
    BY <1>2 DEF Begin, IInv, AllCalls
  <2>2. CallIs(call') /\ Src' = call'.src
    BY <2>1, CallsAre DEF Src
  <2>3. WellFormed(Src') => 1 \in Leads(Src') \cup {Len(Src') + 1}
    BY <2>2 DEF WellFormed, CallIs
  <2> QED BY <2>1, <2>2, <2>3 DEF StrayInv, LeadInv
<1>3. CASE Strlen \/ StrPos \/ StrtoBytes
  <2>1. status = "running" /\ call.fn \in Bytewise
    BY <1>3 DEF Strlen, StrPos, StrtoBytes, Running, Bytewise
  <2>2. CASE Return \/ Stop("nothing")
    BY <2>2 DEF Return, Stop, StrayInv, LeadInv
  <2>3. CASE ~ (Return \/ Stop("nothing"))
    <3>1. at < Len(Src) /\ \E t : Pass(t)
      BY <1>3, <2>3 DEF Strlen, StrPos, StrtoBytes
    <3> QED BY <2>1, <3>1, PassStays
  <2> QED BY <2>2, <2>3
<1>4. CASE /\ ~ BufReplace
           /\ \/ StrReplace \/ BufReplace \/ EOLtoLF \/ RegexpReplace \/ ReplaceByCallback
              \/ RegexpMatch \/ RegexpSplit \/ SearchFails \/ Extr \/ DeleteOverlap \/ EncodeURI
  <2>1. status = "running" /\ call.fn \notin Bytewise /\ call' = call
    BY <1>4 DEF StrReplace, EOLtoLF, RegexpReplace, ReplaceByCallback, RegexpMatch, RegexpSplit, SearchFails,
       Extr, DeleteOverlap, EncodeURI, Running, Bytewise, Round, Return, Stop
  <2>2. status' # "stale" /\ (status' = "wild" => call.fn = "DeleteOverlap")
    BY <1>4, <2>1 DEF StrReplace, EOLtoLF, RegexpReplace, ReplaceByCallback, RegexpMatch, RegexpSplit,
       SearchFails, Extr, DeleteOverlap, EncodeURI, Running, Round, Return, Stop
  <2> QED BY <2>1, <2>2 DEF StrayInv, LeadInv
<1> QED BY <1>1, <1>2, <1>3, <1>4, BufReplaceStays DEF Next, Rounds

(* Where the search is, in the text but in kahanaStrRegexpReplace. *)
OvershootInv ==
  status # "idle" =>
     \/ Left >= 0
     \/ call.fn = "RegexpReplace" /\ <<>> \in Pat /\ Left >= - Len(Rep)

LEMMA NextOvershoots == IInv /\ OvershootInv /\ IInv' /\ [Next]_vars => OvershootInv'
<1> SUFFICES ASSUME IInv, OvershootInv, IInv', [Next]_vars, status' # "idle" PROVE OvershootInv'
  BY DEF OvershootInv
<1>1. CallIs(call)' /\ at' \in Nat /\ text' \in Strs /\ PlaceInv'
  BY CallsAre DEF IInv, CallIs
<1>2. Len(text') \in Nat /\ Len(Src') \in Nat
  BY <1>1 DEF CallIs, Src, Strs
<1>3. CASE call'.fn # "RegexpReplace"
  BY <1>1, <1>2, <1>3 DEF OvershootInv, PlaceInv, Left, Texted
<1>4. CASE call'.fn = "RegexpReplace" /\ status = "idle"
  <2>1. Begin
    BY <1>4 DEF Next, Rounds, StrReplace, BufReplace, EOLtoLF, RegexpReplace, ReplaceByCallback, RegexpMatch,
       RegexpSplit, SearchFails, Extr, DeleteOverlap, EncodeURI, Strlen, StrPos, StrtoBytes, Running, vars
  <2>2. at' = 0
    BY <1>4, <2>1 DEF Begin, IInv
  <2> QED BY <1>2, <1>4, <2>2 DEF OvershootInv, Left
<1>5. CASE call'.fn = "RegexpReplace" /\ status # "idle" /\ UNCHANGED <<call, text, at>>
  BY <1>5 DEF OvershootInv, Left, Src, Pat, Rep
<1>6. CASE call'.fn = "RegexpReplace" /\ status # "idle" /\ ~ UNCHANGED <<call, text, at>>
  <2>1. Next /\ ~ Begin
    BY <1>6 DEF vars, Begin
  <2>2. call' = call
    <3>1. CASE StrReplace \/ BufReplace \/ EOLtoLF \/ RegexpReplace \/ ReplaceByCallback
      BY <3>1 DEF StrReplace, BufReplace, EOLtoLF, RegexpReplace, ReplaceByCallback, Round, Return, Stop
    <3>2. CASE RegexpMatch \/ RegexpSplit \/ SearchFails \/ Extr
      BY <3>2 DEF RegexpMatch, RegexpSplit, SearchFails, Extr, Round, Return, Stop
    <3>3. CASE DeleteOverlap \/ EncodeURI
      BY <3>3 DEF DeleteOverlap, EncodeURI, Round, Return, Stop
    <3>4. CASE Strlen \/ StrPos \/ StrtoBytes
      BY <3>4 DEF Strlen, StrPos, StrtoBytes, Pass, Round, Return, Stop
    <3> QED BY <2>1, <3>1, <3>2, <3>3, <3>4 DEF Next, Rounds
  <2> DEFINE p == Beg(text, Pat, at)
             rlen == Longest(text, Pat, p)
             q == p + rlen
             t == ReplaceFromTo(text, p, q, Rep)
  <2>3. status = "running" /\ call.fn = "RegexpReplace" /\ Found(text) /\ Round(t, p + Len(Rep), out)
    BY <1>6, <2>1, <2>2 DEF Next, Rounds, StrReplace, BufReplace, EOLtoLF, RegexpReplace, ReplaceByCallback,
       RegexpMatch, RegexpSplit, SearchFails, Extr, DeleteOverlap, EncodeURI, Strlen, StrPos, StrtoBytes,
       Running, Return, Stop
  <2>4. /\ text \in Strs /\ Len(text) \in Nat /\ at \in Nat /\ Pat \in SUBSET Strs
        /\ Rep \in Strs /\ Len(Rep) \in Nat
    BY <2>3, InCall
  <2>5. p \in at..Len(text) /\ rlen \in 0..(Len(text) - p) /\ \E w \in Pat : Len(w) = rlen
    BY <2>3, <2>4, Finds DEF Found
  <2> HIDE DEF p, rlen
  <2>6. p \in Nat /\ q \in Nat /\ p <= q /\ q <= Len(text) /\ q - p = rlen /\ rlen \in Nat
    BY <2>4, <2>5
  <2> HIDE DEF q
  <2>7. t \in Strs /\ Len(t) = IF p < q THEN Len(text) - (q - p) + Len(Rep) ELSE Len(text)
    BY <2>4, <2>6, ReplaceFromToIs
  <2> HIDE DEF t
  <2>8. /\ Left' = Len(t) - (p + Len(Rep)) /\ Rep' = Rep /\ Pat' = Pat
    BY <2>3 DEF Round, Left, Rep, Pat
  <2>9. CASE p < q
    <3>1. Left' >= 0
      BY <2>4, <2>6, <2>7, <2>8, <2>9
    <3> QED BY <3>1 DEF OvershootInv
  <2>10. CASE ~ (p < q)
    <3>1. rlen = 0 /\ Left' >= - Len(Rep)
      BY <2>4, <2>6, <2>7, <2>8, <2>10
    <3>2. <<>> \in Pat
      <4>1. PICK w \in Pat : Len(w) = 0
        BY <2>5, <3>1
      <4>2. w \in Seq(Chars)
        BY <2>4 DEF Strs
      <4> QED BY <4>1, <4>2
    <3> QED BY <1>6, <2>8, <3>1, <3>2 DEF OvershootInv
  <2> QED BY <2>9, <2>10
<1> QED BY <1>3, <1>4, <1>5, <1>6

(* The pointer of a call leaves its text, or its block, in the cases          *)
(* StaysInText names and in no other.                                        *)
THEOREM LeavesTextOnlyAsTold == Spec => []StaysInText
<1>1. Init => StrayInv /\ LeadInv /\ OvershootInv
  BY DEF Init, StrayInv, LeadInv, OvershootInv
<1>2. StrayInv /\ OvershootInv => StaysInText
  BY DEF StrayInv, OvershootInv, StaysInText, Bytewise
<1> QED BY <1>1, <1>2, NextStays, NextOvershoots, Invariant, PTL DEF Spec

-----------------------------------------------------------------------------
(* Induction up to a number. *)
LEMMA UpTo ==
  ASSUME NEW n \in Nat, NEW T, 0 \in T, \A k \in 1..n : k - 1 \in T => k \in T
  PROVE  0..n \subseteq T
<1> SUFFICES ASSUME (0..n) \ T # {} PROVE FALSE
  OBVIOUS
<1> DEFINE Rest == (0..n) \ T
<1>1. Rest \in SUBSET Nat /\ Rest # {}
  OBVIOUS
<1>2. Min(Rest) \in Rest /\ \A y \in Rest : Min(Rest) <= y
  <2> HIDE DEF Rest
  <2> QED BY <1>1, Least
<1> DEFINE x == Min(Rest)
<1> HIDE DEF x
<1>3. x \in Rest /\ \A y \in Rest : x <= y
  BY <1>2 DEF x
<1>4. x \in 1..n /\ x - 1 \in 0..n /\ ~ (x <= x - 1)
  BY <1>3
<1>5. x - 1 \notin T
  BY <1>3, <1>4
<1> QED BY <1>3, <1>4, <1>5

(* The loop of kahanaStrDecodeURI, for what follows from offset m - 1 on. *)
After(s, i, flags) == i + DecodedAt(s, i, flags)[2]
Decodes(d, s, flags, m) ==
  d = [i \in m..(Len(s) + 1) |->
         IF i > Len(s) THEN <<>> ELSE <<DecodedAt(s, i, flags)[1]>> \o d[After(s, i, flags)]]

LEMMA AfterIs ==
  ASSUME NEW s \in Strs, NEW flags, NEW i \in 1..Len(s)
  PROVE  After(s, i, flags) \in (i + 1)..(Len(s) + 1)
<1>0. Len(s) \in Nat
  BY DEF Strs
<1> DEFINE IsHex(k) == i + k <= Len(s) /\ s[i + k] \in Digits
           char == CharOf(SubSeq(s, i + 1, i + 2))
           two == s[i] = "%" /\ IsHex(1) /\ IsHex(2) /\ char \notin KeptEncoded(flags)
           four == s[i] = "%" /\ i < Len(s) /\ s[i + 1] = "u" /\ \A k \in 2..5 : IsHex(k)
<1>1. ~ (two /\ four)
  BY DEF Digits
<1>2. CASE two
  <2>1. DecodedAt(s, i, flags) = <<char, 3>>
    BY <1>1, <1>2 DEF DecodedAt
  <2>2. i + 2 <= Len(s)
    BY <1>2
  <2> QED BY <1>0, <2>1, <2>2 DEF After
<1>3. CASE four
  <2>1. DecodedAt(s, i, flags) = <<CharOf(SubSeq(s, i + 4, i + 5)), 6>>
    BY <1>1, <1>3 DEF DecodedAt
  <2>2. i + 5 <= Len(s)
    BY <1>3
  <2> QED BY <1>0, <2>1, <2>2 DEF After
<1>4. CASE ~ two /\ ~ four
  <2>1. DecodedAt(s, i, flags) = <<s[i], 1>>
    BY <1>4 DEF DecodedAt
  <2> QED BY <1>0, <2>1 DEF After
<1> QED BY <1>2, <1>3, <1>4

LEMMA DecodesEarlier ==
  ASSUME NEW s \in Strs, NEW flags, NEW m \in 1..Len(s), NEW d, Decodes(d, s, flags, m + 1)
  PROVE  \E e : Decodes(e, s, flags, m)
<1> DEFINE n == Len(s)
           C(i) == <<DecodedAt(s, i, flags)[1]>>
           A(i) == After(s, i, flags)
           e == [i \in m..(n + 1) |-> IF i = m THEN C(m) \o d[A(m)] ELSE d[i]]
<1>0. n \in Nat /\ m \in 1..n
  BY DEF Strs
<1>1. \A i \in 1..n : A(i) \in (i + 1)..(n + 1)
  BY AfterIs
<1>2. \A i \in (m + 1)..(n + 1) : d[i] = IF i > n THEN <<>> ELSE C(i) \o d[A(i)]
  BY DEF Decodes
<1> HIDE DEF n, A, C
<1>3. e[m] = C(m) \o d[A(m)] /\ \A i \in (m + 1)..(n + 1) : e[i] = d[i]
  <2>1. m \in m..(n + 1) /\ \A i \in (m + 1)..(n + 1) : i \in m..(n + 1) /\ i # m
    BY <1>0
  <2> QED BY <2>1
<1>4. e = [i \in m..(n + 1) |-> e[i]]
  OBVIOUS
<1> HIDE DEF e
<1>5. ASSUME NEW i \in m..(n + 1) PROVE e[i] = IF i > n THEN <<>> ELSE C(i) \o e[A(i)]
  <2>1. CASE i = m
    <3>1. A(m) \in (m + 1)..(n + 1) /\ ~ (m > n)
      BY <1>0, <1>1
    <3> QED BY <1>3, <2>1, <3>1
  <2>2. CASE i # m
    <3>1. i \in (m + 1)..(n + 1)
      BY <1>0, <2>2
    <3>2. CASE i > n
      BY <1>2, <1>3, <3>1, <3>2
    <3>3. CASE ~ (i > n)
      <4>1. i \in 1..n
        BY <1>0, <3>3
      <4>2. A(i) \in (i + 1)..(n + 1)
        BY <1>1, <4>1
      <4>3. A(i) \in (m + 1)..(n + 1)
        BY <1>0, <3>1, <4>2
      <4> QED BY <1>2, <1>3, <3>1, <3>3, <4>3
    <3> QED BY <3>2, <3>3
  <2> QED BY <2>1, <2>2
<1>6. e = [i \in m..(n + 1) |-> IF i > n THEN <<>> ELSE C(i) \o e[A(i)]]
  BY <1>4, <1>5
<1> QED BY <1>6 DEF Decodes, n, A, C

LEMMA DecodeURIIs ==
  ASSUME NEW s \in Strs, NEW flags
  PROVE  \E d : Decodes(d, s, flags, 1) /\ DecodeURI(s, flags) = d[1]
<1> DEFINE n == Len(s)
           T == {k \in 0..n : \E d : Decodes(d, s, flags, n + 1 - k)}
<1>0. n \in Nat
  BY DEF Strs
<1>1. 0 \in T
  <2> DEFINE d == [i \in (n + 1)..(n + 1) |-> <<>>]
  <2>1. \A i \in (n + 1)..(n + 1) : i > n
    BY <1>0
  <2>2. Decodes(d, s, flags, n + 1)
    BY <2>1 DEF Decodes
  <2>3. n + 1 - 0 = n + 1 /\ 0 \in 0..n
    BY <1>0
  <2> HIDE DEF d, n
  <2> QED BY <2>2, <2>3
<1>2. ASSUME NEW k \in 1..n, k - 1 \in T PROVE k \in T
  <2> DEFINE m == n + 1 - k
  <2>1. m \in 1..n /\ n + 1 - (k - 1) = m + 1 /\ k \in 0..n
    BY <1>0
  <2>2. \E d : Decodes(d, s, flags, m + 1)
    BY <1>2, <2>1
  <2> HIDE DEF m
  <2>3. \E e : Decodes(e, s, flags, m)
    BY <2>1, <2>2, DecodesEarlier
  <2> QED BY <2>1, <2>3 DEF m
<1>3. n \in T
  <2> HIDE DEF T
  <2> HIDE DEF n
  <2>1. 0..n \subseteq T
    BY <1>0, <1>1, <1>2, UpTo
  <2> QED BY <1>0, <2>1
<1>4. \E d : Decodes(d, s, flags, 1)
  <2>1. n + 1 - n = 1
    BY <1>0
  <2> QED BY <1>3, <2>1
<1> QED BY <1>4 DEF DecodeURI, Decodes, After

LEMMA SameText ==
  ASSUME NEW X, NEW r \in Seq(X), NEW s \in Seq(X), Len(r) = Len(s), \A k \in 1..Len(r) : r[k] = s[k]
  PROVE  r = s
OBVIOUS

(* What kahanaStrEncodeURI makes of a character becomes that character again. *)
LEMMA EncodedIs ==
  ASSUME NEW c \in UriChars, NEW flags
  PROVE  /\ Encoded(c, flags) \in Strs /\ Len(Encoded(c, flags)) \in Nat \ {0}
         /\ \/ /\ c # "u" /\ c \notin KeptEncoded(flags)
               /\ \E x, y \in Digits : CharOf(<<x, y>>) = c /\ Encoded(c, flags) = <<"%", x, y>>
            \/ c # "%" /\ Encoded(c, flags) = <<c>>
<1>1. {"%", "2", "5", "F"} \subseteq Chars /\ c \in Chars /\ {"2", "5", "F"} = Digits
  BY DEF Chars, UriChars, Digits
<1>2. CASE c = "%" \/ (c = "/" /\ "component" \in flags)
  <2>1. c # "u" /\ c \notin KeptEncoded(flags)
    BY <1>2 DEF KeptEncoded
  <2>2. PICK x, y \in Digits : Hex(c) = <<x, y>> /\ CharOf(<<x, y>>) = c
    <3>1. CASE c = "%"
      <4>1. Hex(c) = <<"2", "5">>
        BY <3>1 DEF Hex
      <4> QED BY <1>1, <3>1, <4>1 DEF CharOf
    <3>2. CASE c = "/"
      <4>1. Hex(c) = <<"2", "F">>
        BY <3>2 DEF Hex
      <4>2. CharOf(<<"2", "F">>) = "/"
        BY DEF CharOf
      <4> QED BY <1>1, <3>2, <4>1, <4>2
    <3> QED BY <1>2, <3>1, <3>2
  <2>3. Encoded(c, flags) = <<"%">> \o <<x, y>>
    BY <1>2, <2>2 DEF Encoded
  <2>4. /\ <<"%", x, y>> \in Seq(Chars) /\ Len(<<"%", x, y>>) = 3
        /\ <<"%">> \o <<x, y>> \in Seq(Chars) /\ Len(<<"%">> \o <<x, y>>) = 3
    BY <1>1
  <2>5. <<"%">> \o <<x, y>> = <<"%", x, y>>
    <3>1. \A k \in 1..3 : (<<"%">> \o <<x, y>>)[k] = <<"%", x, y>>[k]
      BY <1>1
    <3> QED BY <2>4, <3>1, SameText
  <2> QED BY <2>1, <2>2, <2>3, <2>4, <2>5 DEF Strs
<1>3. CASE ~ (c = "%" \/ (c = "/" /\ "component" \in flags))
  BY <1>1, <1>3 DEF Encoded, Strs
<1> QED BY <1>2, <1>3

LEMMA EncodedDecodes ==
  ASSUME NEW s \in Strs, NEW flags, NEW c \in UriChars, NEW p \in Nat, p + Len(Encoded(c, flags)) <= Len(s),
         \A j \in 1..Len(Encoded(c, flags)) : s[p + j] = Encoded(c, flags)[j]
  PROVE  DecodedAt(s, p + 1, flags) = <<c, Len(Encoded(c, flags))>>
<1>0. Len(s) \in Nat
  BY DEF Strs
<1>1. CASE /\ c # "u" /\ c \notin KeptEncoded(flags)
           /\ \E x, y \in Digits : CharOf(<<x, y>>) = c /\ Encoded(c, flags) = <<"%", x, y>>
  <2>1. PICK x, y \in Digits : CharOf(<<x, y>>) = c /\ Encoded(c, flags) = <<"%", x, y>>
    BY <1>1
  <2>2. Len(Encoded(c, flags)) = 3 /\ p + 3 <= Len(s) /\ s[p + 1] = "%" /\ s[p + 2] = x /\ s[p + 3] = y
    BY <2>1
  <2>3. (p + 1) + 1 = p + 2 /\ (p + 1) + 2 = p + 3 /\ p + 1 < Len(s) /\ p + 2 <= Len(s)
    BY <1>0, <2>2
  <2>4. SubSeq(s, p + 2, p + 3) = <<x, y>>
    <3>1. Len(SubSeq(s, p + 2, p + 3)) = 2 /\ SubSeq(s, p + 2, p + 3) \in Seq(Chars)
      BY <1>0, <2>2 DEF Strs
    <3>2. SubSeq(s, p + 2, p + 3)[1] = x /\ SubSeq(s, p + 2, p + 3)[2] = y
      BY <1>0, <2>2 DEF Strs
    <3>3. <<x, y>> \in Seq(Chars) /\ Len(<<x, y>>) = 2
      BY DEF Chars, UriChars
    <3>4. \A k \in 1..2 : SubSeq(s, p + 2, p + 3)[k] = <<x, y>>[k]
      BY <3>2
    <3> QED BY <3>1, <3>3, <3>4, SameText
  <2>5. x # "u"
    BY DEF Digits
  <2> QED BY <1>1, <2>1, <2>2, <2>3, <2>4, <2>5 DEF DecodedAt
<1>2. CASE c # "%" /\ Encoded(c, flags) = <<c>>
  <2>1. s[p + 1] = c /\ Len(Encoded(c, flags)) = 1
    BY <1>2
  <2> QED BY <1>2, <2>1 DEF DecodedAt
<1> QED BY <1>1, <1>2, EncodedIs

(* The text is what the first k characters of `src' became, one after the     *)
(* other: that of character i begins at offset o[i - 1].                      *)
Encodes(o, src, k, s, flags) ==
  /\ o \in [0..k -> Nat] /\ o[0] = 0 /\ o[k] = Len(s)
  /\ \A i \in 1..k : LET e == Encoded(src[i], flags)
                     IN o[i] = o[i - 1] + Len(e) /\ \A j \in 1..Len(e) : s[o[i - 1] + j] = e[j]

LEMMA OffsetsIn ==
  ASSUME NEW src \in Seq(UriChars), NEW k \in 0..Len(src), NEW s \in Strs, NEW flags,
         NEW o, Encodes(o, src, k, s, flags)
  PROVE  \A i \in 0..k : o[i] <= Len(s)
<1> DEFINE E(i) == Encoded(src[i], flags)
           T == {j \in 0..k : o[k - j] <= Len(s)}
<1>1. k \in Nat /\ Len(s) \in Nat /\ \A i \in 1..k : Len(E(i)) \in Nat
  BY EncodedIs DEF Strs
<1>2. o \in [0..k -> Nat] /\ o[k] = Len(s) /\ \A i \in 1..k : o[i] = o[i - 1] + Len(E(i))
  BY DEF Encodes
<1> HIDE DEF E
<1>3. 0 \in T
  BY <1>1, <1>2
<1>4. ASSUME NEW j \in 1..k, j - 1 \in T PROVE j \in T
  <2> DEFINE i == k - j
  <2>1. i \in 0..k /\ i + 1 \in 1..k /\ k - (j - 1) = i + 1 /\ j \in 0..k
    BY <1>1
  <2>2. o[i + 1] <= Len(s)
    BY <1>4, <2>1
  <2> HIDE DEF i
  <2>3. (i + 1) - 1 = i
    BY <2>1
  <2>4. o[i + 1] = o[i] + Len(E(i + 1)) /\ o[i] \in Nat /\ Len(E(i + 1)) \in Nat
    BY <1>1, <1>2, <2>1, <2>3
  <2>5. o[i] <= Len(s)
    BY <1>1, <2>2, <2>4
  <2> QED BY <2>1, <2>5 DEF i
<1> HIDE DEF T
<1>5. 0..k \subseteq T
  BY <1>1, <1>3, <1>4, UpTo
<1>6. ASSUME NEW i \in 0..k PROVE o[i] <= Len(s)
  <2>1. k - i \in 0..k /\ k - (k - i) = i
    BY <1>1
  <2> QED BY <1>5, <2>1 DEF T
<1> QED BY <1>6

LEMMA EncodesNext ==
  ASSUME NEW src \in Seq(UriChars), NEW k \in Nat, k < Len(src), NEW s \in Strs, NEW flags,
         NEW o, Encodes(o, src, k, s, flags)
  PROVE  \E p : Encodes(p, src, k + 1, s \o Encoded(src[k + 1], flags), flags)
<1> DEFINE E(i) == Encoded(src[i], flags)
           p == [i \in 0..(k + 1) |-> IF i = k + 1 THEN o[k] + Len(E(k + 1)) ELSE o[i]]
           t == s \o E(k + 1)
<1>1. \A i \in 1..(k + 1) : E(i) \in Strs /\ Len(E(i)) \in Nat \ {0}
  BY EncodedIs
<1>2. /\ o \in [0..k -> Nat] /\ o[0] = 0 /\ o[k] = Len(s)
      /\ \A i \in 1..k : o[i] = o[i - 1] + Len(E(i)) /\ \A j \in 1..Len(E(i)) : s[o[i - 1] + j] = E(i)[j]
  BY DEF Encodes
<1> HIDE DEF E
<1>3. /\ k \in 0..k /\ k + 1 \in 1..(k + 1) /\ k + 1 \in 0..(k + 1)
      /\ \A i \in 0..k : i \in 0..(k + 1) /\ i # k + 1
  OBVIOUS
<1>4. Len(s) \in Nat /\ Len(t) = Len(s) + Len(E(k + 1))
  BY <1>1, <1>3, Joined DEF Strs
<1>5. p[k + 1] = o[k] + Len(E(k + 1)) /\ \A i \in 0..k : p[i] = o[i]
  BY <1>3
<1>6. p \in [0..(k + 1) -> Nat]
  <2>1. \A i \in 0..(k + 1) : p[i] \in Nat
    BY <1>1, <1>2, <1>3, <1>5
  <2> QED BY <2>1
<1> HIDE DEF p
<1>7. \A j \in 1..Len(s) : t[j] = s[j]
  BY <1>1, <1>3 DEF Strs
<1>8. \A j \in 1..Len(E(k + 1)) : t[Len(s) + j] = E(k + 1)[j]
  BY <1>1, <1>3, <1>4 DEF Strs
<1> HIDE DEF t
<1>9. \A i \in 0..k : o[i] <= Len(s)
  BY OffsetsIn
<1>10. ASSUME NEW i \in 1..(k + 1)
       PROVE  p[i] = p[i - 1] + Len(E(i)) /\ \A j \in 1..Len(E(i)) : t[p[i - 1] + j] = E(i)[j]
  <2>1. CASE i = k + 1
    <3>1. i - 1 = k
      BY <2>1
    <3> QED BY <1>2, <1>3, <1>5, <1>8, <2>1, <3>1
  <2>2. CASE i # k + 1
    <3>1. i \in 1..k /\ i \in 0..k /\ i - 1 \in 0..k
      BY <2>2
    <3>2. p[i] = o[i] /\ p[i - 1] = o[i - 1]
      BY <1>5, <3>1
    <3>3. o[i] \in Nat /\ o[i - 1] \in Nat /\ Len(E(i)) \in Nat /\ o[i] <= Len(s)
      BY <1>1, <1>2, <1>9, <3>1
    <3>4. ASSUME NEW j \in 1..Len(E(i)) PROVE t[o[i - 1] + j] = E(i)[j]
      <4>1. o[i] = o[i - 1] + Len(E(i)) /\ s[o[i - 1] + j] = E(i)[j]
        BY <1>2, <3>1
      <4> DEFINE a == o[i - 1]
                 b == Len(E(i))
      <4>2. a \in Nat /\ b \in Nat /\ j \in 1..b /\ a + b <= Len(s)
        BY <3>3, <4>1
      <4> HIDE DEF a, b
      <4>3. a + j \in 1..Len(s)
        BY <1>4, <4>2
      <4> QED BY <1>7, <4>1, <4>3 DEF a
    <3> QED BY <1>2, <3>1, <3>2, <3>4
  <2> QED BY <2>1, <2>2
<1>11. p[0] = 0 /\ p[k + 1] = Len(t)
  BY <1>2, <1>3, <1>4, <1>5
<1>12. Encodes(p, src, k + 1, t, flags)
  BY <1>6, <1>10, <1>11 DEF Encodes, E
<1> QED BY <1>12 DEF t, E

LEMMA DropFirst ==
  ASSUME NEW X, NEW s \in Seq(X), NEW i \in Nat, i + 1 \in 1..Len(s)
  PROVE  <<s[i + 1]>> \o Drop(s, i + 1) = Drop(s, i)
<1> DEFINE n == Len(s)
           rest == SubSeq(s, (i + 1) + 1, n)
           all == SubSeq(s, i + 1, n)
<1>0. n \in Nat /\ i + 1 \in Nat /\ i + 1 <= n /\ s[i + 1] \in X
  OBVIOUS
<1>1. /\ rest \in Seq(X) /\ Len(rest) = n - (i + 1)
      /\ all \in Seq(X) /\ Len(all) = n - i
  BY <1>0, Parts
<1>2. /\ \A k \in 1..(n - (i + 1)) : rest[k] = s[(i + 1) + k]
      /\ \A k \in 1..(n - i) : all[k] = s[i + k]
  <2>1. ASSUME NEW a \in Nat, NEW k \in 1..(n - a) PROVE SubSeq(s, a + 1, n)[k] = s[a + k]
    <3>1. \A m \in (a + 1)..n : s[m] \in X
      BY <1>0
    <3>2. \A m \in 1..(n - (a + 1) + 1) : SubSeq(s, a + 1, n)[m] = s[(a + 1) + m - 1]
      BY <1>0, <3>1, SubSeqProperties
    <3>3. k \in 1..(n - (a + 1) + 1) /\ (a + 1) + k - 1 = a + k
      BY <1>0
    <3> QED BY <3>2, <3>3
  <2> HIDE DEF n
  <2> QED BY <1>0, <2>1 DEF rest, all
<1> HIDE DEF n, rest, all
<1>3. <<s[i + 1]>> \o rest \in Seq(X) /\ Len(<<s[i + 1]>> \o rest) = n - i
  BY <1>0, <1>1
<1>4. ASSUME NEW k \in 1..(n - i) PROVE (<<s[i + 1]>> \o rest)[k] = s[i + k]
  <2>1. CASE k = 1
    BY <1>1, <2>1
  <2>2. CASE k # 1
    <3>1. k - 1 \in 1..(n - (i + 1)) /\ (i + 1) + (k - 1) = i + k
      BY <1>0, <2>2
    <3>2. (<<s[i + 1]>> \o rest)[k] = rest[k - 1]
      BY <1>0, <1>1, <3>1
    <3> QED BY <1>2, <3>1, <3>2
  <2> QED BY <2>1, <2>2
<1>5. <<s[i + 1]>> \o rest = all
  <2> DEFINE a == <<s[i + 1]>> \o rest
  <2>1. a \in Seq(X) /\ Len(a) = Len(all) /\ \A k \in 1..Len(a) : a[k] = all[k]
    BY <1>1, <1>2, <1>3, <1>4
  <2> HIDE DEF a
  <2>2. a = all
    BY <1>1, <2>1, SameText
  <2> QED BY <2>2 DEF a
<1> QED BY <1>5 DEF Drop, n, rest, all

LEMMA EncodesBack ==
  ASSUME NEW src \in Seq(UriChars), NEW s \in Strs, NEW flags,
         NEW o, Encodes(o, src, Len(src), s, flags)
  PROVE  DecodeURI(s, flags) = src
<1> DEFINE n == Len(src)
           E(i) == Encoded(src[i], flags)
<1>0. n \in Nat /\ Len(s) \in Nat /\ n \in 0..Len(src)
  BY DEF Strs
<1>1. PICK d : Decodes(d, s, flags, 1) /\ DecodeURI(s, flags) = d[1]
  BY DecodeURIIs
<1> DEFINE T == {j \in 0..n : d[o[n - j] + 1] = Drop(src, n - j)}
<1>2. \A i \in 1..n : src[i] \in UriChars /\ Len(E(i)) \in Nat \ {0}
  BY EncodedIs
<1>3. /\ o \in [0..n -> Nat] /\ o[0] = 0 /\ o[n] = Len(s)
      /\ \A i \in 1..n : o[i] = o[i - 1] + Len(E(i)) /\ \A j \in 1..Len(E(i)) : s[o[i - 1] + j] = E(i)[j]
  BY DEF Encodes
<1>4. \A i \in 0..n : o[i] <= Len(s)
  BY <1>0, OffsetsIn
<1>5. 0 \in T
  <2>1. n - 0 = n /\ Len(s) + 1 \in 1..(Len(s) + 1) /\ Len(s) + 1 > Len(s)
    BY <1>0
  <2>2. d[Len(s) + 1] = <<>>
    BY <1>1, <2>1 DEF Decodes
  <2>3. Drop(src, n) = <<>>
    BY <1>0 DEF Drop
  <2> QED BY <1>0, <1>3, <2>1, <2>2, <2>3
<1>6. ASSUME NEW j \in 1..n, j - 1 \in T PROVE j \in T
  <2> DEFINE i == n - j
             q == o[i]
             e == E(i + 1)
  <2>1. i \in 0..n /\ i + 1 \in 1..n /\ n - (j - 1) = i + 1 /\ j \in 0..n /\ (i + 1) - 1 = i
    BY <1>0
  <2>2. d[o[i + 1] + 1] = Drop(src, i + 1)
    BY <1>6, <2>1
  <2> HIDE DEF i
  <2>3. q \in Nat /\ o[i + 1] = q + Len(e) /\ \A m \in 1..Len(e) : s[q + m] = e[m]
    BY <1>3, <2>1
  <2>4. q + Len(e) <= Len(s) /\ src[i + 1] \in UriChars /\ Len(e) \in Nat \ {0}
    BY <1>2, <1>4, <2>1, <2>3
  <2>5. DecodedAt(s, q + 1, flags) = <<src[i + 1], Len(e)>>
    <3> HIDE DEF q
    <3> QED BY <2>3, <2>4, EncodedDecodes
  <2> HIDE DEF q, e, E
  <2>6. q + 1 \in 1..(Len(s) + 1) /\ ~ (q + 1 > Len(s)) /\ (q + 1) + Len(e) = o[i + 1] + 1
    BY <1>0, <2>3, <2>4
  <2>7. After(s, q + 1, flags) = o[i + 1] + 1
    BY <2>5, <2>6 DEF After
  <2>8. d[q + 1] = <<src[i + 1]>> \o d[o[i + 1] + 1]
    <3> DEFINE m == q + 1
    <3> HIDE DEF m
    <3>1. m \in 1..(Len(s) + 1) /\ ~ (m > Len(s))
      BY <2>6 DEF m
    <3>2. d[m] = <<DecodedAt(s, m, flags)[1]>> \o d[After(s, m, flags)]
      BY <1>1, <3>1 DEF Decodes
    <3>3. DecodedAt(s, q + 1, flags)[1] = src[i + 1]
      BY <2>5
    <3> QED BY <2>7, <3>2, <3>3, Zenon DEF m
  <2>9. <<src[i + 1]>> \o Drop(src, i + 1) = Drop(src, i)
    BY <2>1, DropFirst
  <2> QED BY <2>1, <2>2, <2>8, <2>9 DEF i, q
<1>7. 0..n \subseteq T
  <2> HIDE DEF T, n
  <2> QED BY <1>0, <1>5, <1>6, UpTo
<1>8. d[o[0] + 1] = Drop(src, 0)
  <2>1. n \in 0..n /\ n - n = 0
    BY <1>0
  <2> QED BY <1>7, <2>1
<1>9. Drop(src, 0) = src
  BY SameText DEF Drop
<1> QED BY <1>1, <1>3, <1>8, <1>9

(* What the loop of kahanaStrEncodeURI has made so far. *)
UriInv ==
  call # Null /\ call.fn = "EncodeURI" =>
    /\ status \in {"running", "returned"} => \E o : Encodes(o, Src, at, text, call.flags)
    /\ status = "returned" => at = Len(Src)
    /\ status = "nothing" => Src = <<>>

LEMMA EncodeURIStep ==
  ASSUME IInv, UriInv, EncodeURI
  PROVE  UriInv'
<1>0. /\ status = "running" /\ call.fn = "EncodeURI" /\ call \in AllCalls /\ call # Null
      /\ text \in Strs /\ at \in Nat
  BY NullAssumption DEF EncodeURI, Running, IInv
<1>1. Src \in Seq(UriChars) /\ Len(Src) \in Nat
  BY <1>0, CallsAre DEF CallIs, Src
<1>2. PICK o : Encodes(o, Src, at, text, call.flags)
  BY <1>0 DEF UriInv
<1>3. CASE at = Len(Src) /\ text = <<>> /\ Stop("nothing")
  <2>1. ASSUME at # 0 PROVE FALSE
    <3>1. at \in 1..at /\ at \in 0..at /\ at - 1 \in 0..at /\ Src[at] \in UriChars
      BY <1>0, <1>1, <1>3, <2>1
    <3>2. Len(Encoded(Src[at], call.flags)) \in Nat \ {0}
      BY <3>1, EncodedIs
    <3>3. o[at - 1] \in Nat /\ o[at] = o[at - 1] + Len(Encoded(Src[at], call.flags)) /\ o[at] = 0
      BY <1>2, <1>3, <3>1 DEF Encodes
    <3> QED BY <3>2, <3>3
  <2>2. Src = <<>>
    BY <1>1, <1>3, <2>1
  <2> QED BY <1>0, <1>3, <2>2 DEF UriInv, Stop, Src
<1>4. CASE at = Len(Src) /\ Return
  BY <1>0, <1>2, <1>4 DEF UriInv, Return, Stop, Src
<1>5. CASE at < Len(Src) /\ Round(text \o Encoded(Src[at + 1], call.flags), at + 1, out)
  <2>1. \E p : Encodes(p, Src, at + 1, text \o Encoded(Src[at + 1], call.flags), call.flags)
    BY <1>0, <1>1, <1>2, <1>5, EncodesNext
  <2>2. /\ call' = call /\ Src' = Src /\ at' = at + 1 /\ status' = "running"
        /\ text' = text \o Encoded(Src[at + 1], call.flags)
    BY <1>0, <1>5 DEF Round, Src
  <2> QED BY <2>1, <2>2 DEF UriInv
<1> QED BY <1>3, <1>4, <1>5 DEF EncodeURI

LEMMA NextURI == IInv /\ UriInv /\ [Next]_vars => UriInv'
<1> SUFFICES ASSUME IInv, UriInv, [Next]_vars PROVE UriInv'
  OBVIOUS
<1>1. CASE UNCHANGED vars
  BY <1>1 DEF vars, UriInv, Src
<1>2. CASE Begin
  <2>1. at' = 0 /\ status' \in {"running", "failed"}
    BY <1>2 DEF Begin, IInv
  <2>2. ASSUME call'.fn = "EncodeURI" PROVE text' = <<>>
    BY <1>2, <2>2 DEF Begin
  <2>3. ASSUME NEW src, NEW flags PROVE Encodes([i \in 0..0 |-> 0], src, 0, <<>>, flags)
    BY DEF Encodes
  <2> QED BY <2>1, <2>2, <2>3 DEF UriInv
<1>3. CASE Rounds /\ ~ EncodeURI
  <2>1. call.fn # "EncodeURI" /\ call' = call
    BY <1>3 DEF Rounds, StrReplace, BufReplace, EOLtoLF, RegexpReplace, ReplaceByCallback, RegexpMatch,
       RegexpSplit, SearchFails, Extr, DeleteOverlap, Strlen, StrPos, StrtoBytes, Pass, Running, Round,
       Return, Stop
  <2> QED BY <2>1 DEF UriInv
<1> QED BY <1>1, <1>2, <1>3, EncodeURIStep DEF Next

(* kahanaStrDecodeURI undoes kahanaStrEncodeURI with the same `component', for *)
(* every text, those that look encoded already included; of an empty one there *)
(* is none.                                                                  *)
THEOREM DecodingUndoesEncoding == Spec => []URIRoundTrip
<1>1. Init => UriInv
  BY DEF Init, UriInv
<1>2. IInv /\ UriInv => URIRoundTrip
  <2> SUFFICES ASSUME IInv, UriInv, call # Null, call.fn = "EncodeURI", status = "returned"
               PROVE  DecodeURI(text, call.flags) = Src
    BY DEF URIRoundTrip, UriInv
  <2>1. text \in Strs /\ Src \in Seq(UriChars)
    BY CallsAre DEF IInv, CallIs, Src
  <2>2. PICK o : Encodes(o, Src, Len(Src), text, call.flags)
    BY DEF UriInv
  <2> QED BY <2>1, <2>2, EncodesBack
<1> QED BY <1>1, <1>2, NextURI, Invariant, PTL DEF Spec

-----------------------------------------------------------------------------
(* The characters that begin up to offset i, and those of one byte.          *)
LeadsTo(s, i) == {m \in Leads(s) : m <= i}
OnesTo(s, i) == {k \in DOMAIN s : ByteCount(s[k]) = 1 /\ k <= i}

Bytes == Seq(DOMAIN Widths)

LEMMA Finite ==
  ASSUME NEW s \in Bytes, NEW i
  PROVE  /\ IsFiniteSet(Leads(s)) /\ IsFiniteSet(LeadsTo(s, i)) /\ IsFiniteSet(OnesTo(s, i))
         /\ Cardinality(Leads(s)) \in Nat /\ Cardinality(LeadsTo(s, i)) \in Nat
         /\ Cardinality(OnesTo(s, i)) \in Nat
<1>1. Len(s) \in Nat /\ DOMAIN s = 1..Len(s)
  BY DEF Bytes
<1>2. IsFiniteSet(1..Len(s))
  BY <1>1, FS_Interval
<1>3. Leads(s) \subseteq 1..Len(s) /\ LeadsTo(s, i) \subseteq 1..Len(s) /\ OnesTo(s, i) \subseteq 1..Len(s)
  BY <1>1 DEF Leads, LeadsTo, OnesTo
<1> QED BY <1>2, <1>3, FS_Subset, FS_CardinalityType

(* A character that is passed is one more, and one byte or several.          *)
LEMMA CharacterPassed ==
  ASSUME NEW s \in Bytes, WellFormed(s), NEW i \in Nat, i + 1 \in Leads(s)
  PROVE  LET width == ByteCount(s[i + 1])
         IN /\ width \in Nat \ {0} /\ (width = 1 <=> ByteCount(s[i + 1]) = 1)
            /\ Cardinality(LeadsTo(s, i + width)) = Cardinality(LeadsTo(s, i)) + 1
            /\ Cardinality(OnesTo(s, i + width))
                 = Cardinality(OnesTo(s, i)) + (IF width = 1 THEN 1 ELSE 0)
<1> DEFINE width == ByteCount(s[i + 1])
<1>1. DOMAIN s = 1..Len(s) /\ Len(s) \in Nat /\ i + 1 \in DOMAIN s /\ s[i + 1] # "inside"
  BY DEF Bytes, Leads
<1>2. width \in Nat \ {0} /\ (width = 1 <=> ByteCount(s[i + 1]) = 1)
  <2>1. s[i + 1] \in DOMAIN Widths
    BY <1>1 DEF Bytes
  <2> QED BY <1>1, <2>1 DEF ByteCount, Widths
<1>3. \A m \in (i + 2)..(i + width) : s[m] = "inside"
  <2> DEFINE k == i + 1
  <2>1. k \in Leads(s) /\ ByteCount(s[k]) = width /\ k = i + 1
    OBVIOUS
  <2> HIDE DEF k, width
  <2>2. \A m \in (k + 1)..((k + ByteCount(s[k])) - 1) : s[m] = "inside"
    BY <2>1 DEF WellFormed
  <2>3. k + 1 = i + 2 /\ (k + width) - 1 = i + width
    BY <1>2, <2>1
  <2> QED BY <2>1, <2>2, <2>3
<1> HIDE DEF width
<1>4. LeadsTo(s, i + width) = LeadsTo(s, i) \cup {i + 1}
  <2>1. ASSUME NEW m \in Leads(s) PROVE m <= i + width <=> m <= i \/ m = i + 1
    <3>1. m \in Nat /\ s[m] # "inside"
      BY <1>1 DEF Leads
    <3>2. m \notin (i + 2)..(i + width)
      BY <1>3, <3>1
    <3> QED BY <1>2, <3>1, <3>2
  <2> QED BY <2>1 DEF LeadsTo
<1>5. i + 1 \notin LeadsTo(s, i) /\ i + 1 \notin OnesTo(s, i)
  BY DEF LeadsTo, OnesTo
<1>6. OnesTo(s, i + width) = OnesTo(s, i) \cup (IF width = 1 THEN {i + 1} ELSE {})
  <2>1. ASSUME NEW m \in DOMAIN s, ByteCount(s[m]) = 1
        PROVE  m <= i + width <=> m <= i \/ (m = i + 1 /\ width = 1)
    <3>1. m \in Nat
      BY <1>1
    <3>2. m \notin (i + 2)..(i + width)
      BY <1>3, <2>1 DEF ByteCount, Widths
    <3>3. m = i + 1 => width = 1
      BY <1>2, <2>1
    <3> QED BY <1>2, <3>1, <3>2, <3>3
  <2>2. width = 1 => i + 1 \in DOMAIN s /\ ByteCount(s[i + 1]) = 1
    BY <1>1, <1>2
  <2> QED BY <2>1, <2>2 DEF OnesTo
<1>7. Cardinality(LeadsTo(s, i) \cup {i + 1}) = Cardinality(LeadsTo(s, i)) + 1
  BY <1>5, Finite, FS_AddElement
<1>8. Cardinality(OnesTo(s, i) \cup {i + 1}) = Cardinality(OnesTo(s, i)) + 1
  BY <1>5, Finite, FS_AddElement
<1>9. Cardinality(OnesTo(s, i + width)) = Cardinality(OnesTo(s, i)) + (IF width = 1 THEN 1 ELSE 0)
  <2>1. Cardinality(OnesTo(s, i)) \in Nat
    BY Finite
  <2>2. CASE width = 1
    BY <1>6, <1>8, <2>2
  <2>3. CASE width # 1
    <3>1. OnesTo(s, i + width) = OnesTo(s, i)
      BY <1>6, <2>3
    <3> QED BY <2>1, <2>3, <3>1
  <2> QED BY <2>2, <2>3
<1> QED BY <1>2, <1>4, <1>7, <1>9 DEF width

(* What is counted, and how long the digits are, when the offset is `at'.    *)
CharInv ==
  status = "running" /\ call.fn \in Bytewise /\ WellFormed(Src) =>
    IF call.fn = "StrtoBytes" THEN Len(text) = 2 * at - Cardinality(OnesTo(Src, at))
    ELSE count = Cardinality(LeadsTo(Src, at))

(* One character passed is one more counted, and two digits for each of its  *)
(* bytes unless it has one.                                                  *)
LEMMA PassCounts ==
  ASSUME IInv, LeadInv, CharInv, status = "running", call.fn \in Bytewise, at < Len(Src),
         NEW t \in Strs, Pass(t),
         LET width == ByteCount(Src[at + 1])
         IN call.fn = "StrtoBytes" => Len(t) = Len(text) + (IF width = 1 THEN 1 ELSE 2 * width),
         call.fn = "StrPos" => count < call.n
  PROVE  CharInv' /\ CharactersAsTold'
<1> DEFINE width == ByteCount(Src[at + 1])
<1>0. Src \in Bytes /\ Len(Src) \in Nat /\ at \in Nat /\ text \in Strs /\ Len(text) \in Nat /\ count \in Nat
      /\ (call.fn # "StrtoBytes" => call.n # 0)
  BY InCall DEF CallIs, Src, Bytes, IInv, Bytewise
<1>1. CASE Stop("wild")
  BY <1>1 DEF Stop, CharInv, CharactersAsTold
<1>2. CASE Round(t, at + width, out)
  <2>1. /\ call' = call /\ Src' = Src /\ text' = t /\ at' = at + width /\ status' = "running"
        /\ count' = IF call.n = 0 THEN count ELSE count + 1
    BY <1>2 DEF Round, Src
  <2>2. ASSUME WellFormed(Src)
        PROVE  IF call.fn = "StrtoBytes" THEN Len(t) = 2 * (at + width) - Cardinality(OnesTo(Src, at + width))
               ELSE count' = Cardinality(LeadsTo(Src, at + width))
    <3>1. at + 1 \in Leads(Src)
      BY <1>0, <2>2 DEF LeadInv
    <3>2. /\ width \in Nat \ {0}
          /\ Cardinality(LeadsTo(Src, at + width)) = Cardinality(LeadsTo(Src, at)) + 1
          /\ Cardinality(OnesTo(Src, at + width))
                 = Cardinality(OnesTo(Src, at)) + (IF width = 1 THEN 1 ELSE 0)
      BY <1>0, <2>2, <3>1, CharacterPassed
    <3>3. call.fn = "StrtoBytes" => Len(t) = Len(text) + (IF width = 1 THEN 1 ELSE 2 * width)
      OBVIOUS
    <3>4. Cardinality(OnesTo(Src, at)) \in Nat /\ Cardinality(LeadsTo(Src, at)) \in Nat
      BY <1>0, Finite
    <3> DEFINE a == Cardinality(OnesTo(Src, at))
               b == Cardinality(OnesTo(Src, at + width))
    <3> HIDE DEF width, a, b
    <3>5. ASSUME call.fn = "StrtoBytes" PROVE Len(t) = 2 * (at + width) - b
      <4>1. Len(text) = 2 * at - a /\ a \in Nat /\ b = a + (IF width = 1 THEN 1 ELSE 0)
        BY <2>2, <3>2, <3>4, <3>5 DEF CharInv, a, b
      <4>2. CASE width = 1
        <5>1. Len(t) = Len(text) + 1 /\ b = a + 1
          BY <3>3, <3>5, <4>1, <4>2
        <5> QED BY <1>0, <4>1, <4>2, <5>1
      <4>3. CASE width # 1
        BY <1>0, <3>2, <3>3, <3>5, <4>1, <4>3
      <4> QED BY <4>2, <4>3
    <3>6. ASSUME call.fn # "StrtoBytes" PROVE count' = Cardinality(LeadsTo(Src, at + width))
      BY <1>0, <2>1, <2>2, <3>2, <3>6 DEF CharInv
    <3> QED BY <3>5, <3>6 DEF b
  <2>3. CharInv'
    <3> HIDE DEF width
    <3> QED BY <2>1, <2>2 DEF CharInv
  <2> QED BY <2>1, <2>3 DEF CharactersAsTold
<1> QED BY <1>1, <1>2 DEF Pass

(* Of two characters more begin before the later one. *)
LEMMA LaterLead ==
  ASSUME NEW s \in Bytes, NEW k \in Leads(s), NEW T, IsFiniteSet(T), LeadsTo(s, k) \subseteq T
  PROVE  Cardinality({m \in Leads(s) : m < k}) < Cardinality(T)
<1> DEFINE L == {m \in Leads(s) : m < k}
<1>0. \A m \in Leads(s) : m \in Nat
  BY DEF Leads, Bytes
<1>1. L \subseteq Leads(s) /\ k \notin L /\ L \cup {k} = LeadsTo(s, k)
  BY <1>0 DEF LeadsTo
<1>2. IsFiniteSet(L) /\ Cardinality(L) \in Nat
  BY <1>1, Finite, FS_Subset, FS_CardinalityType
<1>3. Cardinality(LeadsTo(s, k)) = Cardinality(L) + 1
  <2> HIDE DEF L
  <2> QED BY <1>1, <1>2, FS_AddElement
<1>4. Cardinality(LeadsTo(s, k)) <= Cardinality(T) /\ Cardinality(T) \in Nat
  BY FS_Subset, FS_CardinalityType
<1> QED BY <1>2, <1>3, <1>4

(* Where the calls that go from character to character return, the count is  *)
(* that of the characters.                                                   *)
LEMMA BytewiseReturns ==
  ASSUME IInv, LeadInv, CharInv, Strlen \/ StrPos \/ StrtoBytes, Return
  PROVE  CharInv' /\ CharactersAsTold'
<1>0. status = "running" /\ call.fn \in Bytewise
  BY DEF Strlen, StrPos, StrtoBytes, Running, Bytewise
<1>1. /\ Src \in Bytes /\ Len(Src) \in Nat /\ at \in Nat /\ at <= Len(Src) /\ count \in Nat /\ call.n \in Int
  BY <1>0, InCall DEF CallIs, Src, Bytes, IInv, PlaceInv, Bytewise, Texted
<1>2. status' = "returned" /\ UNCHANGED <<call, text, at, count, out>> /\ Src' = Src
  BY DEF Return, Stop, Src
<1>3. CharInv'
  BY <1>2 DEF CharInv
<1> DEFINE Less(k) == {m \in Leads(Src) : m < k}
           nth(n) == {k \in Leads(Src) : Cardinality(Less(k)) = n}
<1>4. DOMAIN Src = 1..Len(Src) /\ \A m \in Leads(Src) : m \in Nat /\ m <= Len(Src)
  BY <1>1 DEF Leads, Bytes
<1>5. at = Len(Src) => LeadsTo(Src, at) = Leads(Src) /\ OnesTo(Src, at) = Ones(Src)
  BY <1>1, <1>4 DEF LeadsTo, OnesTo, Ones
<1>9. \A t : ~ Pass(t)
  BY <1>0, <1>2 DEF Pass, Round, Stop
<1> SUFFICES ASSUME WellFormed(Src)
             PROVE  /\ call.fn = "Strlen" => count = Cardinality(Leads(Src))
                    /\ call.fn = "StrPos" =>
                         {at + 1} = IF nth(call.n) = {} THEN {Len(Src) + 1} ELSE nth(call.n)
                    /\ call.fn = "StrtoBytes" => Len(text) = 2 * Len(Src) - Cardinality(Ones(Src))
  BY <1>2, <1>3 DEF CharactersAsTold
<1>6. ASSUME call.fn = "Strlen" PROVE count = Cardinality(Leads(Src))
  <2>1. at = Len(Src)
    <3>1. ~ (at < Len(Src))
      BY <1>6, <1>9 DEF Strlen, StrPos, StrtoBytes, Running
    <3> QED BY <1>1, <3>1
  <2> QED BY <1>0, <1>5, <1>6, <2>1 DEF CharInv
<1>7. ASSUME call.fn = "StrtoBytes" PROVE Len(text) = 2 * Len(Src) - Cardinality(Ones(Src))
  <2>1. at = Len(Src)
    <3>1. ~ (at < Len(Src))
      BY <1>7, <1>9 DEF Strlen, StrPos, StrtoBytes, Running
    <3> QED BY <1>1, <3>1
  <2> QED BY <1>0, <1>5, <1>7, <2>1 DEF CharInv
<1>8. ASSUME call.fn = "StrPos"
      PROVE  {at + 1} = IF nth(call.n) = {} THEN {Len(Src) + 1} ELSE nth(call.n)
  <2>1. at = Len(Src) \/ (at < Len(Src) /\ count >= call.n)
    <3>1. ~ (at < Len(Src) /\ count < call.n)
      BY <1>8, <1>9 DEF Strlen, StrPos, StrtoBytes, Running
    <3> QED BY <1>1, <3>1
  <2>2. count <= call.n /\ count = Cardinality(LeadsTo(Src, at)) /\ call.n \in Nat
    <3>1. call.n >= 0
      BY <1>0, <1>8, InCall DEF CallIs, Counted
    <3> QED BY <1>0, <1>1, <1>8, <3>1 DEF IInv, CountInv, Counted, Times, CharInv
  <2>3. CASE at = Len(Src)
    <3>1. ASSUME NEW k \in Leads(Src) PROVE Cardinality(Less(k)) # call.n
      <4>1. LeadsTo(Src, k) \subseteq Leads(Src) /\ IsFiniteSet(Leads(Src)) /\ Cardinality(Leads(Src)) \in Nat
        BY <1>1, Finite DEF LeadsTo
      <4>2. Cardinality(Less(k)) < Cardinality(Leads(Src))
        BY <1>1, <4>1, LaterLead
      <4>3. Cardinality(Less(k)) \in Nat
        BY <4>1, FS_Subset, FS_CardinalityType
      <4> QED BY <1>1, <1>5, <2>2, <2>3, <4>1, <4>2, <4>3
    <3>2. nth(call.n) = {}
      BY <3>1
    <3> QED BY <2>3, <3>2
  <2>4. CASE at < Len(Src) /\ count >= call.n
    <3>1. count = call.n /\ at + 1 \in Leads(Src)
      <4>1. at + 1 # Len(Src) + 1
        BY <1>1, <2>4
      <4> QED BY <1>0, <1>1, <2>2, <2>4, <4>1 DEF LeadInv
    <3>2. Less(at + 1) = LeadsTo(Src, at)
      BY <1>1, <1>4 DEF LeadsTo
    <3>3. at + 1 \in nth(call.n)
      BY <2>2, <3>1, <3>2
    <3>4. ASSUME NEW k \in Leads(Src), k # at + 1 PROVE Cardinality(Less(k)) # call.n
      <4>0. k \in Nat /\ IsFiniteSet(LeadsTo(Src, at)) /\ IsFiniteSet(Less(k)) /\ Cardinality(Less(k)) \in Nat
            /\ Cardinality(Less(k)) \in Int /\ call.n \in Int
        <5>1. Less(k) \subseteq Leads(Src) /\ IsFiniteSet(Leads(Src))
          BY <1>1, Finite
        <5>2. IsFiniteSet(Less(k)) /\ Cardinality(Less(k)) \in Nat
          BY <5>1, FS_Subset, FS_CardinalityType
        <5> QED BY <1>1, <1>4, <5>2, Finite
      <4>1. CASE k <= at
        <5>1. LeadsTo(Src, k) \subseteq LeadsTo(Src, at)
          BY <1>1, <1>4, <4>1 DEF LeadsTo
        <5>2. Cardinality(Less(k)) < Cardinality(LeadsTo(Src, at))
          BY <1>1, <4>0, <5>1, LaterLead
        <5> QED BY <2>2, <3>1, <4>0, <5>2
      <4>2. CASE ~ (k <= at)
        <5>1. LeadsTo(Src, at + 1) \subseteq Less(k)
          <6>1. at + 1 < k
            BY <1>1, <3>4, <4>0, <4>2
          <6>2. \A m \in Leads(Src) : m <= at + 1 => m < k
            BY <1>1, <1>4, <4>0, <6>1
          <6> QED BY <6>2 DEF LeadsTo
        <5>2. Cardinality(Less(at + 1)) < Cardinality(Less(k))
          <6> HIDE DEF Less
          <6>1. Cardinality({m \in Leads(Src) : m < at + 1}) < Cardinality(Less(k))
            BY <1>1, <3>1, <4>0, <5>1, LaterLead
          <6> QED BY <6>1 DEF Less
        <5> HIDE DEF Less
        <5>3. Cardinality(Less(at + 1)) = call.n
          BY <2>2, <3>1, <3>2
        <5> QED BY <4>0, <5>2, <5>3
      <4> QED BY <4>1, <4>2
    <3>5. nth(call.n) = {at + 1}
      <4> HIDE DEF Less
      <4> QED BY <3>3, <3>4
    <3> QED BY <3>5
  <2> QED BY <2>1, <2>3, <2>4
<1> QED BY <1>6, <1>7, <1>8

LEMMA NextCounts ==
  IInv /\ LeadInv /\ CharInv /\ CharactersAsTold /\ [Next]_vars => CharInv' /\ CharactersAsTold'
<1> SUFFICES ASSUME IInv, LeadInv, CharInv, CharactersAsTold, [Next]_vars PROVE CharInv' /\ CharactersAsTold'
  OBVIOUS
<1>1. CASE UNCHANGED vars
  BY <1>1 DEF vars, CharInv, CharactersAsTold, Src
<1>2. CASE Begin
  <2>1. at' = 0 /\ count' = 0 /\ call' \in AllCalls /\ status' \in {"running", "failed"}
    BY <1>2 DEF Begin, IInv, AllCalls
  <2>2. Src' = call'.src /\ (call'.fn \in Bytewise => Src' \in Bytes)
    BY <2>1, CallsAre DEF Src, CallIs, Bytes
  <2>3. call'.fn = "StrtoBytes" => text' = <<>>
    BY <1>2 DEF Begin
  <2>4. \A s \in Bytes : LeadsTo(s, 0) = {} /\ OnesTo(s, 0) = {}
    BY DEF LeadsTo, OnesTo, Leads, Bytes
  <2>5. Cardinality({}) = 0 /\ Len(<<>>) = 0
    BY FS_EmptySet
  <2>6. CharInv'
    <3> SUFFICES ASSUME call'.fn \in Bytewise
                 PROVE  /\ call'.fn = "StrtoBytes" => Len(text') = 2 * at' - Cardinality(OnesTo(Src', at'))
                        /\ call'.fn # "StrtoBytes" => count' = Cardinality(LeadsTo(Src', at'))
      BY DEF CharInv
    <3>1. Cardinality(LeadsTo(Src', at')) = 0 /\ Cardinality(OnesTo(Src', at')) = 0
      BY <2>1, <2>2, <2>4, <2>5
    <3> QED BY <2>1, <2>3, <2>5, <3>1
  <2> QED BY <2>1, <2>6 DEF CharactersAsTold
<1>3. CASE Strlen \/ StrPos \/ StrtoBytes
  <2>0. status = "running" /\ call.fn \in Bytewise
    BY <1>3 DEF Strlen, StrPos, StrtoBytes, Running, Bytewise
  <2>1. CASE Stop("nothing")
    BY <2>1 DEF Stop, CharInv, CharactersAsTold
  <2>2. CASE Return
    BY <1>3, <2>2, BytewiseReturns
  <2>3. CASE ~ (Return \/ Stop("nothing")) /\ call.fn # "StrtoBytes"
    <3>1. at < Len(Src) /\ Pass(text) /\ (call.fn = "StrPos" => count < call.n)
      BY <1>3, <2>3 DEF Strlen, StrPos, StrtoBytes, Running
    <3> QED BY <2>0, <2>3, <3>1, InCall, PassCounts
  <2>4. CASE ~ (Return \/ Stop("nothing")) /\ call.fn = "StrtoBytes"
    <3> DEFINE width == ByteCount(Src[at + 1])
               more == IF width = 1 THEN <<Src[at + 1]>> ELSE [k \in 1..(2 * width) |-> "digit"]
    <3>1. at < Len(Src) /\ Pass(text \o more)
      BY <1>3, <2>4 DEF Strlen, StrPos, StrtoBytes, Running
    <3>2. Src \in Bytes /\ Src \in Strs /\ Len(Src) \in Nat /\ at \in Nat /\ text \in Strs
      BY <2>0, InCall DEF CallIs, Src, Bytes
    <3>3. Src[at + 1] \in DOMAIN Widths /\ Src[at + 1] \in Chars
      BY <3>1, <3>2 DEF Bytes, Strs
    <3>4. width \in Nat
      BY <3>3 DEF ByteCount, Widths
    <3>5. more \in Strs /\ Len(more) = IF width = 1 THEN 1 ELSE 2 * width
      <4> HIDE DEF width
      <4>1. 2 * width \in Nat /\ "digit" \in Chars
        BY <3>4 DEF Chars
      <4> QED BY <3>3, <4>1 DEF Strs
    <3> HIDE DEF more
    <3>6. text \o more \in Strs /\ Len(text \o more) = Len(text) + Len(more)
      BY <3>2, <3>5, Joined
    <3>7. Len(text \o more) = Len(text) + (IF width = 1 THEN 1 ELSE 2 * width)
      BY <3>5, <3>6
    <3> QED BY <2>0, <2>4, <3>1, <3>6, <3>7, PassCounts
  <2> QED BY <2>1, <2>2, <2>3, <2>4
<1>4. CASE Rounds /\ ~ (Strlen \/ StrPos \/ StrtoBytes)
  <2>1. call.fn \notin Bytewise /\ call' = call
    BY <1>4 DEF Rounds, StrReplace, BufReplace, EOLtoLF, RegexpReplace, ReplaceByCallback, RegexpMatch,
       RegexpSplit, SearchFails, Extr, DeleteOverlap, EncodeURI, Running, Bytewise, Round, Return, Stop
  <2> QED BY <2>1 DEF CharInv, CharactersAsTold, Bytewise
<1> QED BY <1>1, <1>2, <1>3, <1>4 DEF Next, Rounds

-----------------------------------------------------------------------------
(* Texts put together and taken apart.                                       *)
LEMMA Adjacent ==
  ASSUME NEW s \in Strs, NEW a \in Nat, NEW b \in Nat, NEW c \in Nat, a <= b, b <= c, c <= Len(s)
  PROVE  Cut(s, a, b) \o Cut(s, b, c) = Cut(s, a, c)
<1>1. s \in Seq(Chars) /\ Len(s) \in Nat
  BY DEF Strs
<1>2. a + 1 \in 1..(Len(s) + 1) /\ b \in ((a + 1) - 1)..Len(s) /\ c \in b..Len(s)
  BY <1>1
<1> DEFINE m == a + 1
<1> HIDE DEF m
<1>3. SubSeq(s, m, b) \o SubSeq(s, b + 1, c) = SubSeq(s, m, c)
  BY <1>1, <1>2, ConcatAdjacentSubSeq DEF m
<1> QED BY <1>3 DEF Cut, m

LEMMA DropIsCut ==
  ASSUME NEW s, NEW k
  PROVE  Drop(s, k) = Cut(s, k, Len(s)) /\ Take(s, k) = Cut(s, 0, k)
<1>1. 0 + 1 = 1
  OBVIOUS
<1> QED BY <1>1 DEF Drop, Take, Cut

LEMMA CutDrop ==
  ASSUME NEW s \in Strs, NEW a \in Nat, NEW b \in Nat, a <= b, b <= Len(s)
  PROVE  Cut(s, a, b) \o Drop(s, b) = Drop(s, a)
<1> DEFINE n == Len(s)
<1>1. n \in Nat /\ b <= n /\ n <= Len(s)
  BY DEF Strs
<1> HIDE DEF n
<1>2. Cut(s, a, b) \o Cut(s, b, n) = Cut(s, a, n)
  BY <1>1, Adjacent
<1> QED BY <1>2, DropIsCut DEF n

Assoc(r, s, t) == (r \o s) \o t = r \o (s \o t)

LEMMA Associative ==
  ASSUME NEW r \in Strs, NEW s \in Strs, NEW t \in Strs
  PROVE  Assoc(r, s, t)
BY ConcatAssociative DEF Strs, Assoc

(* Two texts joined, cut where they meet. *)
LEMMA Halves ==
  ASSUME NEW s \in Strs, NEW t \in Strs
  PROVE  Take(s \o t, Len(s)) = s /\ Drop(s \o t, Len(s)) = t
<1> DEFINE u == s \o t
           m == Len(s)
           n == Len(t)
<1>1. /\ m \in Nat /\ n \in Nat /\ u \in Strs /\ Len(u) = m + n
      /\ \A k \in 1..m : u[k] = s[k]
      /\ \A k \in 1..n : u[m + k] = t[k]
  BY DEF Strs
<1>2. Take(u, m) \in Strs /\ Len(Take(u, m)) = m /\ Drop(u, m) \in Strs /\ Len(Drop(u, m)) = n
  <2> HIDE DEF u, m, n
  <2> QED BY <1>1, TakeIs, DropIs
<1>3. ASSUME NEW k \in 1..m PROVE Take(u, m)[k] = s[k]
  <2> HIDE DEF u, m, n
  <2>1. \A i \in 1..m : u[i] \in Chars
    BY <1>1 DEF Strs
  <2>2. \A i \in 1..((m - 1) + 1) : SubSeq(u, 1, m)[i] = u[(1 + i) - 1]
    BY <1>1, <2>1, SubSeqProperties
  <2>3. k \in 1..((m - 1) + 1) /\ (1 + k) - 1 = k
    BY <1>1
  <2> QED BY <1>1, <2>2, <2>3 DEF Take
<1>4. ASSUME NEW k \in 1..n PROVE Drop(u, m)[k] = t[k]
  <2> HIDE DEF u, m, n
  <2> DEFINE a == m + 1
             b == m + n
  <2>1. \A i \in a..b : u[i] \in Chars
    BY <1>1 DEF Strs
  <2>2. a \in Int /\ b \in Int /\ k \in 1..((b - a) + 1) /\ (a + k) - 1 = m + k
    BY <1>1
  <2> HIDE DEF a, b
  <2>3. SubSeq(u, a, b)[k] = u[(a + k) - 1]
    BY <2>1, <2>2, SubSeqProperties
  <2> QED BY <1>1, <2>2, <2>3 DEF Drop, a, b
<1> HIDE DEF u, m, n
<1>5. Take(u, m) = s
  BY <1>1, <1>2, <1>3, SameText DEF Strs, m
<1>6. Drop(u, m) = t
  BY <1>1, <1>2, <1>4, SameText DEF Strs, n
<1> QED BY <1>5, <1>6 DEF u, m

(* The i-th character of a part. *)
LEMMA DropAt ==
  ASSUME NEW s \in Strs, NEW a \in Nat, a <= Len(s), NEW k \in 1..(Len(s) - a)
  PROVE  Drop(s, a)[k] = s[a + k]
<1> DEFINE m == a + 1
           n == Len(s)
<1>1. n \in Nat /\ m \in Nat /\ \A i \in m..n : s[i] \in Chars
  BY DEF Strs
<1>2. k \in 1..((n - m) + 1) /\ (m + k) - 1 = a + k
  BY <1>1
<1> HIDE DEF m, n
<1>3. SubSeq(s, m, n)[k] = s[(m + k) - 1]
  BY <1>1, <1>2, SubSeqProperties
<1> QED BY <1>2, <1>3 DEF Drop, m, n

LEMMA CutAt ==
  ASSUME NEW s \in Strs, NEW a \in Nat, NEW b \in Nat, a <= b, b <= Len(s), NEW k \in 1..(b - a)
  PROVE  Cut(s, a, b)[k] = s[a + k]
<1> DEFINE m == a + 1
<1>1. Len(s) \in Nat /\ m \in Nat /\ \A i \in m..b : s[i] \in Chars
  BY DEF Strs
<1>2. k \in 1..((b - m) + 1) /\ (m + k) - 1 = a + k
  BY <1>1
<1> HIDE DEF m
<1>3. SubSeq(s, m, b)[k] = s[(m + k) - 1]
  BY <1>1, <1>2, SubSeqProperties
<1> QED BY <1>2, <1>3 DEF Cut, m

(* A word is at an offset if each of its characters is. *)
LEMMA AtIs ==
  ASSUME NEW s \in Strs, NEW i \in Nat, NEW w \in Strs
  PROVE  At(s, i, w) <=> i + Len(w) <= Len(s) /\ \A j \in 1..Len(w) : s[i + j] = w[j]
<1> DEFINE m == Len(w)
           b == i + m
<1>1. Len(s) \in Nat /\ m \in Nat /\ b \in Nat /\ i <= b /\ b - i = m /\ b \in Int
  BY DEF Strs
<1> SUFFICES ASSUME b <= Len(s)
             PROVE  Cut(s, i, b) = w <=> \A j \in 1..m : s[i + j] = w[j]
  BY DEF At, Cut
<1>2. Cut(s, i, b) \in Strs /\ Len(Cut(s, i, b)) = m
  <2> HIDE DEF m, b
  <2>1. Cut(s, i, b) \in Strs /\ Len(Cut(s, i, b)) = IF i <= b THEN b - i ELSE 0
    <3>1. b <= Len(s)
      OBVIOUS
    <3> QED BY <1>1, <3>1, CutIs, Zenon
  <2> QED BY <1>1, <2>1
<1>3. \A j \in 1..m : Cut(s, i, b)[j] = s[i + j]
  <2> HIDE DEF m, b
  <2> QED BY <1>1, CutAt
<1> HIDE DEF b
<1>4. Cut(s, i, b) = w => \A j \in 1..m : s[i + j] = w[j]
  BY <1>3
<1>5. (\A j \in 1..m : s[i + j] = w[j]) => Cut(s, i, b) = w
  BY <1>2, <1>3, SameText DEF Strs, m
<1> QED BY <1>4, <1>5

LEMMA JoinedAt ==
  ASSUME NEW r \in Strs, NEW s \in Strs
  PROVE  /\ r \o s \in Strs /\ Len(r \o s) = Len(r) + Len(s)
         /\ \A k \in 1..Len(r) : (r \o s)[k] = r[k]
         /\ \A k \in 1..Len(s) : (r \o s)[Len(r) + k] = s[k]
BY DEF Strs

Regroups(done, c, e, z, r, rest) ==
  /\ done \o (c \o (e \o z)) = (done \o c) \o (e \o z)
  /\ done \o (c \o (e \o z)) = ((done \o c) \o e) \o z
  /\ done \o (c \o r \o rest) = (done \o c \o r) \o rest

LEMMA Regrouped ==
  ASSUME NEW done \in Strs, NEW c \in Strs, NEW e \in Strs, NEW z \in Strs, NEW r \in Strs, NEW rest \in Strs
  PROVE  Regroups(done, c, e, z, r, rest)
<1>1. e \o z \in Strs /\ done \o c \in Strs /\ c \o r \in Strs /\ r \o rest \in Strs
  BY JoinedAt
<1>2. Assoc(done, c, e \o z) /\ Assoc(done \o c, e, z) /\ Assoc(c, r, rest)
      /\ Assoc(done, c, r \o rest) /\ Assoc(done \o c, r, rest)
  BY <1>1, Associative
<1>3. done \o (c \o (e \o z)) = (done \o c) \o (e \o z)
  BY <1>2 DEF Assoc
<1>4. (done \o c) \o (e \o z) = ((done \o c) \o e) \o z
  BY <1>2 DEF Assoc
<1>5. (c \o r) \o rest = c \o (r \o rest)
  BY <1>2 DEF Assoc
<1>6. done \o (c \o (r \o rest)) = (done \o c) \o (r \o rest)
  BY <1>2 DEF Assoc
<1>7. (done \o c) \o (r \o rest) = ((done \o c) \o r) \o rest
  BY <1>2 DEF Assoc
<1> QED BY <1>3, <1>4, <1>5, <1>6, <1>7, Zenon DEF Regroups

(* A search of what is left of s finds the same, wherever that stands in t.   *)
LEMMA AtShifted ==
  ASSUME NEW s \in Strs, NEW o \in Nat, o <= Len(s), NEW done \in Strs, NEW t, t = done \o Drop(s, o),
         NEW x \in Nat, o <= x, NEW w \in Strs
  PROVE  At(t, Len(done) + (x - o), w) <=> At(s, x, w)
<1> DEFINE d == Len(done)
           u == Drop(s, o)
           m == Len(w)
           i == d + (x - o)
<1>1. /\ Len(s) \in Nat /\ d \in Nat /\ m \in Nat /\ i \in Nat /\ u \in Strs /\ Len(u) = Len(s) - o
  BY DropIs DEF Strs
<1>2. t \in Strs /\ Len(t) = d + (Len(s) - o) /\ \A k \in 1..Len(u) : t[d + k] = u[k]
  <2>1. t = done \o u
    OBVIOUS
  <2> HIDE DEF u
  <2>2. done \o u \in Strs /\ Len(done \o u) = d + Len(u) /\ \A k \in 1..Len(u) : (done \o u)[d + k] = u[k]
    BY <1>1, JoinedAt, Zenon
  <2> QED BY <1>1, <2>1, <2>2
<1>3. \A k \in 1..(Len(s) - o) : u[k] = s[o + k]
  BY DropAt
<1> HIDE DEF u
<1>4. At(t, i, w) <=> i + m <= Len(t) /\ \A j \in 1..m : t[i + j] = w[j]
  <2> HIDE DEF i
  <2>1. t \in Strs /\ i \in Nat
    BY <1>1, <1>2
  <2> QED BY <2>1, AtIs DEF m
<1>5. At(s, x, w) <=> x + m <= Len(s) /\ \A j \in 1..m : s[x + j] = w[j]
  BY AtIs
<1> DEFINE l == Len(s)
<1> HIDE DEF d, m, l
<1>6. i + m <= Len(t) <=> x + m <= l
  BY <1>1, <1>2 DEF l
<1>7. ASSUME x + m <= l, NEW j \in 1..m PROVE t[i + j] = s[x + j]
  <2> DEFINE k == (x - o) + j
  <2>1. k \in 1..(l - o) /\ i + j = d + k /\ x + j = o + k
    BY <1>1, <1>7 DEF l
  <2> HIDE DEF k, i
  <2>2. t[d + k] = u[k] /\ u[k] = s[o + k]
    BY <1>1, <1>2, <1>3, <2>1 DEF l
  <2> QED BY <2>1, <2>2
<1> HIDE DEF i
<1>8. x + m <= l => ((\A j \in 1..m : t[i + j] = w[j]) <=> (\A j \in 1..m : s[x + j] = w[j]))
  BY <1>7
<1> QED BY <1>4, <1>5, <1>6, <1>8 DEF l, d, i

(* The same words are at o in s and at d in t. *)
SameAt(s, o, t, d) == \A w \in Strs : At(t, d, w) <=> At(s, o, w)

LEMMA AtBegin ==
  ASSUME NEW s \in Strs, NEW o \in Nat, o <= Len(s), NEW done \in Strs, NEW t, t = done \o Drop(s, o)
  PROVE  SameAt(s, o, t, Len(done))
<1> SUFFICES ASSUME NEW w \in Strs
             PROVE  At(t, Len(done), w) <=> At(s, o, w)
  BY DEF SameAt
<1>1. o <= o /\ Len(done) \in Nat
  BY DEF Strs
<1>2. At(t, Len(done) + (o - o), w) <=> At(s, o, w)
  <2> DEFINE x == o
  <2>1. x \in Nat /\ o <= x
    BY <1>1
  <2> HIDE DEF x
  <2>2. At(t, Len(done) + (x - o), w) <=> At(s, x, w)
    BY <2>1, AtShifted
  <2> QED BY <2>2 DEF x
<1>3. Len(done) + (o - o) = Len(done)
  BY <1>1
<1> QED BY <1>2, <1>3

(* A search finds the same in s from o on and in t from d on. *)
SameFrom(s, pat, o, t, d) ==
  /\ Places(t, pat, d) = {} <=> Places(s, pat, o) = {}
  /\ Places(s, pat, o) # {} =>
       LET p == Beg(s, pat, o)
           p2 == Beg(t, pat, d)
       IN /\ p2 = d + (p - o)
          /\ Longest(t, pat, p2) = Longest(s, pat, p)

(* So the least place, and the longest word there, are the same.             *)
LEMMA SameSearch ==
  ASSUME NEW s \in Strs, NEW pat \in SUBSET Strs, NEW o \in Nat, o <= Len(s),
         NEW done \in Strs, NEW t, t = done \o Drop(s, o)
  PROVE  SameFrom(s, pat, o, t, Len(done))
<1> DEFINE d == Len(done)
           l == Len(s)
           P == Places(s, pat, o)
           P2 == Places(t, pat, d)
<1>1. l \in Nat /\ d \in Nat
  BY DEF Strs
<1>2. t \in Strs /\ Len(t) = d + (l - o)
  <2>1. Drop(s, o) \in Strs /\ Len(Drop(s, o)) = l - o
    BY DropIs
  <2> DEFINE u == Drop(s, o)
  <2> HIDE DEF u
  <2>2. t \in Strs /\ Len(t) = d + Len(u)
    BY <2>1, JoinedAt, Zenon DEF u
  <2> QED BY <2>1, <2>2 DEF u
<1>3. \A x \in Nat : o <= x => \A w \in pat : At(t, d + (x - o), w) <=> At(s, x, w)
  BY AtShifted
<1>4. \A x \in P : x \in Nat /\ o <= x /\ x <= l /\ d + (x - o) \in P2
  <2> TAKE x \in P
  <2>1. x \in o..l /\ \E w \in pat : At(s, x, w)
    BY DEF Places
  <2> HIDE DEF P, l, d
  <2>2. x \in Nat /\ o <= x /\ x <= l /\ d + (x - o) \in d..Len(t)
    BY <1>1, <1>2, <2>1
  <2>3. \E w \in pat : At(t, d + (x - o), w)
    BY <1>3, <2>1, <2>2
  <2> QED BY <2>2, <2>3 DEF Places, d
<1>5. \A y \in P2 : y \in Nat /\ y - d + o \in P /\ y >= d
  <2> TAKE y \in P2
  <2> DEFINE x == y - d + o
  <2>1. y \in d..Len(t) /\ \E w \in pat : At(t, y, w)
    BY DEF Places
  <2> HIDE DEF P2, l, d
  <2>2. y \in Nat /\ x \in Nat /\ o <= x /\ x \in o..l /\ d + (x - o) = y /\ y >= d
    BY <1>1, <1>2, <2>1
  <2> HIDE DEF x
  <2>3. \E w \in pat : At(s, x, w)
    BY <1>3, <2>1, <2>2
  <2> QED BY <2>2, <2>3 DEF Places, x, l
<1>6. P2 = {} <=> P = {}
  BY <1>4, <1>5
<1>7. ASSUME P # {}
      PROVE  LET p == Beg(s, pat, o)
                 p2 == Beg(t, pat, d)
             IN p2 = d + (p - o) /\ Longest(t, pat, p2) = Longest(s, pat, p)
  <2> DEFINE p == Beg(s, pat, o)
             p2 == Beg(t, pat, d)
  <2>1. P \in SUBSET Nat /\ P2 \in SUBSET Nat /\ P2 # {}
    BY <1>4, <1>5, <1>6, <1>7
  <2>2. p \in P /\ (\A y \in P : p <= y) /\ p2 \in P2 /\ (\A y \in P2 : p2 <= y)
    <3>1. p = Min(P) /\ p2 = Min(P2)
      BY DEF Beg
    <3> HIDE DEF P, P2, p, p2
    <3> QED BY <1>7, <2>1, <3>1, Least
  <2> HIDE DEF P, P2, p, p2, l, d
  <2>3. p \in Nat /\ o <= p /\ p2 \in Nat /\ p2 >= d /\ p2 <= d + (p - o) /\ p <= p2 - d + o
    BY <1>1, <1>4, <1>5, <2>2
  <2>4. p2 = d + (p - o)
    BY <1>1, <2>3
  <2>5. {v \in pat : At(t, p2, v)} = {v \in pat : At(s, p, v)}
    BY <1>3, <2>3, <2>4
  <2> QED BY <2>4, <2>5 DEF Longest, p, p2
<1> QED BY <1>6, <1>7 DEF SameFrom

(* One more word replaced. *)
OneReplaced(s, o, p, q, done, t, r, rest) ==
  LET d == Len(done)
      more == done \o Cut(s, o, p) \o r
  IN /\ more \in Strs /\ Len(more) = d + (p - o) + Len(r)
     /\ Spliced(t, d + (p - o), d + (q - o), r) = more \o Drop(s, q)
     /\ Take(t, d + (p - o)) \o r \o Drop(s, q) = more \o Drop(s, q)
     /\ done \o (Cut(s, o, p) \o r \o rest) = more \o rest

LEMMA Replaced ==
  ASSUME NEW s \in Strs, NEW o \in Nat, NEW p \in Nat, NEW q \in Nat, o <= p, p <= q, q <= Len(s),
         NEW done \in Strs, NEW t, t = done \o Drop(s, o), NEW r \in Strs, NEW rest \in Strs
  PROVE  OneReplaced(s, o, p, q, done, t, r, rest)
<1> DEFINE d == Len(done)
           c == Cut(s, o, p)
           e == Cut(s, p, q)
           z == Drop(s, q)
           more == done \o c \o r
<1>1. Len(s) \in Nat /\ d \in Nat /\ Len(r) \in Nat /\ p <= Len(s) /\ o <= q
  BY DEF Strs
<1>2. /\ c \in Strs /\ Len(c) = p - o /\ e \in Strs /\ Len(e) = q - p /\ z \in Strs
  <2>1. p \in Int /\ q \in Int
    OBVIOUS
  <2> QED BY <1>1, <2>1, CutIs, DropIs
<1>3. Drop(s, o) = c \o (e \o z)
  <2>1. Drop(s, o) = c \o Drop(s, p) /\ Drop(s, p) = e \o z
    BY <1>1, CutDrop
  <2> QED BY <2>1
<1> HIDE DEF c, e, z
<1>4. /\ done \o c \in Strs /\ Len(done \o c) = d + (p - o)
      /\ (done \o c) \o e \in Strs /\ Len((done \o c) \o e) = d + (q - o)
      /\ more \in Strs /\ Len(more) = d + (p - o) + Len(r)
  <2>1. done \o c \in Strs /\ Len(done \o c) = d + Len(c)
    BY <1>2, JoinedAt, Zenon
  <2> DEFINE a == done \o c
  <2> HIDE DEF a
  <2>2. a \o e \in Strs /\ Len(a \o e) = Len(a) + Len(e) /\ a \o r \in Strs /\ Len(a \o r) = Len(a) + Len(r)
    BY <1>2, <2>1, JoinedAt, Zenon DEF a
  <2>3. Len(a) = d + (p - o) /\ Len(a) + Len(e) = d + (q - o)
    BY <1>1, <1>2, <2>1 DEF a
  <2> QED BY <2>1, <2>2, <2>3 DEF a
<1>5. /\ t = (done \o c) \o (e \o z)
      /\ t = ((done \o c) \o e) \o z
      /\ done \o (c \o r \o rest) = more \o rest
  <2>1. Regroups(done, c, e, z, r, rest)
    BY <1>2, Regrouped
  <2> QED BY <1>3, <2>1, Zenon DEF Regroups
<1>6. Take(t, d + (p - o)) = done \o c
  <2> DEFINE a == done \o c
             b == e \o z
  <2> HIDE DEF a, b
  <2>1. a \in Strs /\ b \in Strs /\ t = a \o b
    BY <1>2, <1>4, <1>5, JoinedAt, Zenon DEF a, b
  <2>2. Take(t, Len(a)) = a
    BY <2>1, Halves, Zenon
  <2> QED BY <1>4, <2>2, Zenon DEF a
<1>7. Drop(t, d + (q - o)) = z
  <2> DEFINE a == (done \o c) \o e
  <2> HIDE DEF a
  <2>1. a \in Strs /\ z \in Strs /\ t = a \o z
    BY <1>2, <1>4, <1>5, Zenon DEF a
  <2>2. Drop(t, Len(a)) = z
    BY <2>1, Halves
  <2> QED BY <1>4, <2>2, Zenon DEF a
<1>8. Spliced(t, d + (p - o), d + (q - o), r) = more \o z
  BY <1>6, <1>7, Zenon DEF Spliced
<1> QED BY <1>4, <1>5, <1>6, <1>8, Zenon DEF c, z, OneReplaced

-----------------------------------------------------------------------------
(* A function of k and i that goes on with k - 1 from another i.              *)
Recursion(f, n, X, b, Step) ==
  f \in [0..n -> X] /\ f[0] = b /\ \A k \in 1..n : f[k] = Step[f[k - 1]]

(* Such a function exists: by induction over n, each with one value more.    *)
LEMMA RecursionUpTo ==
  ASSUME NEW n \in Nat, NEW X, NEW b \in X, NEW Step \in [X -> X]
  PROVE  \E f : Recursion(f, n, X, b, Step)
<1> DEFINE Is(f, m) == f \in [0..m -> X] /\ f[0] = b /\ \A k \in 1..m : f[k] = Step[f[k - 1]]
           T == {m \in 0..n : \E f : Is(f, m)}
<1>1. 0 \in T
  <2> DEFINE f == [k \in 0..0 |-> b]
  <2>1. Is(f, 0)
    OBVIOUS
  <2> HIDE DEF Is, f
  <2> QED BY <2>1
<1>2. ASSUME NEW m \in 1..n, m - 1 \in T PROVE m \in T
  <2>1. PICK f : Is(f, m - 1)
    BY <1>2
  <2> DEFINE g == [k \in 0..m |-> IF k = m THEN Step[f[m - 1]] ELSE f[k]]
  <2>2. m \in Nat /\ m - 1 \in 0..(m - 1) /\ f \in [0..(m - 1) -> X]
    BY <2>1
  <2>3. g[m] = Step[f[m - 1]] /\ \A k \in 0..(m - 1) : k \in 0..m /\ g[k] = f[k]
    BY <2>2
  <2>4. g \in [0..m -> X]
    <3>1. f[m - 1] \in X
      BY <2>2
    <3> QED BY <2>2, <3>1
  <2> HIDE DEF g
  <2>5. ASSUME NEW k \in 1..m PROVE g[k] = Step[g[k - 1]]
    <3>1. CASE k = m
      BY <2>2, <2>3, <3>1
    <3>2. CASE k # m
      <4>1. k \in 1..(m - 1) /\ k \in 0..(m - 1) /\ k - 1 \in 0..(m - 1)
        BY <2>2, <3>2
      <4> QED BY <2>1, <2>3, <4>1
    <3> QED BY <3>1, <3>2
  <2>6. g[0] = b
    <3>1. 0 \in 0..(m - 1)
      BY <2>2
    <3> QED BY <2>1, <2>3, <3>1
  <2> QED BY <2>4, <2>5, <2>6
<1> HIDE DEF T
<1>3. 0..n \subseteq T
  BY <1>1, <1>2, UpTo
<1>4. n \in T
  BY <1>3
<1> QED BY <1>4 DEF T, Recursion

Unrolled(f, n, m, E, B, q, C) ==
  f = [k \in 0..n |-> [i \in 0..m |-> IF k = 0 \/ i \in E THEN B[i] ELSE C[i][f[k - 1][q[i]]]]]

(* A function of two arguments that recurs in the first is one of those.     *)
LEMMA Unrolls ==
  ASSUME NEW n \in Nat, NEW m \in Nat, NEW V, NEW E, NEW B \in [0..m -> V],
         NEW q \in [(0..m) \ E -> 0..m], NEW C \in [(0..m) \ E -> [V -> V]]
  PROVE  \E f : Unrolled(f, n, m, E, B, q, C)
<1> DEFINE X == [0..m -> V]
           On(g) == [i \in 0..m |-> IF i \in E THEN B[i] ELSE C[i][g[q[i]]]]
           Step == [g \in X |-> On(g)]
<1>1. ASSUME NEW g \in X PROVE On(g) \in X
  <2>1. ASSUME NEW i \in 0..m, i \notin E PROVE C[i][g[q[i]]] \in V
    <3>1. i \in (0..m) \ E
      BY <2>1
    <3>2. q[i] \in 0..m /\ C[i] \in [V -> V]
      BY <3>1
    <3>3. g[q[i]] \in V
      BY <3>2
    <3> QED BY <3>2, <3>3
  <2> QED BY <2>1
<1> HIDE DEF On
<1>2. Step \in [X -> X]
  <2> HIDE DEF X
  <2> QED BY <1>1
<1>3. \A g \in X : Step[g] = On(g)
  OBVIOUS
<1> HIDE DEF Step
<1>4. PICK f \in [0..n -> X] : f[0] = B /\ \A k \in 1..n : f[k] = Step[f[k - 1]]
  <2> HIDE DEF X
  <2>1. B \in X
    BY DEF X
  <2>2. \E f : Recursion(f, n, X, B, Step)
    BY <1>2, <2>1, RecursionUpTo
  <2> QED BY <2>2 DEF Recursion
<1> DEFINE h == [k \in 0..n |-> [i \in 0..m |-> IF k = 0 \/ i \in E THEN B[i] ELSE C[i][f[k - 1][q[i]]]]]
<1>5. ASSUME NEW k \in 0..n PROVE f[k] = h[k]
  <2>1. CASE k = 0
    <3>1. h[0] = [i \in 0..m |-> B[i]]
      OBVIOUS
    <3>2. B = [i \in 0..m |-> B[i]]
      OBVIOUS
    <3> HIDE DEF h
    <3> QED BY <1>4, <2>1, <3>1, <3>2
  <2>2. CASE k # 0
    <3>1. k \in 1..n /\ k - 1 \in 0..n
      BY <2>2
    <3>2. f[k - 1] \in X
      BY <3>1
    <3>3. f[k] = On(f[k - 1])
      BY <1>3, <1>4, <3>1, <3>2
    <3>4. h[k] = [i \in 0..m |-> IF i \in E THEN B[i] ELSE C[i][f[k - 1][q[i]]]]
      BY <2>2
    <3> QED BY <3>3, <3>4 DEF On
  <2> QED BY <2>1, <2>2
<1>6. f = [k \in 0..n |-> f[k]] /\ h = [k \in 0..n |-> h[k]]
  OBVIOUS
<1>7. f = h
  <2> HIDE DEF h, X
  <2> QED BY <1>5, <1>6
<1> QED BY <1>7 DEF Unrolled

Unfolds(f, n, m, V, E, B, q, C) ==
  \A k \in 0..n : \A i \in 0..m :
    f[k][i] \in V /\ f[k][i] = IF k = 0 \/ i \in E THEN B[i] ELSE C[i][f[k - 1][q[i]]]

(* Any such function has its values where these are. *)
LEMMA UnrolledIn ==
  ASSUME NEW n \in Nat, NEW m \in Nat, NEW V, NEW E, NEW B \in [0..m -> V],
         NEW q \in [(0..m) \ E -> 0..m], NEW C \in [(0..m) \ E -> [V -> V]],
         NEW f, Unrolled(f, n, m, E, B, q, C)
  PROVE  Unfolds(f, n, m, V, E, B, q, C)
<1> DEFINE T == {k \in 0..n : \A i \in 0..m : f[k][i] \in V}
           Body(g) == [k \in 0..n |-> [i \in 0..m |-> IF k = 0 \/ i \in E THEN B[i] ELSE C[i][g[k - 1][q[i]]]]]
<1>1. ASSUME NEW k \in 0..n, NEW i \in 0..m
      PROVE  f[k][i] = IF k = 0 \/ i \in E THEN B[i] ELSE C[i][f[k - 1][q[i]]]
  <2>1. \A g : Body(g)[k][i] = IF k = 0 \/ i \in E THEN B[i] ELSE C[i][g[k - 1][q[i]]]
    OBVIOUS
  <2>2. f = Body(f)
    BY DEF Unrolled
  <2> HIDE DEF Body
  <2> QED BY <2>1, <2>2, Zenon
<1>2. 0 \in T
  BY <1>1
<1>3. ASSUME NEW k \in 1..n, k - 1 \in T PROVE k \in T
  <2>1. k \in 0..n /\ k # 0
    OBVIOUS
  <2>2. ASSUME NEW i \in 0..m PROVE f[k][i] \in V
    <3>1. CASE i \in E
      BY <1>1, <2>1, <3>1
    <3>2. CASE i \notin E
      <4>1. q[i] \in 0..m /\ C[i] \in [V -> V]
        BY <3>2
      <4>2. f[k - 1][q[i]] \in V
        BY <1>3, <4>1
      <4>3. f[k][i] = C[i][f[k - 1][q[i]]]
        BY <1>1, <2>1, <3>2
      <4> QED BY <4>1, <4>2, <4>3
    <3> QED BY <3>1, <3>2
  <2> QED BY <2>1, <2>2
<1> HIDE DEF T
<1>4. 0..n \subseteq T
  BY <1>2, <1>3, UpTo
<1> QED BY <1>1, <1>4 DEF T, Unfolds

(* What replaces k words of pat in s from offset i on, for each k up to n.    *)
Replaces(f, s, pat, r, n) ==
  \A k \in 0..n : \A i \in 0..Len(s) :
    /\ f[k][i] \in Strs
    /\ f[k][i] = IF k = 0 \/ Places(s, pat, i) = {} THEN Drop(s, i)
                 ELSE LET p == Beg(s, pat, i)
                      IN Cut(s, i, p) \o r \o f[k - 1][p + Longest(s, pat, p)]

(* Where a word is found, and where it ends.                                 *)
LEMMA FindsIn ==
  ASSUME NEW s \in Strs, NEW pat \in SUBSET Strs, NEW i \in Nat, Places(s, pat, i) # {}
  PROVE  LET p == Beg(s, pat, i)
             q == p + Longest(s, pat, p)
         IN /\ p \in Nat /\ q \in Nat /\ i <= p /\ p <= q /\ q <= Len(s)
            /\ q \in 0..Len(s) /\ Cut(s, i, p) \in Strs
<1> DEFINE p == Beg(s, pat, i)
           len == Longest(s, pat, p)
<1>1. p \in i..Len(s) /\ len \in 0..(Len(s) - p) /\ Len(s) \in Nat
  BY Finds DEF Strs
<1> HIDE DEF p, len
<1>2. p \in Nat /\ p \in Int /\ p + len \in Nat /\ i <= p /\ p <= p + len /\ p + len <= Len(s) /\ p <= Len(s)
      /\ p + len \in 0..Len(s)
  BY <1>1
<1>3. Cut(s, i, p) \in Strs
  BY <1>2, CutIs
<1> QED BY <1>2, <1>3 DEF p, len

(* Subst is such a function: it exists because k falls, and has its values in*)
(* the texts.                                                                *)
LEMMA SubstIs ==
  ASSUME NEW s \in Strs, NEW pat \in SUBSET Strs, NEW r \in Strs, NEW n \in Nat
  PROVE  \E f : Replaces(f, s, pat, r, n) /\ Subst(s, pat, r, n) = f[n][0]
<1> DEFINE m == Len(s)
           E == {i \in 0..m : Places(s, pat, i) = {}}
           B == [i \in 0..m |-> Drop(s, i)]
           To(i) == Beg(s, pat, i) + Longest(s, pat, Beg(s, pat, i))
           With(i, v) == Cut(s, i, Beg(s, pat, i)) \o r \o v
           q == [i \in (0..m) \ E |-> To(i)]
           C == [i \in (0..m) \ E |-> [v \in Strs |-> With(i, v)]]
           Body(g) == [k \in 0..n |-> [i \in 0..m |-> IF k = 0 \/ Places(s, pat, i) = {} THEN Drop(s, i)
                                                      ELSE With(i, g[k - 1][To(i)])]]
<1>1. m \in Nat
  BY DEF Strs
<1>2. \A i \in 0..m : Drop(s, i) \in Strs
  BY DropIs
<1>3. \A i \in (0..m) \ E : To(i) \in 0..m /\ \A v \in Strs : With(i, v) \in Strs
  <2> TAKE i \in (0..m) \ E
  <2>1. i \in Nat /\ Places(s, pat, i) # {}
    OBVIOUS
  <2>2. To(i) \in 0..m /\ Cut(s, i, Beg(s, pat, i)) \in Strs
    BY <2>1, FindsIn
  <2> QED BY <2>2, Joined
<1>4. /\ B \in [0..m -> Strs] /\ q \in [(0..m) \ E -> 0..m] /\ C \in [(0..m) \ E -> [Strs -> Strs]]
      /\ \A i \in 0..m : B[i] = Drop(s, i)
      /\ \A i \in (0..m) \ E : q[i] = To(i) /\ \A v \in Strs : C[i][v] = With(i, v)
  <2> HIDE DEF To, With, E, m
  <2> QED BY <1>2, <1>3
<1> HIDE DEF m, B, q, C
<1>5. PICK f : Unrolled(f, n, m, E, B, q, C)
  <2> HIDE DEF E
  <2> QED BY <1>1, <1>4, Unrolls
<1>6. \A k \in 0..n : \A i \in 0..m :
        f[k][i] \in Strs /\ f[k][i] = IF k = 0 \/ i \in E THEN B[i] ELSE C[i][f[k - 1][q[i]]]
  <2> HIDE DEF E
  <2>1. Unfolds(f, n, m, Strs, E, B, q, C)
    BY <1>1, <1>4, <1>5, UnrolledIn
  <2> QED BY <2>1 DEF Unfolds
<1> HIDE DEF To, With
<1>7. ASSUME NEW k \in 0..n, NEW i \in 0..m
      PROVE  (IF k = 0 \/ i \in E THEN B[i] ELSE C[i][f[k - 1][q[i]]])
               = (IF k = 0 \/ Places(s, pat, i) = {} THEN Drop(s, i) ELSE With(i, f[k - 1][To(i)]))
  <2>1. CASE k = 0 \/ i \in E
    BY <1>4, <2>1
  <2>2. CASE k # 0 /\ i \notin E
    <3>1. k - 1 \in 0..n /\ i \in (0..m) \ E
      BY <2>2
    <3>2. f[k - 1][To(i)] \in Strs
      BY <1>3, <1>6, <3>1
    <3> QED BY <1>4, <2>2, <3>1, <3>2
  <2> QED BY <2>1, <2>2
<1>8. f = Body(f)
  <2> DEFINE L(k, i) == IF k = 0 \/ i \in E THEN B[i] ELSE C[i][f[k - 1][q[i]]]
             R(k, i) == IF k = 0 \/ Places(s, pat, i) = {} THEN Drop(s, i) ELSE With(i, f[k - 1][To(i)])
  <2>1. f = [k \in 0..n |-> [i \in 0..m |-> L(k, i)]]
    BY <1>5 DEF Unrolled
  <2>2. \A k \in 0..n : \A i \in 0..m : L(k, i) = R(k, i)
    BY <1>7
  <2>3. Body(f) = [k \in 0..n |-> [i \in 0..m |-> R(k, i)]]
    OBVIOUS
  <2> HIDE DEF L, R, Body
  <2> DEFINE LL(k) == [i \in 0..m |-> L(k, i)]
             RR(k) == [i \in 0..m |-> R(k, i)]
  <2>4. \A k \in 0..n : LL(k) = RR(k)
    BY <2>2
  <2> HIDE DEF LL, RR
  <2>5. [k \in 0..n |-> LL(k)] = [k \in 0..n |-> RR(k)]
    BY <2>4
  <2> QED BY <2>1, <2>3, <2>5, Zenon DEF LL, RR
<1> DEFINE g == CHOOSE h : h = Body(h)
<1>9. g = Body(g)
  <2> HIDE DEF Body
  <2> QED BY <1>8
<1>10. Subst(s, pat, r, n) = g[n][0]
  BY DEF Subst, m, To, With
<1> HIDE DEF g, E
<1>11. \A h : h = Body(h) => \A k \in 0..n : \A i \in 0..m :
         h[k][i] = IF k = 0 \/ Places(s, pat, i) = {} THEN Drop(s, i) ELSE With(i, h[k - 1][To(i)])
  <2> SUFFICES ASSUME NEW h, h = Body(h), NEW k \in 0..n, NEW i \in 0..m
               PROVE  h[k][i] = IF k = 0 \/ Places(s, pat, i) = {} THEN Drop(s, i) ELSE With(i, h[k - 1][To(i)])
    BY Zenon
  <2>1. Body(h)[k][i] = IF k = 0 \/ Places(s, pat, i) = {} THEN Drop(s, i) ELSE With(i, h[k - 1][To(i)])
    OBVIOUS
  <2> HIDE DEF Body
  <2> QED BY <2>1, Zenon
<1> HIDE DEF Body
<1> DEFINE T == {k \in 0..n : \A i \in 0..m : g[k][i] \in Strs}
<1>12. 0 \in T
  BY <1>2, <1>9, <1>11
<1>13. ASSUME NEW k \in 1..n, k - 1 \in T PROVE k \in T
  <2>1. k \in 0..n /\ k - 1 \in 0..n
    OBVIOUS
  <2>2. ASSUME NEW i \in 0..m PROVE g[k][i] \in Strs
    <3>1. CASE Places(s, pat, i) = {}
      BY <1>2, <1>9, <1>11, <2>1, <3>1
    <3>2. CASE Places(s, pat, i) # {}
      <4>1. i \in (0..m) \ E
        BY <3>2 DEF E
      <4>2. g[k - 1][To(i)] \in Strs
        BY <1>3, <1>13, <4>1
      <4>3. g[k][i] = With(i, g[k - 1][To(i)])
        BY <1>9, <1>11, <2>1, <3>2
      <4> QED BY <1>3, <4>1, <4>2, <4>3
    <3> QED BY <3>1, <3>2
  <2> QED BY <2>1, <2>2
<1> HIDE DEF T
<1>14. 0..n \subseteq T
  BY <1>12, <1>13, UpTo
<1>15. Replaces(g, s, pat, r, n)
  BY <1>9, <1>11, <1>14 DEF T, Replaces, m, To, With
<1> QED BY <1>10, <1>15

-----------------------------------------------------------------------------
(* What a call that replaces is told: the words, what replaces them, and how  *)
(* many.                                                                     *)
Replacing == {"StrReplace", "BufReplace", "EOLtoLF", "RegexpReplace"}

Limited(c) == c.fn = "StrReplace" \/ (c.fn = "BufReplace" /\ c.n # 0)
ToldPat(c) == IF c.fn = "EOLtoLF" THEN {<<CR>>, <<CR, LF>>} ELSE c.pat
ToldRep(c) == IF c.fn = "EOLtoLF" THEN <<LF>> ELSE IF c.rep = Null THEN <<>> ELSE c.rep
ToldN(c) == IF Limited(c) THEN Times(c.n) ELSE All

Told(c) ==
  /\ c.fn \in Replacing /\ <<>> \notin c.pat
  /\ c.fn \in {"StrReplace", "BufReplace"} => c.rep # Null
  /\ c.fn = "BufReplace" /\ c.n = 0 =>
       ToldRep(c) = <<>> \/ {Len(ToldRep(c))} = {Len(w) : w \in c.pat}

(* The text t is what has been replaced, done, and the rest of the text from  *)
(* offset o on, where r words are still to be replaced.                       *)
Midway(c, t, i, m, f, done, o, r) ==
  /\ Replaces(f, c.src, ToldPat(c), ToldRep(c), ToldN(c))
  /\ Subst(c.src, ToldPat(c), ToldRep(c), ToldN(c)) = f[ToldN(c)][0]
  /\ done \in Strs /\ o \in 0..Len(c.src) /\ r \in 0..ToldN(c)
  /\ t = done \o Drop(c.src, o)
  /\ f[ToldN(c)][0] = done \o f[r][o]
  /\ i = IF c.fn = "StrReplace" THEN o ELSE Len(done)
  /\ IF Limited(c) THEN r = ToldN(c) - m ELSE r > Len(c.src) - o

ReplaceInv ==
  /\ status = "running" /\ Told(call) => \E f, done, o, r : Midway(call, text, at, count, f, done, o, r)
  /\ status = "returned" /\ Told(call) => text = Subst(Src, ToldPat(call), ToldRep(call), ToldN(call))

(* What is told is well formed.                                              *)
LEMMA ToldIs ==
  ASSUME NEW c \in AllCalls, Told(c)
  PROVE  /\ c.src \in Strs /\ Len(c.src) \in Nat
         /\ ToldPat(c) \in SUBSET Strs /\ <<>> \notin ToldPat(c)
         /\ ToldRep(c) \in Strs /\ Len(ToldRep(c)) \in Nat
         /\ ToldN(c) \in Nat /\ (~ Limited(c) => ToldN(c) > Len(c.src))
         /\ c.n \in Int /\ (c.fn = "StrReplace" => c.n >= -1) /\ (c.fn = "BufReplace" => c.n >= 0)
         /\ c.fn \in {"EOLtoLF", "RegexpReplace"} => c.n = 0
<1>1. CallIs(c)
  BY CallsAre
<1>2. c.src \in Strs /\ Len(c.src) \in Nat /\ Len(c.src) <= MaxSrc /\ c.pat \in SUBSET Strs /\ MaxSrc \in Nat
  BY <1>1, Bounds DEF CallIs, Strs
<1>3. <<>> \in Strs /\ <<LF>> \in Strs /\ <<CR>> \in Strs /\ <<CR, LF>> \in Strs
      /\ <<CR>> # <<>> /\ <<CR, LF>> # <<>>
  BY DEF Strs, Chars
<1>4. ToldPat(c) \in SUBSET Strs /\ <<>> \notin ToldPat(c)
  BY <1>2, <1>3 DEF ToldPat, Told
<1>5. ToldRep(c) \in Strs
  BY <1>1, <1>3 DEF ToldRep, CallIs
<1>6. Len(ToldRep(c)) \in Nat
  BY <1>5 DEF Strs
<1>7. /\ c.n \in Int /\ (c.fn = "StrReplace" => c.n >= -1) /\ (c.fn = "BufReplace" => c.n >= 0)
      /\ c.fn \in {"EOLtoLF", "RegexpReplace"} => c.n = 0
  BY <1>1 DEF CallIs, Counted
<1>8. ToldN(c) \in Nat /\ (~ Limited(c) => ToldN(c) > Len(c.src))
  BY <1>2, <1>7 DEF ToldN, Limited, Times, All
<1> QED BY <1>2, <1>4, <1>5, <1>6, <1>7, <1>8

(* At the beginning nothing is replaced.                                     *)
LEMMA MidwayBegins ==
  ASSUME NEW c \in AllCalls, Told(c)
  PROVE  \E f, done, o, r : Midway(c, c.src, 0, 0, f, done, o, r)
<1> DEFINE s == c.src
           N == ToldN(c)
<1>1. PICK f : Replaces(f, s, ToldPat(c), ToldRep(c), N) /\ Subst(s, ToldPat(c), ToldRep(c), N) = f[N][0]
  BY ToldIs, SubstIs
<1>2. s \in Strs /\ Len(s) \in Nat /\ N \in Nat /\ (~ Limited(c) => N > Len(s))
  BY ToldIs
<1>3. <<>> \in Strs /\ Len(<<>>) = 0
  BY DEF Strs
<1>4. f[N][0] \in Strs
  BY <1>1, <1>2 DEF Replaces
<1>5. <<>> \o f[N][0] = f[N][0] /\ <<>> \o Drop(s, 0) = s
  <2>1. Drop(s, 0) = s
    BY <1>2, SameText DEF Drop, Strs
  <2> QED BY <1>2, <1>4, <2>1, ConcatEmptySeq DEF Strs
<1>6. Midway(c, s, 0, 0, f, <<>>, 0, N)
  <2>1. IF Limited(c) THEN N = N - 0 ELSE N > Len(s) - 0
    BY <1>2
  <2>2. 0 \in 0..Len(s) /\ N \in 0..N
    BY <1>2
  <2> QED BY <1>1, <1>3, <1>5, <2>1, <2>2 DEF Midway
<1> QED BY <1>6

(* With no word more to replace the text is what Subst makes of the source.  *)
LEMMA MidwayEnds ==
  ASSUME NEW c \in AllCalls, Told(c), NEW t, NEW i, NEW m, NEW f, NEW done, NEW o, NEW r,
         Midway(c, t, i, m, f, done, o, r),
         r = 0 \/ Places(c.src, ToldPat(c), o) = {}
  PROVE  t = Subst(c.src, ToldPat(c), ToldRep(c), ToldN(c))
<1>1. f[r][o] = Drop(c.src, o)
  BY DEF Midway, Replaces
<1> QED BY <1>1 DEF Midway

(* One more word is replaced, the one in [p, q) of the source.                *)
Onward(c, t, m, f, done, o, r, p, q, more) ==
  /\ Len(done) \in Nat /\ o \in Nat /\ p \in Nat /\ q \in Nat /\ o <= p /\ p < q /\ q <= Len(c.src)
  /\ more \in Strs /\ Len(more) = Len(done) + (p - o) + Len(ToldRep(c))
  /\ Spliced(t, Len(done) + (p - o), Len(done) + (q - o), ToldRep(c)) = more \o Drop(c.src, q)
  /\ Take(t, Len(done) + (p - o)) \o ToldRep(c) \o Drop(c.src, q) = more \o Drop(c.src, q)
  /\ \A m2 : (Limited(c) => m2 = m + 1) =>
       Midway(c, more \o Drop(c.src, q), IF c.fn = "StrReplace" THEN q ELSE Len(more), m2, f, more, q, r - 1)

LEMMA MidwayGoesOn ==
  ASSUME NEW c \in AllCalls, Told(c), NEW t, NEW i, NEW m \in Nat, NEW f, NEW done, NEW o, NEW r,
         Midway(c, t, i, m, f, done, o, r),
         r # 0, Places(c.src, ToldPat(c), o) # {}
  PROVE  LET p == Beg(c.src, ToldPat(c), o)
             q == p + Longest(c.src, ToldPat(c), p)
         IN Onward(c, t, m, f, done, o, r, p, q, done \o Cut(c.src, o, p) \o ToldRep(c))
<1> DEFINE s == c.src
           pat == ToldPat(c)
           rep == ToldRep(c)
           d == Len(done)
           p == Beg(s, pat, o)
           len == Longest(s, pat, p)
           q == p + len
           more == done \o Cut(s, o, p) \o rep
           N == ToldN(c)
<1>0. /\ s \in Strs /\ Len(s) \in Nat /\ pat \in SUBSET Strs /\ <<>> \notin pat
      /\ rep \in Strs /\ Len(rep) \in Nat /\ N \in Nat
  BY ToldIs
<1>1. /\ done \in Strs /\ d \in Nat /\ o \in Nat /\ o \in 0..Len(s) /\ r \in 1..N /\ t = done \o Drop(s, o)
      /\ f[N][0] = done \o f[r][o] /\ Replaces(f, s, pat, rep, N)
      /\ (IF Limited(c) THEN r = N - m ELSE r > Len(s) - o)
      /\ Subst(s, pat, rep, N) = f[N][0]
  <2>1. done \in Strs /\ o \in 0..Len(s) /\ r \in 0..N
    BY DEF Midway
  <2>2. d \in Nat /\ o \in Nat /\ r \in 1..N
    BY <1>0, <2>1 DEF Strs
  <2> QED BY <2>1, <2>2 DEF Midway
<1>2. /\ p \in Nat /\ q \in Nat /\ o <= p /\ p <= q /\ q <= Len(s) /\ q \in 0..Len(s)
      /\ Cut(s, o, p) \in Strs
  BY <1>0, <1>1, FindsIn
<1>3. p < q
  <2>1. len \in 0..(Len(s) - p) /\ \E w \in pat : Len(w) = len
    BY <1>0, <1>1, Finds
  <2>2. len \in Nat /\ len > 0
    <3> HIDE DEF len
    <3> QED BY <1>0, <2>1, NotEmpty
  <2> HIDE DEF len
  <2> QED BY <1>2, <2>2
<1>4. f[r][o] = Cut(s, o, p) \o rep \o f[r - 1][q] /\ f[r - 1][q] \in Strs
  <2>1. r \in 0..N /\ r # 0 /\ r - 1 \in 0..N
    BY <1>0, <1>1
  <2> QED BY <1>1, <1>2, <2>1 DEF Replaces
<1> HIDE DEF s, pat, rep, p, q, N
<1> DEFINE rest == f[r - 1][q]
<1> HIDE DEF rest
<1>5. /\ more \in Strs /\ Len(more) = d + (p - o) + Len(rep)
      /\ Spliced(t, d + (p - o), d + (q - o), rep) = more \o Drop(s, q)
      /\ Take(t, d + (p - o)) \o rep \o Drop(s, q) = more \o Drop(s, q)
      /\ done \o (Cut(s, o, p) \o rep \o rest) = more \o rest
  <2>1. o <= p /\ p <= q /\ q <= Len(s) /\ rest \in Strs
    BY <1>2, <1>4 DEF rest
  <2>2. OneReplaced(s, o, p, q, done, t, rep, rest)
    BY <1>0, <1>1, <1>2, <2>1, Replaced
  <2> QED BY <2>2 DEF OneReplaced
<1> HIDE DEF more
<1>6. f[N][0] = more \o f[r - 1][q]
  BY <1>1, <1>4, <1>5 DEF rest
<1> DEFINE l == Len(s)
<1>8. N \in Nat /\ l \in Nat /\ r \in 1..N /\ r \in Nat /\ o \in Nat /\ r > 0
      /\ (IF Limited(c) THEN r = N - m ELSE r > l - o)
  <2>1. N \in Nat /\ r \in 1..N /\ o \in Nat
    BY <1>0, <1>1, Zenon
  <2>2. r \in Nat /\ r > 0
    BY <2>1
  <2>3. IF Limited(c) THEN r = N - m ELSE r > l - o
    BY <1>1, Zenon
  <2> QED BY <1>0, <2>1, <2>2, <2>3, Zenon
<1> HIDE DEF l
<1>7. ASSUME NEW m2, Limited(c) => m2 = m + 1
      PROVE  Midway(c, more \o Drop(s, q), IF c.fn = "StrReplace" THEN q ELSE Len(more), m2, f, more, q, r - 1)
  <2>1. r - 1 \in 0..N
    BY <1>8
  <2>2. IF Limited(c) THEN r - 1 = N - m2 ELSE r - 1 > Len(s) - q
    <3>1. CASE Limited(c)
      BY <1>7, <1>8, <3>1
    <3>2. CASE ~ Limited(c)
      <4>1. r > l - o
        BY <1>8, <3>2
      <4> QED BY <1>2, <1>3, <1>8, <3>2, <4>1 DEF l
    <3> QED BY <3>1, <3>2
  <2> QED BY <1>1, <1>2, <1>5, <1>6, <2>1, <2>2 DEF Midway, s, pat, rep, N
<1> QED BY <1>1, <1>2, <1>3, <1>5, <1>7, Zenon DEF s, pat, rep, p, q, more, Onward

(* What the invariant says of the text returned is what the function is said *)
(* to return.                                                                *)
LEMMA ReplacedAsTold == ASSUME IInv, ReplaceInv PROVE ReplacesAsTold
<1> SUFFICES ASSUME status = "returned", <<>> \notin Pat PROVE ReplacesAsTold
  BY DEF ReplacesAsTold
<1>0. call \in AllCalls /\ CallIs(call)
  BY CallsAre DEF IInv
<1>1. Told(call) => text = Subst(Src, ToldPat(call), ToldRep(call), ToldN(call))
  BY DEF ReplaceInv
<1>2. CASE call.fn = "StrReplace" /\ call.rep # Null
  <2>1. Told(call)
    BY <1>2 DEF Told, Replacing, Pat
  <2>2. ToldPat(call) = Pat /\ ToldRep(call) = Rep /\ ToldN(call) = IF call.n = -1 THEN 1 ELSE call.n
    BY <1>0, <1>2 DEF ToldPat, ToldRep, ToldN, Limited, Pat, Rep, Times, CallIs
  <2> QED BY <1>1, <1>2, <2>1, <2>2 DEF ReplacesAsTold
<1>3. CASE call.fn = "BufReplace" /\ call.rep # Null
  <2>1. ToldPat(call) = Pat /\ ToldRep(call) = Rep
    BY <1>3 DEF ToldPat, ToldRep, Pat, Rep
  <2>2. ASSUME call.n # 0 PROVE text = Subst(Src, Pat, Rep, call.n)
    <3>1. Told(call)
      BY <1>3, <2>2 DEF Told, Replacing, Pat
    <3>2. ToldN(call) = call.n
      BY <1>0, <1>3, <2>2 DEF ToldN, Limited, Times, CallIs, Counted
    <3> QED BY <1>1, <2>1, <3>1, <3>2
  <2>3. ASSUME call.n = 0, Rep = <<>> \/ {Len(Rep)} = {Len(w) : w \in Pat}
        PROVE  text = Subst(Src, Pat, Rep, All)
    <3>1. Told(call)
      BY <1>3, <2>1, <2>3 DEF Told, Replacing, Pat
    <3>2. ToldN(call) = All
      BY <1>3, <2>3 DEF ToldN, Limited
    <3> QED BY <1>1, <2>1, <3>1, <3>2
  <2> QED BY <1>3, <2>2, <2>3 DEF ReplacesAsTold
<1>4. CASE call.fn = "EOLtoLF"
  <2>1. Told(call)
    BY <1>4 DEF Told, Replacing, Pat
  <2>2. ToldPat(call) = {<<CR>>, <<CR, LF>>} /\ ToldRep(call) = <<LF>> /\ ToldN(call) = All
    BY <1>4 DEF ToldPat, ToldRep, ToldN, Limited
  <2> QED BY <1>1, <1>4, <2>1, <2>2 DEF ReplacesAsTold
<1>5. CASE call.fn = "RegexpReplace"
  <2>1. Told(call)
    BY <1>5 DEF Told, Replacing, Pat
  <2>2. ToldPat(call) = Pat /\ ToldRep(call) = Rep /\ ToldN(call) = All
    BY <1>5 DEF ToldPat, ToldRep, ToldN, Limited, Pat, Rep
  <2> QED BY <1>1, <1>5, <2>1, <2>2 DEF ReplacesAsTold
<1> QED BY <1>2, <1>3, <1>4, <1>5 DEF ReplacesAsTold

(* What a call that replaces says when it stops, returns or goes on.          *)
LEMMA StopTells ==
  ASSUME NEW how, how \notin {"running", "returned"}, Stop(how)
  PROVE  ReplaceInv'
BY DEF Stop, ReplaceInv

LEMMA ReturnTells ==
  ASSUME IInv, ReplaceInv, status = "running", Return,
         \A f, done, o, r : Told(call) /\ Midway(call, text, at, count, f, done, o, r) =>
                               r = 0 \/ Places(Src, ToldPat(call), o) = {}
  PROVE  ReplaceInv'
<1>1. call' = call /\ text' = text /\ status' = "returned" /\ Src' = Src /\ Src = call.src
  BY DEF Return, Stop, Src
<1>2. ASSUME Told(call) PROVE text = Subst(Src, ToldPat(call), ToldRep(call), ToldN(call))
  <2>1. PICK f, done, o, r : Midway(call, text, at, count, f, done, o, r)
    BY <1>2 DEF ReplaceInv
  <2>2. r = 0 \/ Places(Src, ToldPat(call), o) = {}
    BY <1>2, <2>1
  <2>3. call \in AllCalls
    BY DEF IInv
  <2> QED BY <1>1, <1>2, <2>1, <2>2, <2>3, MidwayEnds
<1> QED BY <1>1, <1>2 DEF ReplaceInv

LEMMA RoundTells ==
  ASSUME NEW t, NEW i, NEW o, status = "running", Round(t, i, o),
         Told(call) => LET m == IF call.n = 0 THEN count ELSE count + 1
                       IN \E f, done, x, r : Midway(call, t, i, m, f, done, x, r)
  PROVE  ReplaceInv'
BY DEF Round, ReplaceInv

(* kahanaStrReplace: the place as far from the end of the new text is that of*)
(* the word.                                                                 *)
LEMMA StrReplaceTells ==
  ASSUME IInv, ReplaceInv, StrReplace
  PROVE  ReplaceInv'
<1>0. status = "running" /\ call.fn = "StrReplace" /\ call \in AllCalls /\ Src = call.src /\ count \in Nat
  BY DEF StrReplace, Running, IInv, Src
<1>1. ASSUME Told(call)
      PROVE  /\ ToldPat(call) = Pat /\ ToldRep(call) = Rep /\ ToldN(call) = Times(call.n) /\ call.rep # Null
             /\ Limited(call) /\ Times(call.n) \in Nat /\ (call.n = 0 => count = 0) /\ count <= Times(call.n)
  <2>1. ToldPat(call) = Pat /\ ToldRep(call) = Rep /\ ToldN(call) = Times(call.n) /\ call.rep # Null
        /\ Limited(call)
    BY <1>0, <1>1 DEF ToldPat, ToldRep, ToldN, Limited, Pat, Rep, Told
  <2>2. Times(call.n) \in Nat
    BY <1>0, <1>1, <2>1, ToldIs
  <2>3. CountInv
    BY <1>0 DEF IInv
  <2> QED BY <1>0, <2>1, <2>2, <2>3 DEF CountInv, Counted, Times
<1>2. ASSUME NEW f, NEW done, NEW o, NEW r, Told(call), Midway(call, text, at, count, f, done, o, r)
      PROVE  o = at /\ r = Times(call.n) - count /\ r \in Nat
  BY <1>0, <1>1, <1>2 DEF Midway
<1>3. CASE Return /\ ~ (call.rep # Null /\ count < Times(call.n) /\ Found(Src))
  <2>1. ASSUME NEW f, NEW done, NEW o, NEW r, Told(call), Midway(call, text, at, count, f, done, o, r)
        PROVE  r = 0 \/ Places(Src, ToldPat(call), o) = {}
    BY <1>0, <1>1, <1>2, <1>3, <2>1 DEF Found
  <2> QED BY <1>0, <1>3, <2>1, ReturnTells
<1> DEFINE p == Beg(Src, Pat, at)
           q == p + Longest(Src, Pat, p)
           t == Take(text, Len(text) - (Len(Src) - p)) \o Rep \o Drop(Src, q)
<1>4. CASE call.rep # Null /\ count < Times(call.n) /\ Found(Src) /\ Round(t, q, out)
  <2>1. call.n # 0
    BY <1>0, <1>4 DEF Times
  <2>2. ASSUME Told(call) PROVE \E f, done, x, r : Midway(call, t, q, count + 1, f, done, x, r)
    <3>1. PICK f, done, o, r : Midway(call, text, at, count, f, done, o, r)
      BY <1>0, <2>2 DEF ReplaceInv
    <3>2. o = at /\ r # 0
      BY <1>0, <1>1, <1>2, <1>4, <2>2, <3>1
    <3> DEFINE more == done \o Cut(Src, at, p) \o Rep
               d == Len(done)
    <3>3. /\ d \in Nat /\ at \in Nat /\ p \in Nat /\ at <= p
          /\ Take(text, d + (p - at)) \o Rep \o Drop(Src, q) = more \o Drop(Src, q)
          /\ Midway(call, more \o Drop(Src, q), q, count + 1, f, more, q, r - 1)
      <4>1. Places(call.src, ToldPat(call), o) # {}
        BY <1>0, <1>1, <1>4, <2>2, <3>2 DEF Found
      <4> DEFINE PP == Beg(call.src, ToldPat(call), o)
                 QQ == PP + Longest(call.src, ToldPat(call), PP)
                 MM == done \o Cut(call.src, o, PP) \o ToldRep(call)
      <4>2. Onward(call, text, count, f, done, o, r, PP, QQ, MM)
        BY <1>0, <2>2, <3>1, <3>2, <4>1, MidwayGoesOn
      <4>3. PP = p /\ QQ = q /\ MM = more
        BY <1>0, <1>1, <2>2, <3>2
      <4> HIDE DEF PP, QQ, MM, p, q, more, d
      <4> QED BY <1>0, <1>1, <2>2, <3>2, <4>2, <4>3 DEF Onward, d
    <3>4. Len(text) - (Len(Src) - p) = d + (p - at)
      <4>1. text = done \o Drop(Src, at) /\ done \in Strs /\ at <= Len(Src)
        BY <1>0, <3>1, <3>2 DEF Midway
      <4>2. Src \in Strs /\ Len(Src) \in Nat
        BY <1>0, InCall
      <4>3. Drop(Src, at) \in Strs /\ Len(Drop(Src, at)) = Len(Src) - at
        BY <3>3, <4>1, <4>2, DropIs
      <4>4. Len(text) = d + Len(Drop(Src, at))
        BY <4>1, <4>3, JoinedAt
      <4> DEFINE l == Len(Src)
      <4> HIDE DEF l, d, p
      <4> QED BY <3>3, <4>2, <4>3, <4>4 DEF l
    <3>5. t = more \o Drop(Src, q)
      BY <3>3, <3>4
    <3> QED BY <3>3, <3>5
  <2> QED BY <1>0, <1>4, <2>1, <2>2, RoundTells
<1> QED BY <1>3, <1>4 DEF StrReplace

(* A call that searches in the text it changes finds the next word of the     *)
(* source, and with it replaced is where it should be behind the replacement. *)
Replacement(p, len) ==
  /\ p \in Nat /\ len \in Nat /\ len > 0 /\ p + len \in Nat
  /\ \E w \in Pat : Len(w) = len
  /\ \A m : (Limited(call) => m = count + 1) =>
       \E f, done, o, r : Midway(call, Spliced(text, p, p + len, Rep), p + Len(Rep), m, f, done, o, r)

LEMMA ReplacementTells ==
  ASSUME IInv, status = "running", call.fn \in {"BufReplace", "RegexpReplace"}, Told(call),
         NEW f, NEW done, NEW o, NEW r, Midway(call, text, at, count, f, done, o, r)
  PROVE  /\ Places(Src, ToldPat(call), o) = {} <=> ~ Found(text)
         /\ r # 0 /\ Found(text) =>
              Replacement(Beg(text, Pat, at), Longest(text, Pat, Beg(text, Pat, at)))
<1>0. /\ call \in AllCalls /\ Src = call.src /\ count \in Nat /\ Src \in Strs /\ Pat \in SUBSET Strs
      /\ ToldPat(call) = Pat /\ ToldRep(call) = Rep /\ Len(Rep) \in Nat /\ Len(Src) \in Nat
      /\ Rep \in Strs /\ call.fn # "StrReplace"
  BY InCall DEF IInv, Src, ToldPat, ToldRep, Pat, Rep
<1>1. done \in Strs /\ o \in Nat /\ o <= Len(Src) /\ text = done \o Drop(Src, o) /\ at = Len(done)
      /\ Len(done) \in Nat
  BY <1>0 DEF Midway, Strs
<1> DEFINE p == Beg(Src, Pat, o)
           len == Longest(Src, Pat, p)
           q == p + len
           p2 == Beg(text, Pat, at)
           more == done \o Cut(Src, o, p) \o Rep
<1>2. /\ Places(text, Pat, at) = {} <=> Places(Src, Pat, o) = {}
      /\ Places(Src, Pat, o) # {} => p2 = Len(done) + (p - o) /\ Longest(text, Pat, p2) = len
  <2>1. SameFrom(Src, Pat, o, text, Len(done))
    BY <1>0, <1>1, SameSearch
  <2> QED BY <1>1, <2>1 DEF SameFrom
<1>3. ASSUME r # 0, Places(Src, Pat, o) # {} PROVE Replacement(p2, Longest(text, Pat, p2))
  <2>1. Onward(call, text, count, f, done, o, r, p, q, more)
    BY <1>0, <1>3, MidwayGoesOn
  <2>2. len \in 0..(Len(Src) - p) /\ p \in o..Len(Src) /\ \E w \in Pat : Len(w) = len
    BY <1>0, <1>1, <1>3, Finds
  <2>3. p2 = Len(done) + (p - o) /\ Longest(text, Pat, p2) = len
    BY <1>2, <1>3
  <2> HIDE DEF p, p2, more
  <2>4. len \in Nat /\ len > 0 /\ p2 \in Nat /\ p2 + len = Len(done) + (q - o)
    <3>1. p < q /\ o <= p /\ p \in Nat /\ q \in Nat
      BY <2>1 DEF Onward
    <3>2. len \in Int
      BY <1>0, <1>1, <2>2
    <3> HIDE DEF len
    <3>3. len \in Nat /\ len > 0
      BY <3>1, <3>2
    <3> DEFINE d == Len(done)
    <3>4. d \in Nat /\ o \in Nat /\ p2 = d + (p - o)
      BY <1>1, <2>3
    <3> HIDE DEF d
    <3>5. p2 \in Nat /\ p2 + len = d + (q - o)
      BY <3>1, <3>3, <3>4
    <3> QED BY <3>3, <3>5 DEF d
  <2> HIDE DEF q, len
  <2>5. Spliced(text, p2, p2 + len, Rep) = more \o Drop(Src, q) /\ p2 + Len(Rep) = Len(more)
    BY <1>0, <2>1, <2>3, <2>4, Zenon DEF Onward
  <2>6. ASSUME NEW m, Limited(call) => m = count + 1
        PROVE  \E g, x, y, z : Midway(call, Spliced(text, p2, p2 + len, Rep), p2 + Len(Rep), m, g, x, y, z)
    <3>1. Midway(call, more \o Drop(Src, q), Len(more), m, f, more, q, r - 1)
      BY <1>0, <2>1, <2>6 DEF Onward
    <3> QED BY <2>5, <3>1
  <2>7. p2 + len \in Nat
    BY <2>4
  <2>8. Replacement(p2, len)
    BY <2>2, <2>4, <2>6, <2>7 DEF Replacement
  <2> QED BY <2>3, <2>8
<1> QED BY <1>0, <1>2, <1>3 DEF Found

(* kahanaBufStrReplace: told a limit, no replacement or one of equal length, *)
(* it goes on right behind what it put there.                                *)
LEMMA BufReplaceTells ==
  ASSUME IInv, ReplaceInv, BufReplace
  PROVE  ReplaceInv'
<1> DEFINE p == Beg(text, Pat, at)
           rlen == Longest(text, Pat, p)
           next == Spliced(text, p, p + rlen, Rep)
           match == Resumed(p, Len(Rep), rlen, call.n)
<1>0. status = "running" /\ call.fn = "BufReplace" /\ call \in AllCalls /\ count \in Nat
  BY DEF BufReplace, Running, IInv
<1>1. ASSUME Told(call)
      PROVE  /\ call.rep # Null /\ (Limited(call) <=> call.n # 0) /\ (call.n # 0 => ToldN(call) = call.n)
             /\ call.n \in Nat /\ ToldRep(call) = Rep /\ ToldPat(call) = Pat /\ Len(Src) \in Nat
             /\ (call.n = 0 => Rep = <<>> \/ {Len(Rep)} = {Len(w) : w \in Pat})
             /\ (call.n # 0 => count <= call.n)
  <2>1. /\ call.rep # Null /\ (Limited(call) <=> call.n # 0) /\ ToldRep(call) = Rep /\ ToldPat(call) = Pat
        /\ Len(Src) \in Nat
    BY <1>0, <1>1, InCall DEF Told, Limited, ToldRep, ToldPat, Rep, Pat
  <2>2. call.n \in Nat
    BY <1>0, <1>1, ToldIs
  <2>3. (call.n # 0 => ToldN(call) = call.n) /\ (call.n = 0 => Rep = <<>> \/ {Len(Rep)} = {Len(w) : w \in Pat})
    BY <1>0, <1>1, <2>1, <2>2 DEF ToldN, Times, Told, Pat
  <2>4. CountInv
    BY <1>0 DEF IInv
  <2> QED BY <1>0, <2>1, <2>2, <2>3, <2>4 DEF CountInv, Counted, Times
<1>2. ASSUME NEW f, NEW done, NEW o, NEW r, Told(call), Midway(call, text, at, count, f, done, o, r)
      PROVE  /\ IF call.n = 0 THEN r # 0 ELSE r = call.n - count
             /\ Places(Src, ToldPat(call), o) = {} <=> ~ Found(text)
             /\ r # 0 /\ Found(text) => Replacement(p, rlen)
  <2>1. IF call.n = 0 THEN r # 0 ELSE r = call.n - count
    <3>1. o \in 0..Len(Src) /\ (IF Limited(call) THEN r = ToldN(call) - count ELSE r > Len(Src) - o)
      BY <1>2 DEF Midway, Src
    <3> QED BY <1>1, <1>2, <3>1
  <2> QED BY <1>0, <1>2, <2>1, ReplacementTells
<1>3. CASE Return /\ (call.rep = Null \/ (call.n # 0 /\ count >= call.n) \/ ~ Found(text))
  <2>1. ASSUME NEW f, NEW done, NEW o, NEW r, Told(call), Midway(call, text, at, count, f, done, o, r)
        PROVE  r = 0 \/ Places(Src, ToldPat(call), o) = {}
    BY <1>0, <1>1, <1>2, <1>3, <2>1
  <2> QED BY <1>0, <1>3, <2>1, ReturnTells
<1>4. CASE call.rep # Null /\ (call.n = 0 \/ count < call.n) /\ Found(text) /\ Round(next, match, out)
  <2>1. ASSUME Told(call)
        PROVE  LET m == IF call.n = 0 THEN count ELSE count + 1
               IN \E f, done, x, r : Midway(call, next, match, m, f, done, x, r)
    <3>1. PICK f, done, o, r : Midway(call, text, at, count, f, done, o, r)
      BY <1>0, <2>1 DEF ReplaceInv
    <3>2. Replacement(p, rlen)
      BY <1>0, <1>1, <1>2, <1>4, <2>1, <3>1
    <3> DEFINE m == IF call.n = 0 THEN count ELSE count + 1
    <3> HIDE DEF p, rlen
    <3>3. \E g, x, y, z : Midway(call, next, p + Len(Rep), m, g, x, y, z)
      BY <1>1, <2>1, <3>2 DEF Replacement
    <3>4. match = p + Len(Rep)
      <4>1. p \in Nat /\ rlen \in Nat /\ \E w \in Pat : Len(w) = rlen
        BY <3>2 DEF Replacement
      <4>2. Len(Rep) \in Nat
        BY <1>0, InCall
      <4>3. CASE Len(Rep) = 0
        BY <4>1, <4>3 DEF Resumed
      <4>4. CASE Len(Rep) # 0 /\ call.n # 0
        BY <4>4 DEF Resumed
      <4>5. CASE Len(Rep) # 0 /\ call.n = 0
        <5>1. Rep # <<>>
          BY <4>5
        <5>2. Len(Rep) = rlen
          BY <1>1, <2>1, <4>1, <4>5, <5>1
        <5> QED BY <4>1, <4>2, <4>5, <5>2 DEF Resumed
      <4> QED BY <4>3, <4>4, <4>5
    <3> HIDE DEF next, match
    <3> QED BY <3>3, <3>4
  <2> QED BY <1>0, <1>4, <2>1, RoundTells
<1>5. CASE Stop("wild") \/ Stop("failed") \/ Stop("stale")
  BY <1>5, StopTells
<1> QED BY <1>3, <1>4, <1>5 DEF BufReplace

(* kahanaStrRegexpReplace: no match is empty, so that each is replaced.      *)
LEMMA RegexpReplaceTells ==
  ASSUME IInv, ReplaceInv, RegexpReplace
  PROVE  ReplaceInv'
<1> DEFINE p == Beg(text, Pat, at)
           rlen == Longest(text, Pat, p)
           next == Spliced(text, p, p + rlen, Rep)
           t == ReplaceFromTo(text, p, p + rlen, Rep)
<1>0. status = "running" /\ call.fn = "RegexpReplace" /\ call \in AllCalls /\ count \in Nat /\ Len(Src) \in Nat
  BY InCall DEF RegexpReplace, Running, IInv
<1>1. ~ Limited(call) /\ (Told(call) => call.n = 0)
  BY <1>0, ToldIs DEF Limited
<1>2. ASSUME NEW f, NEW done, NEW o, NEW r, Told(call), Midway(call, text, at, count, f, done, o, r)
      PROVE  /\ Places(Src, ToldPat(call), o) = {} <=> ~ Found(text)
             /\ Found(text) => Replacement(p, rlen)
  <2>1. r # 0
    <3>1. o \in 0..Len(Src) /\ r > Len(Src) - o
      BY <1>1, <1>2 DEF Midway, Src
    <3> QED BY <1>0, <3>1
  <2> QED BY <1>0, <1>2, <2>1, ReplacementTells
<1>3. CASE ~ Found(text) /\ Return
  <2>1. ASSUME NEW f, NEW done, NEW o, NEW r, Told(call), Midway(call, text, at, count, f, done, o, r)
        PROVE  r = 0 \/ Places(Src, ToldPat(call), o) = {}
    BY <1>2, <1>3, <2>1
  <2> QED BY <1>0, <1>3, <2>1, ReturnTells
<1>4. CASE Found(text) /\ Round(t, p + Len(Rep), out)
  <2>1. ASSUME Told(call)
        PROVE  LET m == IF call.n = 0 THEN count ELSE count + 1
               IN \E f, done, x, r : Midway(call, t, p + Len(Rep), m, f, done, x, r)
    <3>1. PICK f, done, o, r : Midway(call, text, at, count, f, done, o, r)
      BY <1>0, <2>1 DEF ReplaceInv
    <3>2. Replacement(p, rlen)
      BY <1>2, <1>4, <2>1, <3>1
    <3> DEFINE m == IF call.n = 0 THEN count ELSE count + 1
    <3> HIDE DEF p, rlen
    <3>3. \E g, x, y, z : Midway(call, next, p + Len(Rep), m, g, x, y, z)
      BY <1>1, <2>1, <3>2 DEF Replacement
    <3>4. t = next
      <4>1. p \in Nat /\ rlen \in Nat /\ rlen > 0
        BY <3>2 DEF Replacement
      <4>2. p < p + rlen
        BY <4>1
      <4> QED BY <4>2 DEF ReplaceFromTo
    <3> HIDE DEF next, t
    <3> QED BY <3>3, <3>4
  <2> QED BY <1>0, <1>4, <2>1, RoundTells
<1>5. CASE Stop("failed")
  BY <1>5, StopTells
<1> QED BY <1>3, <1>4, <1>5 DEF RegexpReplace

(* Where no word of pat is, its character stays. *)
LEMMA CharacterStays ==
  ASSUME NEW s \in Strs, NEW pat \in SUBSET Strs, NEW rep \in Strs, NEW n \in Nat,
         NEW f, Replaces(f, s, pat, rep, n), NEW r \in 1..n, NEW o \in Nat, o < Len(s),
         \A w \in pat : ~ At(s, o, w)
  PROVE  f[r][o] = Cut(s, o, o + 1) \o f[r][o + 1] /\ f[r][o + 1] \in Strs
<1> DEFINE P == Places(s, pat, o)
           p == Beg(s, pat, o)
           q == p + Longest(s, pat, p)
           i == o + 1
           c == Cut(s, o, i)
<1>1. Len(s) \in Nat /\ i \in Nat /\ i <= Len(s) /\ o \in 0..Len(s) /\ i \in 0..Len(s) /\ o <= i
      /\ r \in 0..n /\ r # 0 /\ r - 1 \in 0..n
  BY DEF Strs
<1>2. Places(s, pat, i) = P
  <2> DEFINE l == Len(s)
  <2> HIDE DEF l
  <2>1. l \in Nat /\ \A x \in o..l : x = o \/ x \in i..l
    BY <1>1 DEF l
  <2>2. \A x \in i..l : x \in o..l
    BY <1>1, <2>1
  <2> QED BY <2>1, <2>2 DEF Places, l
<1>3. c \in Strs /\ Drop(s, o) = c \o Drop(s, i)
  <2>1. i \in Int
    BY <1>1
  <2> HIDE DEF i
  <2>2. Cut(s, o, i) \in Strs
    BY <1>1, <2>1, CutIs
  <2>3. Cut(s, o, i) \o Drop(s, i) = Drop(s, o)
    BY <1>1, CutDrop
  <2> QED BY <2>2, <2>3
<1>4. f[r][i] \in Strs
  BY <1>1 DEF Replaces
<1>5. CASE P = {}
  <2>1. f[r][o] = Drop(s, o) /\ f[r][i] = Drop(s, i)
    BY <1>1, <1>2, <1>5 DEF Replaces
  <2> QED BY <1>3, <1>4, <2>1
<1>6. CASE P # {}
  <2>1. f[r][o] = Cut(s, o, p) \o rep \o f[r - 1][q]
    BY <1>1, <1>6 DEF Replaces
  <2>2. f[r][i] = Cut(s, i, p) \o rep \o f[r - 1][q]
    <3>1. Beg(s, pat, i) = p
      BY <1>2 DEF Beg
    <3> HIDE DEF p, i, P
    <3> QED BY <1>1, <1>2, <1>6, <3>1 DEF Replaces
  <2>3. p \in Nat /\ i <= p /\ p <= Len(s) /\ q \in 0..Len(s) /\ Cut(s, i, p) \in Strs
    <3>1. Places(s, pat, i) # {} /\ Beg(s, pat, i) = p
      BY <1>2, <1>6 DEF Beg
    <3> HIDE DEF p, P, i
    <3> QED BY <1>1, <3>1, FindsIn
  <2>4. f[r - 1][q] \in Strs
    <3> HIDE DEF q
    <3> QED BY <1>1, <2>3 DEF Replaces
  <2>5. Cut(s, o, p) = c \o Cut(s, i, p)
    <3> HIDE DEF p, P, i
    <3> QED BY <1>1, <2>3, Adjacent DEF i
  <2> DEFINE e == Cut(s, i, p)
             z == f[r - 1][q]
  <2> HIDE DEF p, q, P, i, c, e, z
  <2>6. rep \o z \in Strs /\ c \o e \in Strs /\ e \o rep \in Strs
    BY <1>3, <2>3, <2>4, JoinedAt DEF e, z
  <2>7. Assoc(c, e, rep \o z) /\ Assoc(c \o e, rep, z) /\ Assoc(e, rep, z)
    BY <1>3, <2>3, <2>4, <2>6, Associative DEF e, z
  <2>8. (c \o e) \o rep \o z = c \o (e \o rep \o z)
    BY <2>7 DEF Assoc
  <2> QED BY <1>4, <2>1, <2>2, <2>5, <2>8, Zenon DEF e, z, c, i
<1> QED BY <1>4, <1>5, <1>6

(* Words of one or two characters: the longest that is at a place.            *)
LEMMA LongestEOL ==
  ASSUME NEW s \in Strs, NEW o \in Nat, o < Len(s), NEW pat, pat = {<<CR>>, <<CR, LF>>}, At(s, o, <<CR>>)
  PROVE  /\ o \in Places(s, pat, o) /\ Beg(s, pat, o) = o
         /\ Longest(s, pat, o) = IF At(s, o, <<CR, LF>>) THEN 2 ELSE 1
<1> DEFINE P == Places(s, pat, o)
           L == {Len(w) : w \in {v \in pat : At(s, o, v)}}
<1>1. Len(s) \in Nat /\ o \in o..Len(s)
  BY DEF Strs
<1>2. o \in P /\ P \in SUBSET Nat /\ \A x \in P : o <= x
  BY <1>1 DEF Places
<1>3. Beg(s, pat, o) = o
  <2>1. Min(P) \in P /\ \A y \in P : Min(P) <= y
    <3> HIDE DEF P
    <3> QED BY <1>2, Least
  <2>2. Min(P) \in Nat /\ o <= Min(P) /\ Min(P) <= o
    <3> HIDE DEF P
    <3> QED BY <1>2, <2>1
  <2> HIDE DEF P
  <2>3. Min(P) = o
    BY <2>2
  <2> QED BY <2>3 DEF Beg, P
<1>4. Len(<<CR>>) = 1 /\ Len(<<CR, LF>>) = 2
  OBVIOUS
<1>5. L = IF At(s, o, <<CR, LF>>) THEN {1, 2} ELSE {1}
  <2>1. CASE At(s, o, <<CR, LF>>)
    <3>1. {v \in pat : At(s, o, v)} = {<<CR>>, <<CR, LF>>}
      BY <2>1
    <3> QED BY <1>4, <2>1, <3>1
  <2>2. CASE ~ At(s, o, <<CR, LF>>)
    <3>1. {v \in pat : At(s, o, v)} = {<<CR>>}
      BY <2>2
    <3> QED BY <1>4, <2>2, <3>1
  <2> QED BY <2>1, <2>2
<1> HIDE DEF L
<1>6. Max(L) \in L /\ \A y \in L : Max(L) >= y
  <2>1. L \in SUBSET (0..2) /\ L # {} /\ 2 \in Nat
    BY <1>5
  <2> QED BY <2>1, Greatest
<1>7. Max(L) = IF At(s, o, <<CR, LF>>) THEN 2 ELSE 1
  BY <1>5, <1>6
<1> QED BY <1>2, <1>3, <1>7 DEF Longest, L

(* kahanaStrEOLtoLF at a CR: the two characters or the one give an LF, and    *)
(* the search goes on behind it.                                             *)
LEMMA EndOfLine ==
  ASSUME NEW t \in Strs, NEW d \in Nat, d < Len(t), At(t, d, <<CR, LF>>)
  PROVE  Spliced(t, d, d + 1, <<>>) = Spliced(t, d, d + 2, <<LF>>)
<1> DEFINE i == d + 1
           a == Take(t, d)
           b == <<LF>>
           z == Drop(t, d + 2)
<1>1. Len(<<CR, LF>>) = 2 /\ <<CR, LF>> \in Strs /\ 2 \in 1..2 /\ <<CR, LF>>[2] = LF /\ b \in Strs
  BY DEF Strs, Chars
<1>2. d + 2 <= Len(t) /\ t[d + 2] = LF
  BY <1>1, AtIs
<1>3. /\ i \in Nat /\ i + 1 = d + 2 /\ i + 1 \in 1..Len(t) /\ d + 2 \in Nat
      /\ d \in Int /\ d <= Len(t) /\ Len(t) \in Nat
  BY <1>2 DEF Strs
<1>4. a \in Strs /\ z \in Strs
  BY <1>2, <1>3, TakeIs, DropIs
<1>5. b \o z = Drop(t, i)
  <2> HIDE DEF i
  <2>1. <<t[i + 1]>> \o Drop(t, i + 1) = Drop(t, i)
    BY <1>3, DropFirst DEF Strs
  <2> QED BY <1>2, <1>3, <2>1
<1>6. a \o <<>> = a
  BY <1>4, ConcatEmptySeq DEF Strs
<1>7. Assoc(a, b, z)
  <2> HIDE DEF a, b, z
  <2> QED BY <1>1, <1>4, Associative
<1>8. Spliced(t, d, i, <<>>) = a \o Drop(t, i)
  BY <1>6 DEF Spliced
<1>9. Spliced(t, d, d + 2, <<LF>>) = (a \o b) \o z
  BY DEF Spliced
<1> HIDE DEF a, b, z
<1> QED BY <1>5, <1>7, <1>8, <1>9, Zenon DEF Assoc, i

(* kahanaStrEOLtoLF: a character that begins no end of line is passed and    *)
(* kept.                                                                     *)
LEMMA EOLtoLFTells ==
  ASSUME IInv, ReplaceInv, EOLtoLF
  PROVE  ReplaceInv'
<1> DEFINE pat == {<<CR>>, <<CR, LF>>}
<1>0. /\ status = "running" /\ call.fn = "EOLtoLF" /\ call \in AllCalls /\ count \in Nat /\ Src = call.src
      /\ Src \in Strs /\ Len(Src) \in Nat /\ text \in Strs /\ Len(text) \in Nat /\ at \in Nat
  BY InCall DEF EOLtoLF, Running, IInv, Src
<1>1. ASSUME Told(call)
      PROVE  /\ ToldPat(call) = pat /\ ToldRep(call) = <<LF>> /\ ~ Limited(call) /\ call.n = 0
             /\ ToldN(call) \in Nat /\ pat \in SUBSET Strs /\ <<LF>> \in Strs /\ Len(<<LF>>) = 1
  <2>1. ToldPat(call) = pat /\ ToldRep(call) = <<LF>> /\ ~ Limited(call) /\ Len(<<LF>>) = 1
    BY <1>0 DEF ToldPat, ToldRep, Limited
  <2> HIDE DEF pat
  <2> QED BY <1>0, <1>1, <2>1, ToldIs
<1> HIDE DEF pat
<1>2. ASSUME NEW f, NEW done, NEW o, NEW r, Told(call), Midway(call, text, at, count, f, done, o, r)
      PROVE  /\ done \in Strs /\ at = Len(done) /\ o \in Nat /\ o <= Len(Src) /\ text = done \o Drop(Src, o)
             /\ Len(text) - at = Len(Src) - o /\ r \in 1..ToldN(call) /\ r > Len(Src) - o
  <2>1. /\ done \in Strs /\ at = Len(done) /\ o \in 0..Len(Src) /\ text = done \o Drop(Src, o)
        /\ r \in 0..ToldN(call) /\ r > Len(Src) - o
    BY <1>0, <1>1, <1>2 DEF Midway
  <2>2. o \in Nat /\ o <= Len(Src) /\ r # 0 /\ r \in 1..ToldN(call)
    BY <1>0, <1>1, <1>2, <2>1
  <2>3. Drop(Src, o) \in Strs /\ Len(Drop(Src, o)) = Len(Src) - o
    BY <1>0, <2>2, DropIs
  <2>4. Len(text) = Len(done) + Len(Drop(Src, o))
    BY <2>1, <2>3, JoinedAt
  <2>5. Len(text) - at = Len(Src) - o
    <3> DEFINE l == Len(Src)
               u == Len(Drop(Src, o))
               x == Len(text)
    <3>1. l \in Nat /\ x \in Nat /\ at \in Nat /\ u = l - o /\ x = at + u /\ o \in Nat
      BY <1>0, <2>1, <2>2, <2>3, <2>4
    <3> HIDE DEF l, u, x
    <3>2. x - at = l - o
      BY <3>1
    <3> QED BY <3>2 DEF l, x
  <2> QED BY <2>1, <2>2, <2>5
<1>3. CASE at >= Len(text) /\ Return
  <2>1. ASSUME NEW f, NEW done, NEW o, NEW r, Told(call), Midway(call, text, at, count, f, done, o, r)
        PROVE  r = 0 \/ Places(Src, ToldPat(call), o) = {}
    <3>1. o = Len(Src)
      BY <1>0, <1>2, <1>3, <2>1
    <3>2. Places(Src, pat, o) = {}
      <4> SUFFICES ASSUME NEW x \in Places(Src, pat, o) PROVE FALSE
        OBVIOUS
      <4>1. x \in o..Len(Src) /\ \E w \in pat : At(Src, x, w)
        BY DEF Places
      <4>2. \A w \in pat : Len(w) > 0
        BY DEF pat
      <4> QED BY <1>0, <3>1, <4>1, <4>2 DEF At
    <3> QED BY <1>1, <2>1, <3>2
  <2> QED BY <1>0, <1>3, <2>1, ReturnTells
<1> DEFINE next == CASE At(text, at, <<CR, LF>>) -> Spliced(text, at, at + 1, <<>>)
                     [] At(text, at, <<CR>>) /\ ~ At(text, at, <<CR, LF>>) -> Spliced(text, at, at + 1, <<LF>>)
                     [] OTHER -> text
<1>4. CASE at < Len(text) /\ Round(next, at + 1, out)
  <2>1. ASSUME Told(call) PROVE \E f, done, x, r : Midway(call, next, at + 1, count, f, done, x, r)
    <3>1. PICK f, done, o, r : Midway(call, text, at, count, f, done, o, r)
      BY <1>0, <2>1 DEF ReplaceInv
    <3>2. o \in Nat /\ o < Len(Src) /\ r # 0 /\ done \in Strs /\ at = Len(done) /\ text = done \o Drop(Src, o)
      <4>1. /\ done \in Strs /\ at = Len(done) /\ o \in Nat /\ text = done \o Drop(Src, o)
            /\ Len(text) - at = Len(Src) - o /\ r \in 1..ToldN(call)
        BY <1>2, <2>1, <3>1
      <4> DEFINE l == Len(Src)
                 m == Len(text)
      <4>2. r # 0 /\ o < l
        <5>1. l \in Nat /\ m \in Nat /\ m - at = l - o /\ at < m
          BY <1>0, <1>4, <4>1
        <5> HIDE DEF l, m
        <5>2. l - o > 0 /\ o \in Nat
          BY <4>1, <5>1
        <5>3. o < l
          BY <5>1, <5>2
        <5>4. r # 0
          BY <1>1, <2>1, <4>1
        <5> QED BY <5>3, <5>4
      <4> QED BY <4>1, <4>2
    <3>3. \A w \in Strs : At(text, at, w) <=> At(Src, o, w)
      <4>1. o <= Len(Src)
        BY <1>0, <3>2
      <4>2. SameAt(Src, o, text, Len(done))
        BY <1>0, <3>2, <4>1, AtBegin
      <4> QED BY <3>2, <4>2 DEF SameAt
    <3>4. /\ <<CR>> \in Strs /\ <<CR, LF>> \in Strs /\ pat = {<<CR>>, <<CR, LF>>}
          /\ Len(<<CR>>) = 1 /\ Len(<<CR, LF>>) = 2
      BY DEF Strs, Chars, pat
    <3>5. At(text, at, <<CR, LF>>) => At(text, at, <<CR>>)
      <4> SUFFICES ASSUME At(text, at, <<CR, LF>>) PROVE At(text, at, <<CR>>)
        OBVIOUS
      <4> DEFINE w == <<CR, LF>>
      <4>0. w \in Strs /\ Len(w) = 2 /\ w[1] = CR /\ 1 \in 1..2
        BY <3>4
      <4> HIDE DEF w
      <4>1. at + 2 <= Len(text) /\ text[at + 1] = CR
        <5>1. at + Len(w) <= Len(text) /\ \A j \in 1..Len(w) : text[at + j] = w[j]
          BY <1>0, <4>0, AtIs, Zenon DEF w
        <5> QED BY <4>0, <5>1
      <4>2. at + 1 <= Len(text) /\ \A j \in 1..1 : text[at + j] = <<CR>>[j]
        BY <1>0, <4>1
      <4> QED BY <1>0, <3>4, <4>2, AtIs
    <3>6. CASE At(text, at, <<CR>>)
      <4> DEFINE len == IF At(text, at, <<CR, LF>>) THEN 2 ELSE 1
                 q == o + len
                 more == done \o Cut(Src, o, o) \o <<LF>>
      <4>1. /\ o \in Places(Src, pat, o) /\ Beg(Src, pat, o) = o /\ Longest(Src, pat, o) = len
        BY <1>0, <3>2, <3>3, <3>4, <3>6, LongestEOL
      <4>2. Onward(call, text, count, f, done, o, r, o, q, more)
        <5>1. Places(call.src, ToldPat(call), o) # {}
          BY <1>0, <1>1, <2>1, <4>1
        <5> DEFINE pp == Beg(call.src, ToldPat(call), o)
                   qq == pp + Longest(call.src, ToldPat(call), pp)
        <5>2. Onward(call, text, count, f, done, o, r, pp, qq, done \o Cut(call.src, o, pp) \o ToldRep(call))
          BY <1>0, <2>1, <3>1, <3>2, <5>1, MidwayGoesOn
        <5>3. pp = o /\ qq = q
          BY <1>0, <1>1, <2>1, <4>1
        <5> HIDE DEF pp, qq, q, len
        <5> QED BY <1>0, <1>1, <2>1, <5>2, <5>3, Zenon
      <4>3. Spliced(text, at, at + len, <<LF>>) = more \o Drop(Src, q) /\ Len(more) = at + 1
        <5>1. Spliced(text, at + (o - o), at + (q - o), <<LF>>) = more \o Drop(Src, q)
              /\ Len(more) = at + (o - o) + 1
          BY <1>0, <1>1, <2>1, <3>2, <4>2, Zenon DEF Onward
        <5>2. at + (o - o) = at /\ at + (q - o) = at + len
          BY <1>0, <3>2
        <5>3. at + (o - o) + 1 = at + 1
          BY <1>0, <3>2
        <5> HIDE DEF more, q, len
        <5> QED BY <5>1, <5>2, <5>3, Zenon
      <4>4. next = Spliced(text, at, at + len, <<LF>>)
        <5>1. CASE At(text, at, <<CR, LF>>)
          <6>1. next = Spliced(text, at, at + 1, <<>>)
            BY <5>1
          <6>2. Spliced(text, at, at + 1, <<>>) = Spliced(text, at, at + 2, <<LF>>)
            BY <1>0, <1>4, <5>1, EndOfLine
          <6> QED BY <5>1, <6>1, <6>2
        <5>2. CASE ~ At(text, at, <<CR, LF>>)
          BY <3>6, <5>2
        <5> QED BY <5>1, <5>2
      <4>5. Midway(call, more \o Drop(Src, q), Len(more), count, f, more, q, r - 1)
        <5> HIDE DEF more, q
        <5> QED BY <1>0, <1>1, <2>1, <4>2 DEF Onward
      <4> HIDE DEF next, more, q, len
      <4> QED BY <4>3, <4>4, <4>5
    <3>7. CASE ~ At(text, at, <<CR>>)
      <4> DEFINE N == ToldN(call)
                 i == o + 1
                 c == Cut(Src, o, i)
                 rest == f[r][i]
      <4>1. Replaces(f, Src, pat, <<LF>>, N) /\ f[N][0] = done \o f[r][o]
            /\ Subst(Src, pat, <<LF>>, N) = f[N][0]
        BY <1>0, <1>1, <2>1, <3>1 DEF Midway
      <4>2. f[r][o] = c \o rest /\ rest \in Strs
        <5>1. \A w \in pat : ~ At(Src, o, w)
          BY <3>3, <3>4, <3>5, <3>7
        <5>2. r \in 1..N /\ N \in Nat
          BY <1>1, <1>2, <2>1, <3>1
        <5> HIDE DEF N
        <5> QED BY <1>0, <1>1, <2>1, <3>2, <4>1, <5>1, <5>2, CharacterStays
      <4>3. c \in Strs /\ Len(c) = 1 /\ Drop(Src, o) = c \o Drop(Src, i) /\ Drop(Src, i) \in Strs /\ i \in Nat
            /\ i <= Len(Src)
        <5>1. i \in Nat /\ i \in Int /\ o <= i /\ i <= Len(Src) /\ i - o = 1
          BY <1>0, <3>2
        <5> HIDE DEF i
        <5>2. c \in Strs /\ Len(c) = IF o <= i THEN i - o ELSE 0
          BY <1>0, <3>2, <5>1, CutIs
        <5>3. c \o Drop(Src, i) = Drop(Src, o) /\ Drop(Src, i) \in Strs
          BY <1>0, <3>2, <5>1, CutDrop, DropIs
        <5> QED BY <5>1, <5>2, <5>3
      <4> DEFINE more == done \o c
      <4>4. more \in Strs /\ Len(more) = at + 1
        <5> HIDE DEF c
        <5>1. done \o c \in Strs /\ Len(done \o c) = Len(done) + Len(c)
          BY <3>2, <4>3, JoinedAt, Zenon
        <5> QED BY <3>2, <4>3, <5>1
      <4>5. text = more \o Drop(Src, i) /\ f[N][0] = more \o rest
        <5>1. Assoc(done, c, Drop(Src, i)) /\ Assoc(done, c, rest)
          <6> HIDE DEF c, rest
          <6> QED BY <3>2, <4>2, <4>3, Associative
        <5> HIDE DEF c, rest, i
        <5> QED BY <3>2, <4>1, <4>2, <4>3, <5>1, Zenon DEF Assoc
      <4>6. next = text
        BY <3>5, <3>7
      <4>7. r > Len(Src) - i /\ r \in 0..N /\ i \in 0..Len(Src)
        <5>1. r \in 1..N /\ r > Len(Src) - o /\ N \in Nat
          BY <1>1, <1>2, <2>1, <3>1
        <5> DEFINE l == Len(Src)
        <5> HIDE DEF l, N
        <5>2. l \in Nat /\ o \in Nat /\ r > l - o /\ i <= l
          BY <1>0, <3>2, <4>3, <5>1 DEF l
        <5>3. r > l - i /\ r \in 0..N /\ i \in 0..l
          BY <5>1, <5>2
        <5> QED BY <5>3 DEF l
      <4> HIDE DEF next, more, i, rest, N
      <4>8. Midway(call, next, at + 1, count, f, more, i, r)
        BY <1>0, <1>1, <2>1, <4>1, <4>4, <4>5, <4>6, <4>7 DEF Midway, N, rest
      <4> QED BY <4>8
    <3> QED BY <3>6, <3>7
  <2>2. Told(call) => LET m == IF call.n = 0 THEN count ELSE count + 1
                      IN \E f, done, x, r : Midway(call, next, at + 1, m, f, done, x, r)
    <3> HIDE DEF next
    <3> QED BY <1>1, <2>1
  <2> HIDE DEF next
  <2> QED BY <1>0, <1>4, <2>2, RoundTells
<1> QED BY <1>3, <1>4 DEF EOLtoLF

LEMMA NextReplaces == IInv /\ ReplaceInv /\ [Next]_vars => ReplaceInv'
<1> SUFFICES ASSUME IInv, ReplaceInv, [Next]_vars PROVE ReplaceInv'
  OBVIOUS
<1>1. CASE UNCHANGED vars
  BY <1>1 DEF vars, ReplaceInv, Src
<1>2. CASE Begin
  <2>1. /\ status = "idle" /\ status' \in {"running", "failed"} /\ call' \in AllCalls
        /\ text' = IF call'.fn \in {"EncodeURI", "StrtoBytes"} THEN <<>> ELSE call'.src
        /\ at' = 0 /\ count' = 0
    BY <1>2 DEF Begin, IInv, AllCalls
  <2>2. ASSUME Told(call') PROVE \E f, done, o, r : Midway(call', text', 0, 0, f, done, o, r)
    <3>1. text' = call'.src
      BY <2>1, <2>2 DEF Told, Replacing
    <3> QED BY <2>1, <2>2, <3>1, MidwayBegins
  <2> QED BY <2>1, <2>2 DEF ReplaceInv
<1>3. CASE StrReplace
  BY <1>3, StrReplaceTells
<1>4. CASE BufReplace
  BY <1>4, BufReplaceTells
<1>5. CASE EOLtoLF
  BY <1>5, EOLtoLFTells
<1>6. CASE RegexpReplace
  BY <1>6, RegexpReplaceTells
<1>7. CASE SearchFails
  BY <1>7, StopTells DEF SearchFails
<1>8. CASE \/ ReplaceByCallback \/ RegexpMatch \/ RegexpSplit \/ Extr \/ DeleteOverlap \/ EncodeURI
           \/ Strlen \/ StrPos \/ StrtoBytes
  <2>1. call.fn \notin Replacing
    BY <1>8 DEF ReplaceByCallback, RegexpMatch, RegexpSplit, Extr, DeleteOverlap, EncodeURI, Strlen, StrPos,
                StrtoBytes, Running, Replacing
  <2>2. call' = call
    BY <1>8 DEF ReplaceByCallback, RegexpMatch, RegexpSplit, Extr, DeleteOverlap, EncodeURI, Strlen, StrPos,
                StrtoBytes, Return, Stop, Round, Pass
  <2> QED BY <2>1, <2>2 DEF ReplaceInv, Told
<1> QED BY <1>1, <1>2, <1>3, <1>4, <1>5, <1>6, <1>7, <1>8 DEF Next, Rounds

-----------------------------------------------------------------------------
(* The words of a text: what is between separators and as long as it can be.  *)
IsRun(s, S, i, j) ==
  /\ i < j
  /\ \A k \in (i + 1)..j : s[k] \notin S
  /\ i = 0 \/ s[i] \in S
  /\ j = Len(s) \/ s[j + 1] \in S

(* Those that begin before offset m. *)
RunsTo(s, S, m) == {x \in (0..Len(s)) \X (0..Len(s)) : IsRun(s, S, x[1], x[2]) /\ x[1] < m}
WordsTo(s, S, m) == {Cut(s, x[1], x[2]) : x \in RunsTo(s, S, m)}

(* The first word behind the search of kahanaStrDeleteOverlap at a is in      *)
(* [b, e), and the next search is at c: there is one word more.               *)
FirstRun(s, S, a, b, e, c) ==
  /\ Len(s) \in Nat /\ a \in Nat /\ b \in Nat /\ e \in Nat /\ c \in Nat
  /\ a <= b /\ b < e /\ e <= Len(s)
  /\ a = 0 \/ s[a] \in S \/ a = Len(s)
  /\ \A k \in (a + 1)..b : s[k] \in S
  /\ \A k \in (b + 1)..e : s[k] \notin S
  /\ e = Len(s) \/ s[e + 1] \in S
  /\ c = IF e < Len(s) THEN e + 1 ELSE Len(s)

LEMMA OneRun ==
  ASSUME NEW s, NEW S, NEW a, NEW b, NEW e, NEW c, FirstRun(s, S, a, b, e, c)
  PROVE  /\ WordsTo(s, S, c) = WordsTo(s, S, a) \cup {Cut(s, b, e)}
         /\ s[c] \in S \/ c = Len(s)
<1> DEFINE l == Len(s)
<1> SUFFICES ASSUME a \in Nat, b \in Nat, e \in Nat, c \in Nat, a <= b, b < e
             PROVE  /\ WordsTo(s, S, c) = WordsTo(s, S, a) \cup {Cut(s, b, e)}
                    /\ s[c] \in S \/ c = l
  BY DEF FirstRun
<1>0. l \in Nat /\ e <= l /\ (e = l \/ s[e + 1] \in S) /\ c = (IF e < l THEN e + 1 ELSE l)
      /\ (a = 0 \/ s[a] \in S \/ a = l)
  BY DEF FirstRun
<1>2. \A k \in (b + 1)..e : s[k] \notin S
  BY DEF FirstRun
<1>3. \A k \in (a + 1)..b : s[k] \in S
  BY DEF FirstRun
<1> HIDE DEF l
<1>1. a < c /\ b < c /\ c <= l /\ c <= e + 1 /\ (s[c] \in S \/ c = l)
  BY <1>0
<1>4. b = 0 \/ s[b] \in S
  <2>1. CASE a < b
    BY <1>3, <2>1
  <2>2. CASE a = b
    BY <1>0, <2>2
  <2> QED BY <2>1, <2>2
<1>5. IsRun(s, S, b, e)
  BY <1>0, <1>2, <1>4, Zenon DEF IsRun, l
<1>6. ASSUME NEW i \in 0..l, NEW j \in 0..l, IsRun(s, S, i, j), i < c, ~ (i < a)
      PROVE  i = b /\ j = e
  <2>1. /\ i \in Nat /\ j \in Nat /\ i < j /\ j <= l /\ (i = 0 \/ s[i] \in S) /\ (j = l \/ s[j + 1] \in S)
        /\ \A k \in (i + 1)..j : s[k] \notin S
    BY <1>0, <1>6 DEF IsRun, l
  <2>2. s[i + 1] \notin S
    BY <2>1
  <2>3. ~ (i < b)
    <3> SUFFICES ASSUME i < b PROVE FALSE
      OBVIOUS
    <3>1. i + 1 \in (a + 1)..b
      BY <1>6, <2>1
    <3> QED BY <1>3, <2>2, <3>1
  <2>4. i # e
    <3> SUFFICES ASSUME i = e PROVE FALSE
      OBVIOUS
    <3>1. e # l
      BY <1>0, <2>1
    <3> QED BY <1>0, <2>2, <3>1
  <2>5. ~ (b < i)
    <3> SUFFICES ASSUME b < i PROVE FALSE
      OBVIOUS
    <3>1. i \in (b + 1)..e /\ i # 0
      BY <1>1, <1>6, <2>1, <2>4
    <3> QED BY <1>2, <2>1, <3>1
  <2>6. i = b
    BY <2>1, <2>3, <2>5
  <2>7. ~ (j < e)
    <3> SUFFICES ASSUME j < e PROVE FALSE
      OBVIOUS
    <3>1. j + 1 \in (b + 1)..e /\ j # l
      BY <1>0, <2>1, <2>6
    <3> QED BY <1>2, <2>1, <3>1
  <2>8. ~ (e < j)
    <3> SUFFICES ASSUME e < j PROVE FALSE
      OBVIOUS
    <3>1. e + 1 \in (i + 1)..j /\ e # l
      BY <1>0, <2>1, <2>6
    <3> QED BY <1>0, <2>1, <3>1
  <2> QED BY <2>1, <2>6, <2>7, <2>8
<1>7. RunsTo(s, S, c) = RunsTo(s, S, a) \cup {<<b, e>>}
  <2>1. ASSUME NEW x \in RunsTo(s, S, c) PROVE x \in RunsTo(s, S, a) \cup {<<b, e>>}
    <3>1. /\ x \in (0..l) \X (0..l) /\ x[1] \in 0..l /\ x[2] \in 0..l /\ x = <<x[1], x[2]>>
          /\ IsRun(s, S, x[1], x[2]) /\ x[1] < c
      BY DEF RunsTo, l
    <3>2. CASE x[1] < a
      BY <3>1, <3>2 DEF RunsTo, l
    <3>3. CASE ~ (x[1] < a)
      <4>1. x[1] = b /\ x[2] = e
        BY <1>6, <3>1, <3>3
      <4> QED BY <3>1, <4>1
    <3> QED BY <3>2, <3>3
  <2>2. ASSUME NEW x \in RunsTo(s, S, a) PROVE x \in RunsTo(s, S, c)
    <3>1. /\ x \in (0..l) \X (0..l) /\ x[1] \in 0..l /\ IsRun(s, S, x[1], x[2]) /\ x[1] < a
      BY DEF RunsTo, l
    <3>2. x[1] < c
      <4> DEFINE i == x[1]
      <4> HIDE DEF i
      <4>1. i \in 0..l /\ i < a
        BY <3>1 DEF i
      <4>2. i < c
        BY <1>0, <1>1, <4>1
      <4> QED BY <4>2 DEF i
    <3> QED BY <3>1, <3>2 DEF RunsTo, l
  <2>3. <<b, e>> \in RunsTo(s, S, c)
    <3>1. b \in 0..l /\ e \in 0..l
      BY <1>0
    <3> DEFINE x == <<b, e>>
    <3>2. x[1] = b /\ x[2] = e /\ x \in (0..l) \X (0..l)
      BY <3>1
    <3> HIDE DEF x
    <3>3. x \in RunsTo(s, S, c)
      BY <1>1, <1>5, <3>2 DEF RunsTo, l
    <3> QED BY <3>3 DEF x
  <2> QED BY <2>1, <2>2, <2>3
<1>8. WordsTo(s, S, c) = WordsTo(s, S, a) \cup {Cut(s, b, e)}
  <2>1. WordsTo(s, S, c) = {Cut(s, x[1], x[2]) : x \in RunsTo(s, S, a) \cup {<<b, e>>}}
    BY <1>7 DEF WordsTo
  <2>2. <<b, e>>[1] = b /\ <<b, e>>[2] = e
    OBVIOUS
  <2> QED BY <2>1, <2>2 DEF WordsTo
<1> QED BY <1>1, <1>8 DEF l

(* Where only separators are left there is no word more. *)
LEMMA NoRun ==
  ASSUME NEW s, NEW S, Len(s) \in Nat, NEW a \in Nat, a <= Len(s), \A k \in (a + 1)..Len(s) : s[k] \in S
  PROVE  WordsTo(s, S, Len(s) + 1) = WordsTo(s, S, a)
<1> DEFINE l == Len(s)
<1> HIDE DEF l
<1>0. l \in Nat /\ a <= l /\ \A k \in (a + 1)..l : s[k] \in S
  BY DEF l
<1>1. ASSUME NEW i \in 0..l, NEW j \in 0..l, IsRun(s, S, i, j) PROVE i < a
  <2>1. i < j /\ \A k \in (i + 1)..j : s[k] \notin S
    BY <1>1 DEF IsRun
  <2>2. i + 1 \in (i + 1)..j /\ i + 1 \in 1..l
    BY <1>0, <2>1
  <2>3. i + 1 \notin (a + 1)..l
    BY <1>0, <2>1, <2>2
  <2> QED BY <1>0, <2>2, <2>3
<1>2. RunsTo(s, S, l + 1) = RunsTo(s, S, a)
  <2>1. ASSUME NEW x \in (0..l) \X (0..l), IsRun(s, S, x[1], x[2])
        PROVE  x[1] < a /\ x[1] < l + 1
    <3>1. x[1] \in 0..l /\ x[2] \in 0..l
      BY <2>1
    <3> DEFINE i == x[1]
    <3> HIDE DEF i
    <3>2. i < a /\ i \in 0..l
      BY <1>1, <2>1, <3>1 DEF i
    <3>3. i < l + 1
      BY <1>0, <3>2
    <3> QED BY <3>2, <3>3 DEF i
  <2> QED BY <2>1 DEF RunsTo, l
<1> QED BY <1>2 DEF WordsTo, l

(* kahanaStrDeleteOverlap has the words that begin before its pointer, which  *)
(* is where a word may begin, and each once.                                 *)
Deletes == call # Null /\ call.fn = "DeleteOverlap"

DeleteInv ==
  /\ Deletes => IsInjective(out)
  /\ status = "running" /\ Deletes =>
       /\ ToSet(out) = WordsTo(Src, ToSet(Rep), at)
       /\ at = 0 \/ Src[at] \in ToSet(Rep) \/ at = Len(Src)
  /\ status = "returned" /\ Deletes => ToSet(out) = WordsTo(Src, ToSet(Rep), Len(Src) + 1)

(* One text more in a list.                                                  *)
LEMMA AppendsTo ==
  ASSUME NEW X, NEW s \in Seq(X), NEW x \in X
  PROVE  /\ ToSet(Append(s, x)) = ToSet(s) \cup {x}
         /\ IsInjective(s) /\ x \notin ToSet(s) => IsInjective(Append(s, x))
<1> DEFINE t == Append(s, x)
           n == Len(s)
<1>1. /\ n \in Nat /\ DOMAIN s = 1..n /\ DOMAIN t = 1..(n + 1)
      /\ t[n + 1] = x /\ \A k \in 1..n : t[k] = s[k]
  OBVIOUS
<1> HIDE DEF t, n
<1>2. \A k \in 1..(n + 1) : k \in 1..n \/ k = n + 1
  BY <1>1
<1>3. \A k \in 1..n : k \in 1..(n + 1) /\ k # n + 1
  BY <1>1
<1>4. n + 1 \in 1..(n + 1)
  BY <1>1
<1>5. ToSet(t) = ToSet(s) \cup {x}
  BY <1>1, <1>2, <1>3, <1>4 DEF ToSet
<1>6. ASSUME IsInjective(s), x \notin ToSet(s), NEW a \in 1..(n + 1), NEW b \in 1..(n + 1), t[a] = t[b]
      PROVE  a = b
  <2>1. \A k \in 1..n : s[k] # x
    BY <1>1, <1>6 DEF ToSet
  <2>2. CASE a \in 1..n /\ b \in 1..n
    BY <1>1, <1>6, <2>2 DEF IsInjective
  <2>3. CASE ~ (a \in 1..n /\ b \in 1..n)
    BY <1>1, <1>2, <1>6, <2>1, <2>3
  <2> QED BY <2>2, <2>3
<1>7. IsInjective(s) /\ x \notin ToSet(s) => IsInjective(t)
  BY <1>1, <1>6 DEF IsInjective
<1> QED BY <1>5, <1>7 DEF t

(* A round of kahanaStrDeleteOverlap finds the first word behind its pointer,*)
(* and keeps it if it is new.                                                *)
LEMMA DeletesOverlap ==
  ASSUME IInv, DeleteInv, DeleteOverlap
  PROVE  DeleteInv'
<1> DEFINE S == ToSet(Rep)
           l == Len(Src)
           Seps(i) == {k \in i..(l - 1) : Src[k + 1] \in S}
           begins == (at..(l - 1)) \ Seps(at)
           b == Min(begins)
           rest == Seps(b) \cup {l}
           e == Min(rest)
           word == Cut(Src, b, e)
           next == Min({e + 1, l})
<1>0. /\ status = "running" /\ call.fn = "DeleteOverlap" /\ call # Null
      /\ Src \in Strs /\ l \in Nat /\ at \in Nat /\ out \in Seq(Strs)
  <2>1. status = "running" /\ call.fn = "DeleteOverlap"
    BY DEF DeleteOverlap, Running
  <2>2. call # Null
    BY <2>1, NullAssumption DEF IInv
  <2> QED BY <2>1, <2>2, InCall DEF IInv
<1>1. /\ IsInjective(out) /\ ToSet(out) = WordsTo(Src, S, at) /\ at <= l
      /\ at = 0 \/ Src[at] \in S \/ at = l
  BY <1>0 DEF DeleteInv, Deletes, IInv, PlaceInv, Texted
<1>2. CASE begins = {} /\ Return
  <2>1. \A k \in (at + 1)..l : Src[k] \in S
    <3> SUFFICES ASSUME NEW k \in (at + 1)..l PROVE Src[k] \in S
      OBVIOUS
    <3> HIDE DEF l
    <3>1. k - 1 \in at..(l - 1) /\ (k - 1) + 1 = k
      BY <1>0, <1>1
    <3>2. k - 1 \in Seps(at)
      BY <1>2, <3>1
    <3> QED BY <3>1, <3>2
  <2>2. WordsTo(Src, S, l + 1) = WordsTo(Src, S, at)
    <3> HIDE DEF S
    <3> QED BY <1>0, <1>1, <2>1, NoRun
  <2>3. call' = call /\ out' = out /\ status' = "returned"
    BY <1>2 DEF Return, Stop
  <2>4. Src' = Src /\ Rep' = Rep
    BY <2>3 DEF Src, Rep
  <2> QED BY <1>1, <2>2, <2>3, <2>4 DEF DeleteInv
<1>3. CASE /\ begins # {}
           /\ IF word \in ToSet(out) THEN Round(text, next, out)
              ELSE Round(IF out = <<>> THEN word ELSE text \o Rep \o word, next, Append(out, word))
  <2>1. b \in begins /\ \A k \in begins : b <= k
    <3>1. begins \in SUBSET Nat
      BY <1>0
    <3> HIDE DEF begins
    <3> QED BY <1>3, <3>1, Least
  <2>2. b \in Nat /\ at <= b /\ b < l /\ Src[b + 1] \notin S /\ \A k \in at..(b - 1) : Src[k + 1] \in S
    <3>1. b \in at..(l - 1) /\ b \notin Seps(at)
      BY <2>1
    <3> HIDE DEF b, begins, l
    <3>2. b \in Nat /\ at <= b /\ b < l /\ Src[b + 1] \notin S
      BY <1>0, <3>1
    <3>3. ASSUME NEW k \in at..(b - 1) PROVE Src[k + 1] \in S
      <4>1. k \in at..(l - 1) /\ ~ (b <= k)
        BY <1>0, <3>2
      <4>2. k \notin begins
        BY <2>1, <4>1
      <4> QED BY <4>1, <4>2 DEF begins
    <3> QED BY <3>2, <3>3
  <2>3. \A k \in (at + 1)..b : Src[k] \in S
    <3> SUFFICES ASSUME NEW k \in (at + 1)..b PROVE Src[k] \in S
      OBVIOUS
    <3> HIDE DEF b
    <3>1. k - 1 \in at..(b - 1) /\ (k - 1) + 1 = k
      BY <1>0, <2>2
    <3> QED BY <2>2, <3>1
  <2> HIDE DEF b, begins
  <2>4. e \in rest /\ \A k \in rest : e <= k
    <3>1. rest \in SUBSET Nat /\ rest # {}
      BY <1>0, <2>2
    <3> HIDE DEF rest
    <3> QED BY <3>1, Least
  <2>5. /\ e \in Nat /\ b < e /\ e <= l /\ (e = l \/ Src[e + 1] \in S)
        /\ \A k \in b..(e - 1) : Src[k + 1] \notin S
    <3>1. (e \in b..(l - 1) /\ Src[e + 1] \in S) \/ e = l
      BY <2>4
    <3> HIDE DEF e, l
    <3>2. e # b
      BY <2>2, <3>1
    <3>3. e \in Nat /\ b < e /\ e <= l
      BY <1>0, <2>2, <3>1, <3>2
    <3>4. ASSUME NEW k \in b..(e - 1) PROVE Src[k + 1] \notin S
      <4>1. k \in b..(l - 1) /\ ~ (e <= k)
        BY <1>0, <2>2, <3>3
      <4>2. k \notin rest
        BY <2>4, <4>1
      <4> QED BY <4>1, <4>2
    <3> QED BY <3>1, <3>3, <3>4
  <2>6. \A k \in (b + 1)..e : Src[k] \notin S
    <3> SUFFICES ASSUME NEW k \in (b + 1)..e PROVE Src[k] \notin S
      OBVIOUS
    <3> HIDE DEF e
    <3>1. k - 1 \in b..(e - 1) /\ (k - 1) + 1 = k
      BY <2>2, <2>5
    <3> QED BY <2>5, <3>1
  <2> HIDE DEF e, rest
  <2>7. next \in Nat /\ next = IF e < l THEN e + 1 ELSE l
    <3>1. {e + 1, l} \in SUBSET Nat /\ {e + 1, l} # {}
      BY <1>0, <2>5
    <3>2. next \in {e + 1, l} /\ \A y \in {e + 1, l} : next <= y
      BY <3>1, Least
    <3> HIDE DEF next, l
    <3> QED BY <1>0, <2>5, <3>2
  <2> HIDE DEF next
  <2>8. WordsTo(Src, S, next) = WordsTo(Src, S, at) \cup {word} /\ (Src[next] \in S \/ next = l)
    <3> HIDE DEF S
    <3>1. FirstRun(Src, S, at, b, e, next)
      BY <1>0, <1>1, <2>2, <2>3, <2>5, <2>6, <2>7 DEF FirstRun
    <3> QED BY <3>1, OneRun
  <2>9. word \in Strs
    <3>1. e \in Int /\ e <= Len(Src)
      BY <2>5
    <3> QED BY <1>0, <2>2, <3>1, CutIs
  <2> HIDE DEF word
  <2>10. /\ call' = call /\ at' = next /\ status' = "running"
         /\ out' = IF word \in ToSet(out) THEN out ELSE Append(out, word)
    BY <1>0, <1>3 DEF Round
  <2>11. IsInjective(out') /\ ToSet(out') = ToSet(out) \cup {word}
    <3>1. CASE word \in ToSet(out)
      BY <1>1, <2>10, <3>1
    <3>2. CASE word \notin ToSet(out)
      BY <1>0, <1>1, <2>9, <2>10, <3>2, AppendsTo
    <3> QED BY <3>1, <3>2
  <2>12. Src' = Src /\ Rep' = Rep
    BY <2>10 DEF Src, Rep
  <2> HIDE DEF S
  <2> QED BY <1>1, <2>8, <2>10, <2>11, <2>12 DEF DeleteInv, S
<1>4. CASE Stop("wild")
  <2>1. call' = call /\ at' = at /\ out' = out /\ status' = "wild"
    BY <1>4 DEF Stop
  <2>2. Src' = Src /\ Rep' = Rep
    BY <2>1 DEF Src, Rep
  <2> QED BY <2>1, <2>2 DEF DeleteInv, Deletes
<1> QED BY <1>2, <1>3, <1>4 DEF DeleteOverlap

-----------------------------------------------------------------------------
(* What is before and between k words of pat in s from offset i on, unless    *)
(* empty, for each k up to n.                                                *)
Separates(f, s, pat, n) ==
  \A k \in 0..n : \A i \in 0..Len(s) :
    /\ f[k][i] \in Seq(Strs)
    /\ f[k][i] = IF k = 0 \/ Places(s, pat, i) = {} THEN <<>>
                 ELSE LET p == Beg(s, pat, i)
                      IN (IF p = i THEN <<>> ELSE <<Cut(s, i, p)>>) \o f[k - 1][p + Longest(s, pat, p)]

(* Gaps is such a function.                                                  *)
LEMMA GapsAre ==
  ASSUME NEW s \in Strs, NEW pat \in SUBSET Strs, NEW n \in Nat
  PROVE  \E f : Separates(f, s, pat, n) /\ Gaps(s, pat, n) = f[n][0]
<1> DEFINE m == Len(s)
           E == {i \in 0..m : Places(s, pat, i) = {}}
           B == [i \in 0..m |-> <<>>]
           V == Seq(Strs)
           To(i) == Beg(s, pat, i) + Longest(s, pat, Beg(s, pat, i))
           With(i, v) == (IF Beg(s, pat, i) = i THEN <<>> ELSE <<Cut(s, i, Beg(s, pat, i))>>) \o v
           q == [i \in (0..m) \ E |-> To(i)]
           C == [i \in (0..m) \ E |-> [v \in V |-> With(i, v)]]
           Body(g) == [k \in 0..n |-> [i \in 0..m |-> IF k = 0 \/ Places(s, pat, i) = {} THEN <<>>
                                                      ELSE With(i, g[k - 1][To(i)])]]
<1>1. m \in Nat
  BY DEF Strs
<1>2. <<>> \in V
  OBVIOUS
<1>3. \A i \in (0..m) \ E : To(i) \in 0..m /\ \A v \in V : With(i, v) \in V
  <2> TAKE i \in (0..m) \ E
  <2>1. i \in Nat /\ Places(s, pat, i) # {}
    OBVIOUS
  <2>2. To(i) \in 0..m /\ Cut(s, i, Beg(s, pat, i)) \in Strs
    BY <2>1, FindsIn
  <2>3. (IF Beg(s, pat, i) = i THEN <<>> ELSE <<Cut(s, i, Beg(s, pat, i))>>) \in V
    BY <2>2
  <2> HIDE DEF To
  <2> QED BY <2>2, <2>3
<1>4. /\ B \in [0..m -> V] /\ q \in [(0..m) \ E -> 0..m] /\ C \in [(0..m) \ E -> [V -> V]]
      /\ \A i \in 0..m : B[i] = <<>>
      /\ \A i \in (0..m) \ E : q[i] = To(i) /\ \A v \in V : C[i][v] = With(i, v)
  <2> HIDE DEF To, With, E, m, V
  <2> QED BY <1>2, <1>3
<1> HIDE DEF m, B, q, C, V
<1>5. PICK f : Unrolled(f, n, m, E, B, q, C)
  <2> HIDE DEF E
  <2> QED BY <1>1, <1>4, Unrolls
<1>6. \A k \in 0..n : \A i \in 0..m :
        f[k][i] \in V /\ f[k][i] = IF k = 0 \/ i \in E THEN B[i] ELSE C[i][f[k - 1][q[i]]]
  <2> HIDE DEF E
  <2>1. Unfolds(f, n, m, V, E, B, q, C)
    BY <1>1, <1>4, <1>5, UnrolledIn
  <2> QED BY <2>1 DEF Unfolds
<1> HIDE DEF To, With
<1>7. ASSUME NEW k \in 0..n, NEW i \in 0..m
      PROVE  (IF k = 0 \/ i \in E THEN B[i] ELSE C[i][f[k - 1][q[i]]])
               = (IF k = 0 \/ Places(s, pat, i) = {} THEN <<>> ELSE With(i, f[k - 1][To(i)]))
  <2>1. CASE k = 0 \/ i \in E
    BY <1>4, <2>1
  <2>2. CASE k # 0 /\ i \notin E
    <3>1. k - 1 \in 0..n /\ i \in (0..m) \ E
      BY <2>2
    <3>2. f[k - 1][To(i)] \in V
      BY <1>3, <1>6, <3>1
    <3> QED BY <1>4, <2>2, <3>1, <3>2
  <2> QED BY <2>1, <2>2
<1>8. f = Body(f)
  <2> DEFINE L(k, i) == IF k = 0 \/ i \in E THEN B[i] ELSE C[i][f[k - 1][q[i]]]
             R(k, i) == IF k = 0 \/ Places(s, pat, i) = {} THEN <<>> ELSE With(i, f[k - 1][To(i)])
  <2>1. f = [k \in 0..n |-> [i \in 0..m |-> L(k, i)]]
    BY <1>5 DEF Unrolled
  <2>2. \A k \in 0..n : \A i \in 0..m : L(k, i) = R(k, i)
    BY <1>7
  <2>3. Body(f) = [k \in 0..n |-> [i \in 0..m |-> R(k, i)]]
    OBVIOUS
  <2> HIDE DEF L, R, Body
  <2> DEFINE LL(k) == [i \in 0..m |-> L(k, i)]
             RR(k) == [i \in 0..m |-> R(k, i)]
  <2>4. \A k \in 0..n : LL(k) = RR(k)
    BY <2>2
  <2> HIDE DEF LL, RR
  <2>5. [k \in 0..n |-> LL(k)] = [k \in 0..n |-> RR(k)]
    BY <2>4
  <2> QED BY <2>1, <2>3, <2>5, Zenon DEF LL, RR
<1> DEFINE g == CHOOSE h : h = Body(h)
<1>9. g = Body(g)
  <2> HIDE DEF Body
  <2> QED BY <1>8
<1>10. Gaps(s, pat, n) = g[n][0]
  BY DEF Gaps, m, To, With
<1> HIDE DEF g, E
<1>11. \A h : h = Body(h) => \A k \in 0..n : \A i \in 0..m :
         h[k][i] = IF k = 0 \/ Places(s, pat, i) = {} THEN <<>> ELSE With(i, h[k - 1][To(i)])
  <2> SUFFICES ASSUME NEW h, h = Body(h), NEW k \in 0..n, NEW i \in 0..m
               PROVE  h[k][i] = IF k = 0 \/ Places(s, pat, i) = {} THEN <<>> ELSE With(i, h[k - 1][To(i)])
    BY Zenon
  <2>1. Body(h)[k][i] = IF k = 0 \/ Places(s, pat, i) = {} THEN <<>> ELSE With(i, h[k - 1][To(i)])
    OBVIOUS
  <2> HIDE DEF Body
  <2> QED BY <2>1, Zenon
<1> HIDE DEF Body
<1> DEFINE T == {k \in 0..n : \A i \in 0..m : g[k][i] \in V}
<1>12. 0 \in T
  BY <1>2, <1>9, <1>11
<1>13. ASSUME NEW k \in 1..n, k - 1 \in T PROVE k \in T
  <2>1. k \in 0..n /\ k - 1 \in 0..n
    OBVIOUS
  <2>2. ASSUME NEW i \in 0..m PROVE g[k][i] \in V
    <3>1. CASE Places(s, pat, i) = {}
      BY <1>2, <1>9, <1>11, <2>1, <3>1
    <3>2. CASE Places(s, pat, i) # {}
      <4>1. i \in (0..m) \ E
        BY <3>2 DEF E
      <4>2. g[k - 1][To(i)] \in V
        BY <1>3, <1>13, <4>1
      <4>3. g[k][i] = With(i, g[k - 1][To(i)])
        BY <1>9, <1>11, <2>1, <3>2
      <4> QED BY <1>3, <4>1, <4>2, <4>3
    <3> QED BY <3>1, <3>2
  <2> QED BY <2>1, <2>2
<1> HIDE DEF T
<1>14. 0..n \subseteq T
  BY <1>12, <1>13, UpTo
<1>15. Separates(g, s, pat, n)
  BY <1>9, <1>11, <1>14 DEF T, Separates, m, To, With, V
<1> QED BY <1>10, <1>15

LEMMA TakeAt ==
  ASSUME NEW s \in Strs, NEW k \in Nat, k <= Len(s), NEW j \in 1..k
  PROVE  Take(s, k)[j] = s[j]
<1>1. Take(s, k) = Cut(s, 0, k) /\ 0 <= k /\ j \in 1..(k - 0) /\ 0 + j = j /\ 0 \in Nat
  BY DropIsCut
<1>2. Cut(s, 0, k)[j] = s[0 + j]
  BY <1>1, CutAt
<1> QED BY <1>1, <1>2

LEMMA PrefixIs ==
  ASSUME NEW s \in Strs, NEW t \in Strs, Len(s) <= Len(t), \A j \in 1..Len(s) : s[j] = t[j]
  PROVE  IsPrefix(s, t)
<1> DEFINE n == Len(s)
<1>1. n \in Nat /\ n \in Int /\ n <= Len(t) /\ n <= Len(s) /\ 0 <= n
  BY DEF Strs
<1>2. /\ Take(s, n) \in Strs /\ Len(Take(s, n)) = n
      /\ Take(t, n) \in Strs /\ Len(Take(t, n)) = n
  <2> HIDE DEF n
  <2> QED BY <1>1, TakeIs
<1>3. \A j \in 1..n : Take(s, n)[j] = Take(t, n)[j]
  <2> TAKE j \in 1..n
  <2>1. s[j] = t[j]
    OBVIOUS
  <2> HIDE DEF n
  <2>2. Take(s, n)[j] = s[j] /\ Take(t, n)[j] = t[j]
    BY <1>1, TakeAt
  <2> QED BY <2>1, <2>2
<1>4. Take(s, n) = Take(t, n)
  <2> HIDE DEF n
  <2> QED BY <1>2, <1>3, SameText DEF Strs
<1> QED BY <1>1, <1>4 DEF IsPrefix, Take

(* A piece of kahanaStrRegexpSplit begins with what is between the matches.   *)
LEMMA PieceBegins ==
  ASSUME NEW s \in Strs, NEW a \in Nat, NEW p \in Nat, a < p, p <= Len(s)
  PROVE  Piece(s, a, p) \in Strs /\ IsPrefix(Cut(s, a, p), Piece(s, a, p))
<1> DEFINE l == Len(s)
           u == Drop(s, a)
           k == Min({p, l - a})
           w == p - a
           c == Cut(s, a, p)
<1>1. l \in Nat /\ a <= l /\ a <= p /\ p \in Int /\ w \in Nat
  BY DEF Strs
<1>2. u \in Strs /\ Len(u) = l - a /\ c \in Strs /\ Len(c) = w
  BY <1>1, CutIs, DropIs
<1>3. k \in Nat /\ k <= l - a /\ w <= k
  <2> HIDE DEF l, k
  <2>1. {p, l - a} \in SUBSET Nat /\ {p, l - a} # {}
    BY <1>1 DEF l
  <2>2. k \in {p, l - a} /\ \A y \in {p, l - a} : k <= y
    BY <2>1, Least DEF k
  <2>3. p <= l
    BY DEF l
  <2> QED BY <1>1, <2>2, <2>3
<1>4. Piece(s, a, p) = Take(u, k)
  BY DEF Piece
<1>5. Take(u, k) \in Strs /\ Len(Take(u, k)) = k
  <2>1. k \in Int /\ k <= Len(u) /\ 0 <= k
    BY <1>1, <1>2, <1>3
  <2> HIDE DEF k, u
  <2> QED BY <1>2, <2>1, TakeIs
<1>6. ASSUME NEW j \in 1..w PROVE c[j] = Take(u, k)[j]
  <2> HIDE DEF k, l
  <2>1. j \in 1..(p - a) /\ j \in 1..(l - a) /\ j \in 1..k /\ k <= Len(u)
    BY <1>1, <1>2, <1>3
  <2>2. c[j] = s[a + j]
    BY <1>1, <2>1, CutAt
  <2>3. u[j] = s[a + j]
    BY <1>1, <2>1, DropAt DEF l
  <2> HIDE DEF u, c
  <2>4. Take(u, k)[j] = u[j]
    BY <1>2, <1>3, <2>1, TakeAt
  <2> QED BY <2>2, <2>3, <2>4
<1> HIDE DEF c, u, k, w
<1>7. IsPrefix(c, Take(u, k))
  BY <1>2, <1>3, <1>5, <1>6, PrefixIs
<1> QED BY <1>4, <1>5, <1>7 DEF c

(* Each text of g is the beginning of one of o. *)
Begins(g, o) == Len(g) = Len(o) /\ \A k \in 1..Len(g) : IsPrefix(g[k], o[k])

(* One gap more, and a piece that begins with it.                            *)
LEMMA BeginsMore ==
  ASSUME NEW g \in Seq(Strs), NEW o \in Seq(Strs), Begins(g, o), NEW c \in Strs, NEW x \in Strs, IsPrefix(c, x)
  PROVE  g \o <<c>> \in Seq(Strs) /\ Begins(g \o <<c>>, Append(o, x))
<1> DEFINE n == Len(g)
           g2 == g \o <<c>>
           o2 == Append(o, x)
<1>1. /\ n \in Nat /\ g2 \in Seq(Strs) /\ Len(g2) = n + 1
      /\ g2[n + 1] = c /\ \A k \in 1..n : g2[k] = g[k]
  <2>1. g2 = Append(g, c)
    BY AppendIsConcat
  <2> QED BY <2>1
<1>2. Len(o2) = Len(o) + 1 /\ o2[Len(o) + 1] = x /\ \A k \in 1..Len(o) : o2[k] = o[k]
  OBVIOUS
<1>3. Len(o) = n /\ \A k \in 1..n : IsPrefix(g[k], o[k])
  BY DEF Begins
<1> HIDE DEF g2, o2, n
<1>4. ASSUME NEW k \in 1..(n + 1) PROVE IsPrefix(g2[k], o2[k])
  <2>1. CASE k = n + 1
    BY <1>1, <1>2, <1>3, <2>1
  <2>2. CASE k # n + 1
    <3>1. k \in 1..n
      BY <1>1, <2>2
    <3> QED BY <1>1, <1>2, <1>3, <3>1
  <2> QED BY <2>1, <2>2
<1>5. Begins(g2, o2)
  BY <1>1, <1>2, <1>3, <1>4 DEF Begins
<1> QED BY <1>1, <1>5 DEF g2, o2

(* kahanaStrRegexpSplit, called with a pattern that matches no empty text.    *)
Splits(c) == c.fn = "RegexpSplit" /\ <<>> \notin c.pat
SplitN(c) == IF c.n = 0 THEN All ELSE c.n

(* It has a piece for each text of g, and r words are still to be found.      *)
Between(c, i, m, o, f, g, r) ==
  /\ Separates(f, c.src, c.pat, SplitN(c)) /\ Gaps(c.src, c.pat, SplitN(c)) = f[SplitN(c)][0]
  /\ g \in Seq(Strs) /\ Begins(g, o)
  /\ f[SplitN(c)][0] = g \o f[r][i]
  /\ r \in 0..SplitN(c) /\ i \in 0..Len(c.src)
  /\ IF c.n = 0 THEN r > Len(c.src) - i ELSE r = c.n - m

SplitInv ==
  /\ status = "running" /\ Splits(call) => \E f, g, r : Between(call, at, count, out, f, g, r)
  /\ status = "returned" /\ Splits(call) =>
       LET gaps == Gaps(Src, Pat, SplitN(call))
       IN /\ Len(out) = IF gaps = <<>> THEN 0 ELSE Len(gaps) + 1
          /\ \A k \in DOMAIN gaps : IsPrefix(gaps[k], out[k])

LEMMA SplitIs ==
  ASSUME NEW c \in AllCalls, Splits(c)
  PROVE  /\ c.src \in Strs /\ Len(c.src) \in Nat /\ c.pat \in SUBSET Strs /\ c.n \in Nat
         /\ SplitN(c) \in Nat /\ (c.n = 0 => SplitN(c) > Len(c.src))
<1>1. CallIs(c)
  BY CallsAre
<1>2. c.n \in Nat
  BY <1>1 DEF CallIs, Splits, Counted
<1>3. Len(c.src) \in Nat /\ Len(c.src) <= MaxSrc /\ MaxSrc \in Nat
  BY <1>1, Bounds DEF CallIs, Strs
<1> QED BY <1>1, <1>2, <1>3 DEF CallIs, SplitN, All

(* Before the first search there is no piece and every gap is to come.       *)
LEMMA BetweenBegins ==
  ASSUME NEW c \in AllCalls, Splits(c)
  PROVE  \E f, g, r : Between(c, 0, 0, <<>>, f, g, r)
<1> DEFINE N == SplitN(c)
<1>1. PICK f : Separates(f, c.src, c.pat, N) /\ Gaps(c.src, c.pat, N) = f[N][0]
  BY SplitIs, GapsAre
<1>2. N \in Nat /\ Len(c.src) \in Nat /\ c.n \in Nat /\ (c.n = 0 => N > Len(c.src)) /\ (c.n # 0 => N = c.n)
  BY SplitIs DEF SplitN
<1>3. f[N][0] \in Seq(Strs)
  <2> HIDE DEF N
  <2>1. N \in 0..N /\ 0 \in 0..Len(c.src)
    BY <1>2
  <2>2. \A k \in 0..N : \A i \in 0..Len(c.src) : f[k][i] \in Seq(Strs)
    BY <1>1 DEF Separates
  <2> QED BY <2>1, <2>2
<1>4. <<>> \o f[N][0] = f[N][0]
  BY <1>3, ConcatEmptySeq
<1>5. Begins(<<>>, <<>>) /\ <<>> \in Seq(Strs)
  BY DEF Begins
<1>6. N \in 0..N /\ 0 \in 0..Len(c.src) /\ (IF c.n = 0 THEN N > Len(c.src) - 0 ELSE N = c.n - 0)
  BY <1>2
<1>7. Between(c, 0, 0, <<>>, f, <<>>, N)
  BY <1>1, <1>4, <1>5, <1>6 DEF Between
<1> QED BY <1>7

LEMMA ListsAssociative ==
  ASSUME NEW g \in Seq(Strs), NEW h \in Seq(Strs), NEW z \in Seq(Strs)
  PROVE  Assoc(g, h, z)
BY ConcatAssociative DEF Assoc

(* The next match ends a gap; it has a piece unless it is empty.             *)
LEMMA BetweenGoesOn ==
  ASSUME NEW c \in AllCalls, Splits(c), NEW i, NEW m \in Nat, NEW o \in Seq(Strs),
         NEW f, NEW g, NEW r, Between(c, i, m, o, f, g, r),
         Places(c.src, c.pat, i) # {}, c.n = 0 \/ m < c.n
  PROVE  LET p == Beg(c.src, c.pat, i)
             q == p + Longest(c.src, c.pat, p)
             o2 == IF p # i THEN Append(o, Piece(c.src, i, p)) ELSE o
             m2 == IF c.n = 0 THEN m ELSE m + 1
         IN \E f2, g2, r2 : Between(c, q, m2, o2, f2, g2, r2)
<1> DEFINE s == c.src
           N == SplitN(c)
           p == Beg(s, c.pat, i)
           len == Longest(s, c.pat, p)
           q == p + len
           gap == IF p = i THEN <<>> ELSE <<Cut(s, i, p)>>
           o2 == IF p # i THEN Append(o, Piece(s, i, p)) ELSE o
           m2 == IF c.n = 0 THEN m ELSE m + 1
           rest == f[r - 1][q]
<1>0. /\ s \in Strs /\ Len(s) \in Nat /\ c.pat \in SUBSET Strs /\ <<>> \notin c.pat /\ c.n \in Nat /\ N \in Nat
      /\ c.n = 0 => N > Len(s)
  BY SplitIs DEF Splits
<1>1. /\ Separates(f, s, c.pat, N) /\ Gaps(s, c.pat, N) = f[N][0]
      /\ g \in Seq(Strs) /\ Begins(g, o) /\ f[N][0] = g \o f[r][i]
      /\ r \in 0..N /\ i \in 0..Len(s) /\ (IF c.n = 0 THEN r > Len(s) - i ELSE r = c.n - m)
  BY DEF Between
<1>2. i \in Nat /\ p \in Nat /\ q \in Nat /\ i <= p /\ p <= q /\ q <= Len(s) /\ p <= Len(s) /\ q \in 0..Len(s)
      /\ Cut(s, i, p) \in Strs
  <2>1. i \in Nat
    BY <1>1
  <2> HIDE DEF s
  <2>2. p \in Nat /\ q \in Nat /\ i <= p /\ p <= q /\ q <= Len(s) /\ q \in 0..Len(s) /\ Cut(s, i, p) \in Strs
    BY <1>0, <2>1, FindsIn DEF s
  <2> HIDE DEF p, q
  <2> QED BY <1>0, <2>1, <2>2
<1>3. p < q
  <2>1. len \in 0..(Len(s) - p) /\ \E w \in c.pat : Len(w) = len
    BY <1>0, <1>2, Finds
  <2>2. len \in Nat /\ len > 0
    <3> HIDE DEF len
    <3> QED BY <1>0, <2>1, NotEmpty
  <2> HIDE DEF len, p
  <2> QED BY <1>2, <2>2
<1>4. r # 0 /\ r \in Nat /\ r - 1 \in 0..N
  <2> DEFINE l == Len(s)
  <2> HIDE DEF l, N
  <2>1. l \in Nat /\ r \in 0..N /\ i \in 0..l /\ (IF c.n = 0 THEN r > l - i ELSE r = c.n - m) /\ c.n \in Nat
        /\ N \in Nat /\ (c.n = 0 \/ m < c.n)
    BY <1>0, <1>1 DEF l
  <2>2. r # 0
    BY <2>1
  <2> QED BY <2>1, <2>2
<1>5. f[r][i] = gap \o rest /\ rest \in Seq(Strs)
  BY <1>1, <1>2, <1>4 DEF Separates
<1> HIDE DEF rest, N, p, q, s, len
<1>6. \E g2 \in Seq(Strs) : Begins(g2, o2) /\ f[N][0] = g2 \o rest
  <2>1. CASE p = i
    <3>1. <<>> \o rest = rest
      BY <1>5, ConcatEmptySeq
    <3> QED BY <1>1, <1>5, <2>1, <3>1
  <2>2. CASE p # i
    <3>1. i < p
      BY <1>2, <2>2
    <3>2. Piece(s, i, p) \in Strs /\ IsPrefix(Cut(s, i, p), Piece(s, i, p))
      BY <1>0, <1>2, <3>1, PieceBegins
    <3>3. g \o gap \in Seq(Strs) /\ Begins(g \o gap, o2)
      BY <1>1, <1>2, <2>2, <3>2, BeginsMore
    <3>4. gap \in Seq(Strs)
      BY <1>2, <2>2
    <3>5. (g \o gap) \o rest = g \o (gap \o rest)
      <4>1. g \in Seq(Strs) /\ rest \in Seq(Strs)
        BY <1>1, <1>5
      <4> HIDE DEF gap
      <4>2. Assoc(g, gap, rest)
        BY <3>4, <4>1, ListsAssociative
      <4> QED BY <4>2, Zenon DEF Assoc
    <3> QED BY <1>1, <1>5, <3>3, <3>5
  <2> QED BY <2>1, <2>2
<1>7. PICK g2 \in Seq(Strs) : Begins(g2, o2) /\ f[N][0] = g2 \o rest
  BY <1>6
<1>8. IF c.n = 0 THEN r - 1 > Len(s) - q ELSE r - 1 = c.n - m2
  <2> DEFINE l == Len(s)
  <2> HIDE DEF l
  <2>1. l \in Nat /\ r \in Nat /\ (IF c.n = 0 THEN r > l - i ELSE r = c.n - m) /\ c.n \in Nat
    BY <1>0, <1>1, <1>4 DEF l
  <2>2. CASE c.n = 0
    <3>1. r - 1 > l - q
      BY <1>2, <1>3, <2>1, <2>2
    <3> QED BY <2>2, <3>1 DEF l
  <2>3. CASE c.n # 0
    BY <2>1, <2>3
  <2> QED BY <2>2, <2>3
<1> HIDE DEF o2, m2
<1>9. Between(c, q, m2, o2, f, g2, r - 1)
  BY <1>1, <1>2, <1>4, <1>7, <1>8 DEF Between, s, N, rest
<1> QED BY <1>9 DEF o2, m2, q, p, s, len

(* With no match more the gaps are those that have a piece; the rest has one *)
(* if any has.                                                               *)
LEMMA BetweenEnds ==
  ASSUME NEW c \in AllCalls, Splits(c), NEW i, NEW m, NEW o \in Seq(Strs),
         NEW f, NEW g, NEW r, Between(c, i, m, o, f, g, r),
         Places(c.src, c.pat, i) = {} \/ r = 0,
         NEW o2 \in Seq(Strs), IF o = <<>> THEN o2 = o ELSE \E x \in Strs : o2 = Append(o, x)
  PROVE  LET gaps == Gaps(c.src, c.pat, SplitN(c))
         IN /\ Len(o2) = IF gaps = <<>> THEN 0 ELSE Len(gaps) + 1
            /\ \A k \in DOMAIN gaps : IsPrefix(gaps[k], o2[k])
<1>1. f[r][i] = <<>>
  BY DEF Between, Separates
<1>2. Gaps(c.src, c.pat, SplitN(c)) = g /\ g \in Seq(Strs) /\ Begins(g, o)
  <2>1. g \in Seq(Strs) /\ Begins(g, o) /\ Gaps(c.src, c.pat, SplitN(c)) = g \o <<>>
    BY <1>1 DEF Between
  <2> QED BY <2>1, ConcatEmptySeq
<1>3. Len(g) = Len(o) /\ DOMAIN g = 1..Len(g) /\ \A k \in 1..Len(g) : IsPrefix(g[k], o[k])
  BY <1>2 DEF Begins
<1>4. CASE o = <<>>
  BY <1>2, <1>3, <1>4
<1>5. CASE o # <<>>
  <2>1. PICK x \in Strs : o2 = Append(o, x)
    BY <1>5
  <2>2. Len(o2) = Len(o) + 1 /\ \A k \in 1..Len(o) : o2[k] = o[k]
    BY <2>1
  <2>3. g # <<>>
    BY <1>2, <1>3, <1>5
  <2> QED BY <1>2, <1>3, <2>2, <2>3
<1> QED BY <1>4, <1>5

LEMMA RegexpSplitSeparates ==
  ASSUME IInv, SplitInv, RegexpSplit
  PROVE  SplitInv'
<1> DEFINE p == Beg(Src, Pat, at)
           q == p + Longest(Src, Pat, p)
           next == IF p # at THEN Append(out, Piece(Src, at, p)) ELSE out
<1>0. /\ status = "running" /\ call.fn = "RegexpSplit" /\ call \in AllCalls /\ count \in Nat
      /\ Src = call.src /\ Pat = call.pat /\ out \in Seq(Strs) /\ Src \in Strs /\ at \in Nat /\ at <= Len(Src)
  BY InCall DEF RegexpSplit, Running, IInv, Src, Pat, PlaceInv, Texted
<1>1. ASSUME Splits(call) PROVE \E f, g, r : Between(call, at, count, out, f, g, r)
  BY <1>0, <1>1 DEF SplitInv
<1>2. CASE Found(Src) /\ (call.n = 0 \/ count < call.n) /\ Round(text, q, next)
  <2>1. /\ call' = call /\ status' = "running" /\ at' = q /\ out' = next
        /\ count' = IF call.n = 0 THEN count ELSE count + 1
    BY <1>0, <1>2 DEF Round
  <2>2. ASSUME Splits(call)
        PROVE  LET m == IF call.n = 0 THEN count ELSE count + 1
               IN \E f, g, r : Between(call, q, m, next, f, g, r)
    <3>1. PICK f, g, r : Between(call, at, count, out, f, g, r)
      BY <1>1, <2>2
    <3>2. Places(call.src, call.pat, at) # {}
      BY <1>0, <1>2 DEF Found
    <3> QED BY <1>0, <1>2, <2>2, <3>1, <3>2, BetweenGoesOn
  <2> HIDE DEF q, next
  <2> QED BY <2>1, <2>2 DEF SplitInv
<1>3. CASE /\ ~ Found(Src) \/ (call.n # 0 /\ count >= call.n)
           /\ \E k \in 0..(Len(Src) - at) :
                out' = IF out = <<>> THEN out ELSE Append(out, Take(Drop(Src, at), k))
           /\ status' = "returned"
           /\ UNCHANGED <<call, text, at, count>>
  <2>1. PICK k \in 0..(Len(Src) - at) : out' = IF out = <<>> THEN out ELSE Append(out, Take(Drop(Src, at), k))
    BY <1>3
  <2> DEFINE x == Take(Drop(Src, at), k)
  <2>2. x \in Strs
    <3>1. Drop(Src, at) \in Strs /\ Len(Drop(Src, at)) = Len(Src) - at
      BY <1>0, DropIs
    <3>2. k \in Int /\ k <= Len(Drop(Src, at))
      <4> DEFINE l == Len(Src)
      <4>1. k \in 0..(l - at) /\ l \in Nat /\ at \in Nat
        BY <1>0 DEF Strs
      <4> HIDE DEF l
      <4>2. k \in Int /\ k <= l - at
        BY <4>1
      <4> QED BY <3>1, <4>2 DEF l
    <3> QED BY <3>1, <3>2, TakeIs
  <2>3. out' \in Seq(Strs) /\ IF out = <<>> THEN out' = out ELSE \E y \in Strs : out' = Append(out, y)
    <3> HIDE DEF x
    <3> QED BY <1>0, <2>1, <2>2 DEF x
  <2>4. ASSUME Splits(call)
        PROVE  LET gaps == Gaps(Src, Pat, SplitN(call))
               IN /\ Len(out') = IF gaps = <<>> THEN 0 ELSE Len(gaps) + 1
                  /\ \A j \in DOMAIN gaps : IsPrefix(gaps[j], out'[j])
    <3>1. PICK f, g, r : Between(call, at, count, out, f, g, r)
      BY <1>1, <2>4
    <3>2. Places(call.src, call.pat, at) = {} \/ r = 0
      <4>1. CASE ~ Found(Src)
        BY <1>0, <4>1 DEF Found
      <4>2. CASE call.n # 0 /\ count >= call.n
        <5>1. r \in 0..SplitN(call) /\ r = call.n - count
          BY <3>1, <4>2 DEF Between
        <5>2. call.n \in Nat /\ SplitN(call) \in Nat
          BY <1>0, <2>4, SplitIs
        <5> QED BY <1>0, <4>2, <5>1, <5>2
      <4> QED BY <1>3, <4>1, <4>2
    <3> HIDE DEF x
    <3>3. LET gaps == Gaps(call.src, call.pat, SplitN(call))
          IN /\ Len(out') = IF gaps = <<>> THEN 0 ELSE Len(gaps) + 1
             /\ \A j \in DOMAIN gaps : IsPrefix(gaps[j], out'[j])
      BY <1>0, <2>3, <2>4, <3>1, <3>2, BetweenEnds
    <3> QED BY <1>0, <3>3
  <2>5. call' = call /\ status' = "returned" /\ Src' = Src /\ Pat' = Pat
    BY <1>3 DEF Src, Pat
  <2> QED BY <2>4, <2>5 DEF SplitInv
<1> QED BY <1>2, <1>3 DEF RegexpSplit

PieceInv == SplitInv /\ DeleteInv

LEMMA PiecesToldBy == ASSUME IInv, PieceInv PROVE PiecesAsTold
<1> SUFFICES ASSUME status = "returned" PROVE PiecesAsTold
  BY DEF PiecesAsTold
<1>1. call \in AllCalls /\ call # Null
  BY NullAssumption DEF IInv
<1>2. ASSUME call.fn = "RegexpSplit", <<>> \notin Pat
      PROVE  LET gaps == Gaps(Src, Pat, IF call.n = 0 THEN All ELSE call.n)
             IN /\ Len(out) = IF gaps = <<>> THEN 0 ELSE Len(gaps) + 1
                /\ \A k \in DOMAIN gaps : IsPrefix(gaps[k], out[k])
  BY <1>2 DEF PieceInv, SplitInv, Splits, SplitN, Pat
<1>3. ASSUME call.fn = "DeleteOverlap"
      PROVE  /\ IsInjective(out)
             /\ ToSet(out) = {Cut(Src, ij[1], ij[2]) : ij \in
                  {ij \in (0..Len(Src)) \X (0..Len(Src)) :
                     /\ ij[1] < ij[2]
                     /\ \A k \in (ij[1] + 1)..ij[2] : Src[k] \notin ToSet(Rep)
                     /\ ij[1] = 0 \/ Src[ij[1]] \in ToSet(Rep)
                     /\ ij[2] = Len(Src) \/ Src[ij[2] + 1] \in ToSet(Rep)}}
  <2> DEFINE L == 0..Len(Src)
             S == ToSet(Rep)
             All2 == {ij \in L \X L : IsRun(Src, S, ij[1], ij[2])}
  <2>1. IsInjective(out) /\ ToSet(out) = WordsTo(Src, S, Len(Src) + 1)
    BY <1>1, <1>3 DEF PieceInv, DeleteInv, Deletes
  <2>2. RunsTo(Src, S, Len(Src) + 1) = All2
    <3>1. Len(Src) \in Nat
      BY <1>1, CallsAre DEF CallIs, Src, Strs
    <3>2. ASSUME NEW ij \in L \X L PROVE ij[1] < Len(Src) + 1
      <4>1. ij[1] \in L
        BY <3>2
      <4> DEFINE i == ij[1]
                 l == Len(Src)
      <4> HIDE DEF i, l
      <4>2. i \in 0..l /\ l \in Nat
        BY <3>1, <4>1 DEF i, l
      <4>3. i < l + 1
        BY <4>2
      <4> QED BY <4>3 DEF i, l
    <3> QED BY <3>2 DEF RunsTo
  <2>3. ToSet(out) = {Cut(Src, ij[1], ij[2]) : ij \in All2}
    BY <2>1, <2>2 DEF WordsTo
  <2> QED BY <2>1, <2>3 DEF IsRun
<1> QED BY <1>2, <1>3 DEF PiecesAsTold

LEMMA NextPieces == IInv /\ PieceInv /\ [Next]_vars => PieceInv'
<1> SUFFICES ASSUME IInv, PieceInv, [Next]_vars PROVE PieceInv'
  OBVIOUS
<1>1. CASE UNCHANGED vars
  BY <1>1 DEF vars, PieceInv, SplitInv, DeleteInv, Deletes, Src, Pat, Rep
<1>2. CASE Begin
  <2>1. /\ status = "idle" /\ status' \in {"running", "failed"} /\ call' \in AllCalls
        /\ at' = 0 /\ count' = 0 /\ out' = <<>>
    BY <1>2 DEF Begin, IInv, AllCalls
  <2>2. Splits(call') => \E f, g, r : Between(call', 0, 0, <<>>, f, g, r)
    BY <2>1, BetweenBegins
  <2>3. SplitInv'
    BY <2>1, <2>2 DEF SplitInv
  <2>4. IsInjective(<<>>) /\ ToSet(<<>>) = {}
    BY DEF IsInjective, ToSet
  <2>5. WordsTo(Src', ToSet(Rep'), 0) = {}
    <3> DEFINE s == Src'
               S == ToSet(Rep')
    <3> HIDE DEF s, S
    <3>1. RunsTo(s, S, 0) = {}
      BY DEF RunsTo
    <3>2. WordsTo(s, S, 0) = {}
      BY <3>1 DEF WordsTo
    <3> QED BY <3>2 DEF s, S
  <2>6. DeleteInv'
    BY <2>1, <2>4, <2>5 DEF DeleteInv
  <2> QED BY <2>3, <2>6 DEF PieceInv
<1>3. CASE RegexpSplit
  <2>1. SplitInv'
    BY <1>3, RegexpSplitSeparates DEF PieceInv
  <2>2. call' = call /\ call.fn = "RegexpSplit"
    BY <1>3 DEF RegexpSplit, Running, Round
  <2> QED BY <2>1, <2>2 DEF PieceInv, DeleteInv, Deletes
<1>4. CASE DeleteOverlap
  <2>1. DeleteInv'
    BY <1>4, DeletesOverlap DEF PieceInv
  <2>2. call' = call /\ call.fn = "DeleteOverlap"
    BY <1>4 DEF DeleteOverlap, Running, Round, Return, Stop
  <2> QED BY <2>1, <2>2 DEF PieceInv, SplitInv, Splits
<1>5. CASE SearchFails
  <2>1. /\ call' = call /\ out' = out /\ status' = "failed"
        /\ call.fn # "DeleteOverlap"
    BY <1>5 DEF SearchFails, Stop, Running
  <2> QED BY <2>1 DEF PieceInv, SplitInv, DeleteInv, Deletes
<1>6. CASE \/ StrReplace \/ BufReplace \/ EOLtoLF \/ RegexpReplace \/ ReplaceByCallback \/ RegexpMatch
           \/ Extr \/ EncodeURI \/ Strlen \/ StrPos \/ StrtoBytes
  <2>1. call.fn \notin {"RegexpSplit", "DeleteOverlap"}
    BY <1>6 DEF StrReplace, BufReplace, EOLtoLF, RegexpReplace, ReplaceByCallback, RegexpMatch, Extr, EncodeURI,
                Strlen, StrPos, StrtoBytes, Running
  <2>2. call' = call
    BY <1>6 DEF StrReplace, BufReplace, EOLtoLF, RegexpReplace, ReplaceByCallback, RegexpMatch, Extr, EncodeURI,
                Strlen, StrPos, StrtoBytes, Return, Stop, Round, Pass
  <2> QED BY <2>1, <2>2 DEF PieceInv, SplitInv, Splits, DeleteInv, Deletes
<1> QED BY <1>1, <1>2, <1>3, <1>4, <1>5, <1>6 DEF Next, Rounds

(* Whatever the texts, and however long, the calls return what they are said  *)
(* to: the four that replace (kahanaStrReplace, kahanaBufStrReplace,          *)
(* kahanaStrEOLtoLF, kahanaStrRegexpReplace) the text with the first n words  *)
(* replaced, kahanaStrRegexpSplit and kahanaStrDeleteOverlap the pieces and   *)
(* words, kahanaStrlen, kahanaStrPos and kahanaStrtoBytes the characters.     *)
THEOREM ReturnsAsTold == Spec => []ResultsAsTold
<1>1. Init => StrayInv /\ LeadInv /\ CharInv /\ CharactersAsTold /\ ReplaceInv /\ PieceInv
  <2> SUFFICES ASSUME Init
               PROVE  StrayInv /\ LeadInv /\ CharInv /\ CharactersAsTold /\ ReplaceInv /\ PieceInv
    OBVIOUS
  <2>1. status = "idle" /\ call = Null
    BY DEF Init
  <2> QED BY <2>1 DEF StrayInv, LeadInv, CharInv, CharactersAsTold, ReplaceInv, PieceInv, SplitInv,
                      DeleteInv, Deletes
<1>2. IInv /\ ReplaceInv /\ PieceInv /\ CharactersAsTold => ResultsAsTold
  BY ReplacedAsTold, PiecesToldBy DEF ResultsAsTold
<1> QED BY <1>1, <1>2, NextStays, NextCounts, NextReplaces, NextPieces, Invariant, PTL DEF Spec
================================================================================
