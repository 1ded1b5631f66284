------------------------------ MODULE PartsProofs ------------------------------
(***************************************************************************)
(* The parts of the library that keep their state to themselves, proved for   *)
(* every size, name and content.  First what the library converts: positions   *)
(* and their geohashes, texts and their ciphertexts, address ranges.  Then     *)
(* what it opens is closed, what it reads is what was written, and what was     *)
(* to be made at a path is there.                                            *)
(***************************************************************************)
EXTENDS Parts, FiniteSetTheorems, WellFoundedInduction, TLAPS

-----------------------------------------------------------------------------
(* Induction and recursion up to a number, as statements about sets and        *)
(* functions.                                                                *)
LEMMA Least ==
  ASSUME NEW T \in SUBSET Nat, T # {}
  PROVE  \E x \in T : \A y \in T : x <= y
<1>1. \E x \in T : \A y \in T : ~ (<<y, x>> \in OpToRel(<, Nat))
  BY WFMin, NatLessThanWellFounded, Zenon
<1>2. \A x, y \in T : y < x => <<y, x>> \in OpToRel(<, Nat)
  BY Zenon DEF OpToRel
<1>3. \E x \in T : \A y \in T : ~ (y < x)
  BY <1>1, <1>2, Zenon
<1> QED BY <1>3

LEMMA UpTo ==
  ASSUME NEW n \in Nat, NEW T, 0 \in T, \A k \in 1..n : k - 1 \in T => k \in T
  PROVE  0..n \subseteq T
<1> SUFFICES ASSUME (0..n) \ T # {} PROVE FALSE
  OBVIOUS
<1> DEFINE Rest == (0..n) \ T
<1>0. Rest \in SUBSET Nat /\ Rest # {}
  OBVIOUS
<1>1. PICK x \in Rest : \A y \in Rest : x <= y
  <2> HIDE DEF Rest
  <2> QED BY <1>0, Least
<1>2. x \in 1..n /\ x - 1 \in 0..n
  BY <1>1
<1>3. x - 1 \notin T
  BY <1>1, <1>2
<1>4. ~ (x <= x - 1)
  BY <1>2
<1> QED BY <1>1, <1>2, <1>3, <1>4

Recursion(f, n, Val, a, Step) ==
  f \in [0..n -> Val] /\ f[0] = a /\ \A k \in 1..n : f[k] = Step[k][f[k - 1]]

LEMMA RecursionUpTo ==
  ASSUME NEW n \in Nat, NEW Val, NEW a \in Val, NEW Step \in [1..n -> [Val -> Val]]
  PROVE  \E f : Recursion(f, n, Val, a, Step)
<1> DEFINE Fits(m, f) == f[0] = a /\ \A k \in 1..m : f[k] = Step[k][f[k - 1]]
           T == {m \in 0..n : \E f \in [0..m -> Val] : Fits(m, f)}
<1>1. 0 \in T
  <2> DEFINE f == [k \in 0..0 |-> a]
  <2>1. f \in [0..0 -> Val] /\ f[0] = a
    OBVIOUS
  <2>2. 0 \in 0..n /\ 1..0 = {}
    OBVIOUS
  <2> HIDE DEF f
  <2> QED BY <2>1, <2>2
<1>2. ASSUME NEW m \in 1..n, m - 1 \in T PROVE m \in T
  <2>1. PICK f \in [0..(m - 1) -> Val] : Fits(m - 1, f)
    BY <1>2
  <2> DEFINE g == [k \in 0..m |-> IF k = m THEN Step[m][f[m - 1]] ELSE f[k]]
  <2>2. \A k \in 0..(m - 1) : k \in 0..m /\ k # m /\ g[k] = f[k]
    OBVIOUS
  <2>3. g \in [0..m -> Val]
    <3>1. m - 1 \in 0..(m - 1) /\ m \in 1..n
      OBVIOUS
    <3>2. Step[m][f[m - 1]] \in Val
      BY <3>1
    <3>3. \A k \in 0..m : k # m => k \in 0..(m - 1)
      OBVIOUS
    <3> QED BY <3>2, <3>3
  <2>4. g[0] = a
    BY <2>1, <2>2
  <2>5. ASSUME NEW k \in 1..m PROVE g[k] = Step[k][g[k - 1]]
    <3>1. k - 1 \in 0..(m - 1) /\ g[k - 1] = f[k - 1]
      BY <2>2
    <3>2. CASE k = m
      BY <3>1, <3>2
    <3>3. CASE k # m
      <4>1. k \in 1..(m - 1) /\ k \in 0..(m - 1)
        BY <3>3
      <4> QED BY <2>1, <2>2, <3>1, <4>1
    <3> QED BY <3>2, <3>3
  <2>6. m \in 0..n
    OBVIOUS
  <2> HIDE DEF g
  <2> QED BY <2>3, <2>4, <2>5, <2>6
<1> HIDE DEF T
<1>3. n \in T
  <2>1. 0..n \subseteq T
    BY <1>1, <1>2, UpTo
  <2> QED BY <2>1
<1> QED BY <1>3 DEF T, Recursion

(* A loop whose rounds are those of Step. *)
Loop(f, n, Val, a, Step) ==
  f \in [0..n -> Val] /\ f = [k \in 0..n |-> IF k = 0 THEN a ELSE Step[k][f[k - 1]]]

LEMMA LoopExists ==
  ASSUME NEW n \in Nat, NEW Val, NEW a \in Val, NEW Step \in [1..n -> [Val -> Val]]
  PROVE  \E f : Loop(f, n, Val, a, Step)
<1>0. \E f : Recursion(f, n, Val, a, Step)
  BY RecursionUpTo
<1>1. PICK f : f \in [0..n -> Val] /\ f[0] = a /\ \A k \in 1..n : f[k] = Step[k][f[k - 1]]
  BY <1>0 DEF Recursion
<1> DEFINE h == [k \in 0..n |-> IF k = 0 THEN a ELSE Step[k][f[k - 1]]]
<1>2. \A k \in 0..n : f[k] = h[k]
  <2>1. ASSUME NEW k \in 0..n PROVE f[k] = h[k]
    <3>1. k = 0 \/ k \in 1..n
      OBVIOUS
    <3> QED BY <1>1, <3>1
  <2> QED BY <2>1
<1>3. f = [k \in 0..n |-> f[k]] /\ h = [k \in 0..n |-> h[k]]
  BY <1>1
<1> HIDE DEF h
<1>4. f = h
  BY <1>2, <1>3
<1> QED BY <1>1, <1>4 DEF h, Loop

LEMMA LoopStays ==
  ASSUME NEW n \in Nat, NEW Val, NEW g, g[0] \in Val, \A k \in 1..n : g[k - 1] \in Val => g[k] \in Val
  PROVE  \A k \in 0..n : g[k] \in Val
<1> DEFINE T == {k \in 0..n : g[k] \in Val}
<1>1. 0 \in T
  OBVIOUS
<1>2. ASSUME NEW k \in 1..n, k - 1 \in T PROVE k \in T
  BY <1>2
<1> HIDE DEF T
<1>3. 0..n \subseteq T
  BY <1>1, <1>2, UpTo
<1> QED BY <1>3 DEF T

(* The powers of 2, as numbers of the subsets of a set. *)
LEMMA Doubled ==
  ASSUME NEW n \in Nat
  PROVE  2 ^ n \in Nat /\ 2 ^ (n + 1) = 2 * 2 ^ n
<1> DEFINE R == SUBSET (1..n)
           T == SUBSET (1..(n + 1))
           U == {s \cup {n + 1} : s \in R}
<1>1. /\ IsFiniteSet(1..n) /\ Cardinality(1..n) = n
      /\ IsFiniteSet(1..(n + 1)) /\ Cardinality(1..(n + 1)) = n + 1
  BY FS_Interval
<1>2. /\ IsFiniteSet(R) /\ Cardinality(R) = 2 ^ n
      /\ IsFiniteSet(T) /\ Cardinality(T) = 2 ^ (n + 1)
  BY <1>1, FS_SUBSET
<1>3. Cardinality(R) \in Nat
  BY <1>2, FS_CardinalityType
<1>4. T = R \cup U /\ R \cap U = {}
  <2>1. R \cap U = {}
    OBVIOUS
  <2>2. R \subseteq T /\ U \subseteq T
    <3>1. 1..n \subseteq 1..(n + 1) /\ n + 1 \in 1..(n + 1)
      OBVIOUS
    <3> QED BY <3>1
  <2>3. ASSUME NEW t \in T PROVE t \in R \cup U
    <3>1. CASE n + 1 \in t
      <4>1. t \ {n + 1} \in R /\ t = (t \ {n + 1}) \cup {n + 1}
        BY <3>1
      <4> QED BY <4>1
    <3>2. CASE n + 1 \notin t
      BY <3>2
    <3> QED BY <3>1, <3>2
  <2> QED BY <2>1, <2>2, <2>3
<1>5. IsFiniteSet(U) /\ Cardinality(U) = Cardinality(R)
  <2> DEFINE f == [s \in R |-> s \cup {n + 1}]
  <2>1. f \in Bijection(R, U)
    <3>1. f \in [R -> U] /\ \A u \in U : \E s \in R : f[s] = u
      OBVIOUS
    <3>2. ASSUME NEW s \in R, NEW t \in R, f[s] = f[t] PROVE s = t
      <4>1. n + 1 \notin s /\ n + 1 \notin t /\ s \cup {n + 1} = t \cup {n + 1}
        BY <3>2
      <4> QED BY <4>1
    <3> HIDE DEF f, R, U
    <3> QED BY <3>1, <3>2 DEF Bijection, Injection, Surjection, IsInjective
  <2> HIDE DEF f, R, U
  <2>2. ExistsBijection(R, U)
    BY <2>1 DEF ExistsBijection
  <2> QED BY <1>2, <2>2, FS_Bijection
<1> HIDE DEF R, T, U
<1>6. Cardinality(T) = Cardinality(R) + Cardinality(U) - Cardinality(R \cap U)
  BY <1>2, <1>4, <1>5, FS_Union
<1>7. Cardinality(R \cap U) = 0
  BY <1>4, FS_EmptySet
<1> QED BY <1>2, <1>3, <1>5, <1>6, <1>7

LEMMA PowerIs == 2 ^ 0 = 1 /\ \A n \in Nat : 2 ^ n \in Nat \ {0}
<1>1. 2 ^ 0 = 1
  OBVIOUS
<1>2. ASSUME NEW n \in Nat PROVE 2 ^ n \in Nat \ {0}
  <2> DEFINE T == {k \in 0..n : 2 ^ k \in Nat \ {0}}
  <2>1. 0 \in T
    BY <1>1
  <2>2. ASSUME NEW k \in 1..n, k - 1 \in T PROVE k \in T
    <3>1. k - 1 \in Nat /\ k \in 0..n /\ k - 1 + 1 = k
      OBVIOUS
    <3>2. 2 ^ (k - 1 + 1) = 2 * 2 ^ (k - 1)
      BY <3>1, Doubled
    <3>3. 2 ^ (k - 1) \in Nat \ {0}
      BY <2>2
    <3>4. 2 ^ k \in Nat \ {0}
      BY <3>1, <3>2, <3>3
    <3> QED BY <3>1, <3>4
  <2> HIDE DEF T
  <2>3. 0..n \subseteq T
    BY <2>1, <2>2, UpTo
  <2> QED BY <2>3 DEF T
<1> QED BY <1>1, <1>2

LEMMA PowerOfSum ==
  ASSUME NEW m \in Nat, NEW n \in Nat
  PROVE  2 ^ (m + n) = 2 ^ m * 2 ^ n
<1> DEFINE T == {k \in 0..n : 2 ^ (m + k) = 2 ^ m * 2 ^ k}
<1>1. 0 \in T
  <2>1. m + 0 = m /\ 2 ^ m \in Nat /\ 2 ^ 0 = 1
    BY PowerIs
  <2> QED BY <2>1
<1>2. ASSUME NEW k \in 1..n, k - 1 \in T PROVE k \in T
  <2>1. k - 1 \in Nat /\ m + (k - 1) \in Nat /\ k - 1 + 1 = k /\ m + (k - 1) + 1 = m + k /\ k \in 0..n
    OBVIOUS
  <2>2. 2 ^ k = 2 * 2 ^ (k - 1)
    <3>1. 2 ^ (k - 1 + 1) = 2 * 2 ^ (k - 1)
      BY <2>1, Doubled
    <3> QED BY <2>1, <3>1
  <2>3. 2 ^ (m + k) = 2 * 2 ^ (m + (k - 1))
    <3>1. 2 ^ (m + (k - 1) + 1) = 2 * 2 ^ (m + (k - 1))
      BY <2>1, Doubled
    <3> QED BY <2>1, <3>1
  <2>4. 2 ^ (m + (k - 1)) = 2 ^ m * 2 ^ (k - 1)
    BY <1>2
  <2>5. 2 ^ m \in Nat /\ 2 ^ (k - 1) \in Nat
    BY <2>1, PowerIs
  <2>6. 2 ^ (m + k) = 2 ^ m * 2 ^ k
    <3>1. \A a, b \in Nat : 2 * (a * b) = a * (2 * b)
      OBVIOUS
    <3> QED BY <2>2, <2>3, <2>4, <2>5, <3>1
  <2> QED BY <2>1, <2>6
<1> HIDE DEF T
<1>3. 0..n \subseteq T
  BY <1>1, <1>2, UpTo
<1> QED BY <1>3 DEF T

-----------------------------------------------------------------------------
(* Quotients and remainders. *)
LEMMA Divided ==
  ASSUME NEW a \in Nat, NEW b \in Nat \ {0}
  PROVE  /\ a \div b \in Nat /\ a % b \in 0..(b - 1) /\ a = b * (a \div b) + (a % b)
         /\ \A q, r \in Nat : a = b * q + r /\ r < b => a \div b = q /\ a % b = r
<1> DEFINE p == a \div b
           s == a % b
<1>1. p \in Nat /\ s \in 0..(b - 1) /\ a = b * p + s
  OBVIOUS
<1> HIDE DEF p, s
<1>2. ASSUME NEW q \in Nat, NEW r \in Nat, a = b * q + r, r < b PROVE p = q /\ s = r
  <2>1. CASE p = q
    BY <1>1, <1>2, <2>1
  <2>2. CASE p >= q + 1
    <3>1. PICK d \in Nat : p = q + 1 + d
      <4>1. p - q - 1 \in Nat /\ p = q + 1 + (p - q - 1)
        BY <1>1, <2>2
      <4> QED BY <4>1
    <3>2. b * (q + 1 + d) = b * q + b + b * d /\ b * d \in Nat /\ b * q \in Nat
      OBVIOUS
    <3> QED BY <1>1, <1>2, <3>1, <3>2
  <2>3. CASE q >= p + 1
    <3>1. PICK d \in Nat : q = p + 1 + d
      <4>1. q - p - 1 \in Nat /\ q = p + 1 + (q - p - 1)
        BY <1>1, <2>3
      <4> QED BY <4>1
    <3>2. b * (p + 1 + d) = b * p + b + b * d /\ b * d \in Nat /\ b * p \in Nat
      BY <1>1
    <3> QED BY <1>1, <1>2, <3>1, <3>2
  <2> QED BY <1>1, <2>1, <2>2, <2>3
<1> QED BY <1>1, <1>2 DEF p, s

LEMMA Divides ==
  ASSUME NEW a, NEW b, NEW q, NEW r,
         a \in Nat, b \in Nat \ {0}, q \in Nat, r \in Nat, a = b * q + r, r < b
  PROVE  a \div b = q /\ a % b = r
BY Divided

-----------------------------------------------------------------------------
(* Sequences, and the strings of C that end at their first NUL. *)
Begins(s, t) == Len(s) <= Len(t) /\ \A k \in 1..Len(s) : s[k] = t[k]

EndsAtNul(c, s) ==
  /\ Len(c) <= Len(s) /\ \A k \in 1..Len(c) : c[k] = s[k] /\ c[k] # Nul
  /\ Len(c) = Len(s) \/ s[Len(c) + 1] = Nul

LEMMA SameSequence ==
  ASSUME NEW Any, NEW s \in Seq(Any), NEW t \in Seq(Any), Len(s) = Len(t),
         \A k \in 1..Len(s) : s[k] = t[k]
  PROVE  s = t
OBVIOUS

LEMMA Front ==
  ASSUME NEW Any, NEW s \in Seq(Any), NEW n \in 0..Len(s)
  PROVE  /\ SubSeq(s, 1, n) \in Seq(Any) /\ Len(SubSeq(s, 1, n)) = n
         /\ \A k \in 1..n : SubSeq(s, 1, n)[k] = s[k]
OBVIOUS

LEMMA BeforeNul ==
  ASSUME NEW Any, NEW s \in Seq(Any), NEW n \in 1..Len(s), s[n] = Nul,
         \A k \in 1..Len(s) : s[k] = Nul => n <= k
  PROVE  SubSeq(s, 1, n - 1) \in Seq(Any) /\ EndsAtNul(SubSeq(s, 1, n - 1), s)
<1> DEFINE c == SubSeq(s, 1, n - 1)
<1>1. n - 1 \in 0..Len(s) /\ n - 1 + 1 = n
  OBVIOUS
<1>2. c \in Seq(Any) /\ Len(c) = n - 1 /\ \A k \in 1..(n - 1) : c[k] = s[k]
  BY <1>1, Front
<1>3. ASSUME NEW k \in 1..(n - 1) PROVE s[k] # Nul
  <2>1. k \in 1..Len(s) /\ ~ (n <= k)
    OBVIOUS
  <2> QED BY <2>1
<1> HIDE DEF c
<1>4. /\ Len(c) <= Len(s) /\ s[Len(c) + 1] = Nul
      /\ \A k \in 1..Len(c) : c[k] = s[k] /\ c[k] # Nul
  BY <1>1, <1>2, <1>3
<1> QED BY <1>2, <1>4 DEF EndsAtNul, c

(* CString, as FileRead and Cipher define it. *)
UpToNul(s) ==
  LET nuls == {n \in DOMAIN s : s[n] = Nul}
  IN IF nuls = {} THEN s ELSE SubSeq(s, 1, (CHOOSE n \in nuls : \A k \in nuls : n <= k) - 1)

LEMMA StringEnds ==
  ASSUME NEW Any, NEW s \in Seq(Any)
  PROVE  UpToNul(s) \in Seq(Any) /\ EndsAtNul(UpToNul(s), s)
<1> DEFINE nuls == {n \in DOMAIN s : s[n] = Nul}
           first == CHOOSE n \in nuls : \A k \in nuls : n <= k
<1>1. CASE nuls = {}
  BY <1>1 DEF EndsAtNul, UpToNul
<1>2. CASE nuls # {}
  <2>1. nuls \in SUBSET Nat
    OBVIOUS
  <2>2. \E n \in nuls : \A k \in nuls : n <= k
    <3> HIDE DEF nuls
    <3> QED BY <1>2, <2>1, Least
  <2>3. first \in nuls /\ \A k \in nuls : first <= k
    BY <2>2
  <2>4. UpToNul(s) = SubSeq(s, 1, first - 1)
    BY <1>2 DEF UpToNul
  <2> HIDE DEF first
  <2>5. first \in 1..Len(s) /\ s[first] = Nul /\ \A k \in 1..Len(s) : s[k] = Nul => first <= k
    BY <2>3
  <2> HIDE DEF nuls
  <2> QED BY <2>4, <2>5, BeforeNul
<1> QED BY <1>1, <1>2

LEMMA LoadCString == \A s : L!F!CString(s) = UpToNul(s)
BY DEF L!F!CString, UpToNul

(* Of two texts that begin alike the strings begin alike. *)
LEMMA StringsBegin ==
  ASSUME NEW Any, NEW s \in Seq(Any), NEW t \in Seq(Any), Begins(s, t),
         NEW c \in Seq(Any), EndsAtNul(c, s), NEW d \in Seq(Any), EndsAtNul(d, t)
  PROVE  Begins(c, d)
<1>1. Len(c) \in Nat /\ Len(d) \in Nat /\ Len(s) \in Nat /\ Len(t) \in Nat
  OBVIOUS
<1>2. Len(c) <= Len(d)
  <2> SUFFICES ASSUME Len(d) + 1 <= Len(c) PROVE FALSE
    BY <1>1
  <2>1. Len(d) + 1 \in 1..Len(c) /\ Len(d) + 1 \in 1..Len(s) /\ Len(d) # Len(t)
    BY <1>1 DEF Begins, EndsAtNul
  <2>2. t[Len(d) + 1] = Nul
    BY <2>1 DEF EndsAtNul
  <2>3. c[Len(d) + 1] = t[Len(d) + 1] /\ c[Len(d) + 1] # Nul
    BY <2>1 DEF Begins, EndsAtNul
  <2> QED BY <2>2, <2>3
<1>3. ASSUME NEW k \in 1..Len(c) PROVE c[k] = d[k]
  <2>1. k \in 1..Len(d) /\ k \in 1..Len(s)
    BY <1>1, <1>2 DEF EndsAtNul
  <2> QED BY <2>1 DEF Begins, EndsAtNul
<1> QED BY <1>2, <1>3 DEF Begins

-----------------------------------------------------------------------------
(* Positions: the loops of kahanaGeoHashEncode and kahanaGeoHashDecode, and    *)
(* the one the cell of a geohash is counted with.                             *)
Degrees == 0..Scale
Ranges == Degrees \X Degrees
Bits == Seq({0, 1})

LEMMA HalfOfRange ==
  ASSUME NEW range \in Ranges, NEW bit
  PROVE  G!Half(range, bit) \in Ranges /\ G!Mid(range) \in Degrees
<1>1. Scale \in Nat
  BY HashAssumption
<1>2. G!Mid(range) \in Degrees
  BY <1>1 DEF Ranges, Degrees, G!Mid
<1> QED BY <1>2 DEF Ranges, G!Half

LEMMA WholeRange == G!Whole \in Ranges
BY HashAssumption DEF G!Whole, Ranges, Degrees

(* The rounds of kahanaGeoHashEncode. *)
Encoding == [hash : Bits, lat : Ranges, lon : Ranges]

EncodeOn(lat, lon, so, k) ==
  LET b == IF G!IsLon(k) THEN G!BitOf(lon, so.lon) ELSE G!BitOf(lat, so.lat)
  IN [hash |-> Append(so.hash, b),
      lat  |-> IF G!IsLon(k) THEN so.lat ELSE G!Half(so.lat, b),
      lon  |-> IF G!IsLon(k) THEN G!Half(so.lon, b) ELSE so.lon]

EncodeStart == [hash |-> <<>>, lat |-> G!Whole, lon |-> G!Whole]

LEMMA EncodeRound ==
  ASSUME NEW lat, NEW lon, NEW so \in Encoding, NEW k
  PROVE  EncodeOn(lat, lon, so, k) \in Encoding
<1> DEFINE b == IF G!IsLon(k) THEN G!BitOf(lon, so.lon) ELSE G!BitOf(lat, so.lat)
<1>1. b \in {0, 1}
  BY DEF G!BitOf
<1>2. EncodeOn(lat, lon, so, k) = [hash |-> Append(so.hash, b),
                                   lat  |-> IF G!IsLon(k) THEN so.lat ELSE G!Half(so.lat, b),
                                   lon  |-> IF G!IsLon(k) THEN G!Half(so.lon, b) ELSE so.lon]
  BY DEF EncodeOn
<1> HIDE DEF b
<1>3. Append(so.hash, b) \in Bits
  BY <1>1 DEF Bits, Encoding
<1>4. so.lat \in Ranges /\ so.lon \in Ranges /\ G!Half(so.lat, b) \in Ranges /\ G!Half(so.lon, b) \in Ranges
  BY HalfOfRange DEF Encoding
<1> QED BY <1>2, <1>3, <1>4 DEF Encoding

Encodes(g, lat, lon, bits) ==
  /\ \A k \in 0..bits : g[k] \in Encoding
  /\ g[0] = EncodeStart /\ \A k \in 1..bits : g[k] = EncodeOn(lat, lon, g[k - 1], k)
  /\ G!Encoded(lat, lon, bits) = g[bits].hash

LEMMA EncodedIs ==
  ASSUME NEW lat, NEW lon, NEW bits \in Nat
  PROVE  \E g : Encodes(g, lat, lon, bits)
<1> DEFINE Body(g) == [k \in 0..bits |-> IF k = 0 THEN EncodeStart ELSE EncodeOn(lat, lon, g[k - 1], k)]
           Step == [k \in 1..bits |-> [so \in Encoding |-> EncodeOn(lat, lon, so, k)]]
           g == CHOOSE h : h = Body(h)
<1>1. G!Encoded(lat, lon, bits) = g[bits].hash
  BY DEF G!Encoded, EncodeStart, EncodeOn
<1>2. EncodeStart \in Encoding
  BY WholeRange DEF Bits, Encoding, EncodeStart
<1>3. Step \in [1..bits -> [Encoding -> Encoding]]
  BY EncodeRound
<1>4. PICK f : f \in [0..bits -> Encoding] /\ f = [k \in 0..bits |-> IF k = 0 THEN EncodeStart ELSE Step[k][f[k - 1]]]
  <2>1. \E f : Loop(f, bits, Encoding, EncodeStart, Step)
    <3> HIDE DEF Step
    <3> QED BY <1>2, <1>3, LoopExists
  <2> QED BY <2>1 DEF Loop
<1>5. f = Body(f)
  <2>1. ASSUME NEW k \in 0..bits
        PROVE  (IF k = 0 THEN EncodeStart ELSE Step[k][f[k - 1]])
                 = (IF k = 0 THEN EncodeStart ELSE EncodeOn(lat, lon, f[k - 1], k))
    <3>1. k = 0 \/ (k \in 1..bits /\ k - 1 \in 0..bits)
      OBVIOUS
    <3> QED BY <1>4, <3>1
  <2> HIDE DEF Step
  <2> QED BY <1>4, <2>1
<1>6. g = Body(g)
  <2> HIDE DEF Body
  <2> QED BY <1>5
<1>7. g[0] = EncodeStart /\ \A k \in 1..bits : g[k] = EncodeOn(lat, lon, g[k - 1], k)
  <2>1. \A h : Body(h)[0] = EncodeStart /\ \A k \in 1..bits : Body(h)[k] = EncodeOn(lat, lon, h[k - 1], k)
    OBVIOUS
  <2> HIDE DEF Body, g
  <2> QED BY <1>6, <2>1, Zenon
<1> HIDE DEF g
<1>8. \A k \in 0..bits : g[k] \in Encoding
  <2>1. \A k \in 1..bits : g[k - 1] \in Encoding => g[k] \in Encoding
    BY <1>7, EncodeRound
  <2> QED BY <1>2, <1>7, <2>1, LoopStays
<1>9. Encodes(g, lat, lon, bits)
  BY <1>1, <1>7, <1>8 DEF Encodes
<1> QED BY <1>9

(* The rounds of kahanaGeoHashDecode. *)
Decoding == [lat : Ranges, lon : Ranges]

DecodeOn(so, k, bit) ==
  IF G!IsLon(k) THEN [so EXCEPT !.lon = G!Half(@, bit)] ELSE [so EXCEPT !.lat = G!Half(@, bit)]

DecodeStart == [lat |-> G!Whole, lon |-> G!Whole]

LEMMA DecodeRound ==
  ASSUME NEW so \in Decoding, NEW k, NEW bit
  PROVE  DecodeOn(so, k, bit) \in Decoding
BY HalfOfRange DEF DecodeOn, Decoding

LEMMA DecodedIs ==
  ASSUME NEW hash \in Bits
  PROVE  \E g : /\ \A k \in 0..Len(hash) : g[k] \in Decoding
                /\ g[0] = DecodeStart /\ \A k \in 1..Len(hash) : g[k] = DecodeOn(g[k - 1], k, hash[k])
                /\ G!Decoded(hash) = g[Len(hash)]
<1> DEFINE n == Len(hash)
           Body(g) == [k \in 0..Len(hash) |-> IF k = 0 THEN DecodeStart ELSE DecodeOn(g[k - 1], k, hash[k])]
           Step == [k \in 1..n |-> [so \in Decoding |-> DecodeOn(so, k, hash[k])]]
           g == CHOOSE h : h = Body(h)
<1>1. G!Decoded(hash) = g[Len(hash)]
  BY DEF G!Decoded, DecodeStart, DecodeOn
<1>2. DecodeStart \in Decoding /\ n \in Nat
  BY WholeRange DEF Bits, Decoding, DecodeStart
<1>3. Step \in [1..n -> [Decoding -> Decoding]]
  BY DecodeRound
<1>4. PICK f : f \in [0..n -> Decoding] /\ f = [k \in 0..n |-> IF k = 0 THEN DecodeStart ELSE Step[k][f[k - 1]]]
  <2>1. \E f : Loop(f, n, Decoding, DecodeStart, Step)
    <3> HIDE DEF Step, n
    <3> QED BY <1>2, <1>3, LoopExists
  <2> QED BY <2>1 DEF Loop
<1>5. f = Body(f)
  <2>1. ASSUME NEW k \in 0..n
        PROVE  (IF k = 0 THEN DecodeStart ELSE Step[k][f[k - 1]])
                 = (IF k = 0 THEN DecodeStart ELSE DecodeOn(f[k - 1], k, hash[k]))
    <3>1. k = 0 \/ (k \in 1..n /\ k - 1 \in 0..n)
      BY <1>2
    <3> QED BY <1>4, <3>1
  <2> HIDE DEF Step
  <2> QED BY <1>4, <2>1
<1>6. g = Body(g)
  <2> HIDE DEF Body
  <2> QED BY <1>5
<1>7. g[0] = DecodeStart /\ \A k \in 1..n : g[k] = DecodeOn(g[k - 1], k, hash[k])
  <2>1. \A h : Body(h)[0] = DecodeStart /\ \A k \in 1..n : Body(h)[k] = DecodeOn(h[k - 1], k, hash[k])
    BY <1>2
  <2> HIDE DEF Body, g
  <2> QED BY <1>6, <2>1, Zenon
<1> HIDE DEF g
<1>8. \A k \in 0..n : g[k] \in Decoding
  <2>1. \A k \in 1..n : g[k - 1] \in Decoding => g[k] \in Decoding
    BY <1>7, DecodeRound
  <2> HIDE DEF n
  <2> QED BY <1>2, <1>7, <2>1, LoopStays
<1> QED BY <1>1, <1>7, <1>8

(* The counting of the cells. *)
Cells == [cells : Nat, number : Nat]

CellOn(so, counts, bit) ==
  IF counts THEN [cells |-> 2 * so.cells, number |-> 2 * so.number + bit] ELSE so

CellStart == [cells |-> 1, number |-> 0]

LEMMA CellIs ==
  ASSUME NEW hash \in Bits, NEW isLon \in BOOLEAN
  PROVE  \E g : /\ \A k \in 0..Len(hash) : g[k] \in Cells
                /\ g[0] = CellStart
                /\ \A k \in 1..Len(hash) : g[k] = CellOn(g[k - 1], G!IsLon(k) = isLon, hash[k])
                /\ G!Cell(hash, isLon) = g[Len(hash)]
<1> DEFINE n == Len(hash)
           On(so, k) == CellOn(so, G!IsLon(k) = isLon, hash[k])
           Body(g) == [k \in 0..Len(hash) |-> IF k = 0 THEN CellStart ELSE On(g[k - 1], k)]
           Step == [k \in 1..n |-> [so \in Cells |-> On(so, k)]]
           g == CHOOSE h : h = Body(h)
<1>1. G!Cell(hash, isLon) = g[Len(hash)]
  <2> DEFINE Named(f) == [k \in 0..Len(hash) |->
                           IF k = 0 THEN [cells |-> 1, number |-> 0]
                           ELSE IF G!IsLon(k) # isLon THEN f[k - 1]
                           ELSE [cells |-> 2 * f[k - 1].cells, number |-> 2 * f[k - 1].number + hash[k]]]
  <2>1. \A f : Named(f) = Body(f)
    BY DEF CellOn, CellStart
  <2>2. G!Cell(hash, isLon) = (CHOOSE f : f = Named(f))[Len(hash)]
    BY DEF G!Cell
  <2>3. (CHOOSE f : f = Named(f)) = (CHOOSE f : f = Body(f))
    <3> HIDE DEF Named, Body
    <3> QED BY <2>1
  <2> QED BY <2>2, <2>3
<1>2. CellStart \in Cells /\ n \in Nat
  BY DEF Bits, Cells, CellStart
<1>3. ASSUME NEW so \in Cells, NEW k \in 1..n PROVE On(so, k) \in Cells
  <2>1. hash[k] \in Nat
    BY DEF Bits
  <2> QED BY <2>1 DEF Cells, CellOn
<1> HIDE DEF On
<1>4. Step \in [1..n -> [Cells -> Cells]]
  BY <1>3
<1>5. PICK f : f \in [0..n -> Cells] /\ f = [k \in 0..n |-> IF k = 0 THEN CellStart ELSE Step[k][f[k - 1]]]
  <2>1. \E f : Loop(f, n, Cells, CellStart, Step)
    <3> HIDE DEF Step, n
    <3> QED BY <1>2, <1>4, LoopExists
  <2> QED BY <2>1 DEF Loop
<1>6. f = Body(f)
  <2>1. ASSUME NEW k \in 0..n
        PROVE  (IF k = 0 THEN CellStart ELSE Step[k][f[k - 1]]) = (IF k = 0 THEN CellStart ELSE On(f[k - 1], k))
    <3>1. k = 0 \/ (k \in 1..n /\ k - 1 \in 0..n)
      BY <1>2
    <3> QED BY <1>5, <3>1
  <2> HIDE DEF Step
  <2> QED BY <1>5, <2>1
<1>7. g = Body(g)
  <2> HIDE DEF Body
  <2> QED BY <1>6
<1>8. g[0] = CellStart /\ \A k \in 1..n : g[k] = On(g[k - 1], k)
  <2>1. \A h : Body(h)[0] = CellStart /\ \A k \in 1..n : Body(h)[k] = On(h[k - 1], k)
    BY <1>2
  <2> HIDE DEF Body, g
  <2> QED BY <1>7, <2>1, Zenon
<1> HIDE DEF g
<1>9. \A k \in 0..n : g[k] \in Cells
  <2> HIDE DEF n
  <2> QED BY <1>2, <1>3, <1>8, LoopStays
<1> QED BY <1>1, <1>8, <1>9 DEF On

(* What the bits of a coordinate leave of the range of all: the w-wide range  *)
(* with their number.                                                        *)
Covers(range, cell, w) ==
  /\ range = <<cell.number * w, (cell.number + 1) * w>>
  /\ cell.cells * w = Scale /\ cell.number < cell.cells

(* A range holds its lower end, and its upper end only if nothing is above it; *)
(* the first range holds what is below it too.                               *)
Lons == (-Scale)..Scale
Holds(x, range) ==
  (range[1] <= x \/ (x < 0 /\ range[1] = 0)) /\ (x < range[2] \/ (x = Scale /\ range[2] = Scale))

Widths(width) ==
  /\ \A k \in 0..Halvings : width[k] \in Nat \ {0}
  /\ width[0] = Scale /\ \A k \in 1..Halvings : width[k - 1] = 2 * width[k]

LEMMA WidthsExist == Halvings \in Nat /\ \E width : Widths(width)
<1> DEFINE n == Halvings
           unit == Scale \div 2 ^ n
           w == [k \in 0..n |-> unit * 2 ^ (n - k)]
<1>1. n \in Nat
  <2>1. HashSize * CharBits \in Nat
    BY HashAssumption
  <2> QED BY <2>1 DEF Halvings
<1> HIDE DEF n
<1>2. 2 ^ n \in Nat \ {0} /\ Scale \in Nat \ {0} /\ Scale % 2 ^ n = 0
  BY <1>1, PowerIs, HashAssumption DEF n
<1>3. unit \in Nat \ {0} /\ unit * 2 ^ n = Scale
  <2> DEFINE H == 2 ^ n
  <2>1. H \in Nat \ {0} /\ Scale % H = 0
    BY <1>2
  <2> HIDE DEF H
  <2>2. Scale \div H \in Nat /\ Scale = H * (Scale \div H) + 0
    BY <1>2, <2>1, Divided
  <2>3. Scale \div H # 0
    BY <1>2, <2>1, <2>2
  <2>4. (Scale \div H) * H = Scale
    BY <2>1, <2>2
  <2> QED BY <2>2, <2>3, <2>4 DEF H
<1> HIDE DEF unit
<1>4. \A k \in 0..n : w[k] \in Nat \ {0}
  <2> SUFFICES ASSUME NEW k \in 0..n PROVE unit * 2 ^ (n - k) \in Nat \ {0}
    OBVIOUS
  <2>1. n - k \in Nat
    BY <1>1
  <2>2. 2 ^ (n - k) \in Nat \ {0}
    BY <2>1, PowerIs
  <2>3. \A a, b \in Nat \ {0} : a * b \in Nat \ {0}
    OBVIOUS
  <2> QED BY <1>3, <2>2, <2>3
<1>5. w[0] = Scale
  <2>1. n - 0 = n /\ 0 \in 0..n
    BY <1>1
  <2> QED BY <1>3, <2>1
<1>6. \A k \in 1..n : w[k - 1] = 2 * w[k]
  <2> SUFFICES ASSUME NEW k \in 1..n PROVE w[k - 1] = 2 * w[k]
    OBVIOUS
  <2> DEFINE m == n - k
  <2>1. m \in Nat /\ n - (k - 1) = m + 1 /\ k \in 0..n /\ k - 1 \in 0..n
    BY <1>1
  <2>2. w[k] = unit * 2 ^ m /\ w[k - 1] = unit * 2 ^ (m + 1)
    BY <2>1
  <2> HIDE DEF m, w
  <2>3. 2 ^ (m + 1) = 2 * 2 ^ m /\ 2 ^ m \in Nat
    BY <2>1, Doubled
  <2>4. \A a, b \in Nat : a * (2 * b) = 2 * (a * b)
    OBVIOUS
  <2> QED BY <1>3, <2>2, <2>3, <2>4
<1> HIDE DEF w
<1>7. Widths(w)
  BY <1>4, <1>5, <1>6 DEF Widths, n
<1> QED BY <1>1, <1>7 DEF n

LEMMA WholeCovers ==
  ASSUME NEW w, w = Scale
  PROVE  Covers(G!Whole, CellStart, w)
BY HashAssumption DEF Covers, G!Whole, CellStart

LEMMA HalfCovers ==
  ASSUME NEW range, NEW cell \in Cells, NEW v, NEW w \in Nat \ {0}, v = 2 * w, Covers(range, cell, v),
         NEW bit \in {0, 1}
  PROVE  Covers(G!Half(range, bit), CellOn(cell, TRUE, bit), w)
<1> DEFINE n == cell.number
           c == cell.cells
           t == n * w
           m == 2 * n + bit
<1>1. n \in Nat /\ c \in Nat /\ t \in Nat
  BY DEF Cells
<1>2. range = <<n * (2 * w), (n + 1) * (2 * w)>> /\ c * (2 * w) = Scale /\ n < c
  BY DEF Covers
<1>3. n * (2 * w) = 2 * t /\ (n + 1) * (2 * w) = 2 * t + 2 * w
  BY <1>1
<1>4. G!Mid(range) = 2 * t + w
  <2> HIDE DEF t, n
  <2>1. G!Mid(range) = (2 * t + (2 * t + 2 * w)) \div 2
    BY <1>2, <1>3 DEF G!Mid
  <2> QED BY <1>1, <2>1
<1>5. CellOn(cell, TRUE, bit).cells = 2 * c /\ CellOn(cell, TRUE, bit).number = m
  BY DEF CellOn
<1>6. (2 * n) * w = 2 * t /\ (2 * n + 1) * w = 2 * t + w /\ (2 * n + 2) * w = 2 * t + 2 * w
  BY <1>1
<1>7. (2 * c) * w = Scale
  BY <1>1, <1>2
<1> HIDE DEF n, c, t
<1>8. CASE bit = 0
  <2>1. G!Half(range, bit) = <<2 * t, 2 * t + w>>
    BY <1>2, <1>3, <1>4, <1>8 DEF G!Half
  <2>2. m = 2 * n /\ m + 1 = 2 * n + 1 /\ m < 2 * c
    BY <1>1, <1>2, <1>8
  <2>3. m * w = 2 * t /\ (m + 1) * w = 2 * t + w
    BY <1>6, <2>2
  <2> HIDE DEF m
  <2> QED BY <1>5, <1>7, <2>1, <2>2, <2>3 DEF Covers
<1>9. CASE bit = 1
  <2>1. G!Half(range, bit) = <<2 * t + w, 2 * t + 2 * w>>
    BY <1>2, <1>3, <1>4, <1>9 DEF G!Half
  <2>2. m = 2 * n + 1 /\ m + 1 = 2 * n + 2 /\ m < 2 * c
    BY <1>1, <1>2, <1>9
  <2>3. m * w = 2 * t + w /\ (m + 1) * w = 2 * t + 2 * w
    BY <1>6, <2>2
  <2> HIDE DEF m
  <2> QED BY <1>5, <1>7, <2>1, <2>2, <2>3 DEF Covers
<1> QED BY <1>8, <1>9

LEMMA HalfHolds ==
  ASSUME NEW range \in Ranges, NEW x \in Lons, Holds(x, range)
  PROVE  Holds(x, G!Half(range, G!BitOf(x, range)))
<1>1. G!Mid(range) \in Degrees
  BY HalfOfRange
<1>2. CASE x >= G!Mid(range)
  <2>1. G!Half(range, G!BitOf(x, range)) = <<G!Mid(range), range[2]>>
    BY <1>2 DEF G!Half, G!BitOf
  <2> QED BY <1>1, <1>2, <2>1 DEF Holds, Degrees, Lons
<1>3. CASE ~ (x >= G!Mid(range))
  <2>1. G!Half(range, G!BitOf(x, range)) = <<range[1], G!Mid(range)>>
    BY <1>3 DEF G!Half, G!BitOf
  <2>2. x < G!Mid(range)
    BY <1>1, <1>3, HashAssumption DEF Degrees, Lons
  <2> QED BY <2>1, <2>2 DEF Holds
<1> QED BY <1>2, <1>3

LEMMA MidHolds ==
  ASSUME NEW range, NEW cell \in Cells, NEW w \in Nat \ {0}, Covers(range, cell, w)
  PROVE  Holds(G!Mid(range), range)
<1> DEFINE t == cell.number * w
<1>1. t \in Nat /\ (cell.number + 1) * w = t + w
  BY DEF Cells
<1>2. range = <<t, t + w>>
  BY <1>1 DEF Covers
<1> HIDE DEF t
<1>3. G!Mid(range) = (2 * t + w) \div 2
  BY <1>1, <1>2 DEF G!Mid
<1> QED BY <1>1, <1>2, <1>3 DEF Holds

LEMMA InCellIf ==
  ASSUME NEW range, NEW cell \in Cells, NEW w \in Nat \ {0}, Covers(range, cell, w),
         NEW x \in Degrees, Holds(x, range)
  PROVE  G!InCell(x, cell)
<1> DEFINE n == cell.number
           c == cell.cells
<1>1. n \in Nat /\ c \in Nat /\ x \in Nat /\ c * w = Scale /\ n < c /\ c >= 1
  BY HashAssumption DEF Cells, Covers, Degrees
<1>2. n * w <= x /\ (x < (n + 1) * w \/ (x = Scale /\ (n + 1) * w = Scale))
  BY <1>1 DEF Covers, Holds
<1> HIDE DEF n, c
<1>3. \A a, b \in Nat : a <= b => a * c <= b * c
  BY <1>1
<1>4. \A a, b \in Nat : a < b => a * c < b * c
  BY <1>1
<1>5. n * Scale = (n * w) * c /\ (n + 1) * Scale = ((n + 1) * w) * c /\ n * w \in Nat /\ (n + 1) * w \in Nat
  BY <1>1
<1>6. n * Scale <= x * c
  BY <1>1, <1>2, <1>3, <1>5
<1>7. CASE x < (n + 1) * w
  <2>1. x * c < (n + 1) * Scale
    BY <1>1, <1>4, <1>5, <1>7
  <2> QED BY <1>6, <2>1 DEF G!InCell, n, c
<1>8. CASE x = Scale /\ (n + 1) * w = Scale
  <2>1. (c - (n + 1)) * w = 0
    BY <1>1, <1>8
  <2>2. \A d \in Nat : d * w = 0 => d = 0
    OBVIOUS
  <2>3. n = c - 1
    BY <1>1, <2>1, <2>2
  <2> QED BY <1>6, <1>8, <2>3 DEF G!InCell, n, c
<1> QED BY <1>2, <1>7, <1>8

(* What is below the ranges is in the first of the cells. *)
LEMMA InCellIfBelow ==
  ASSUME NEW range \in Ranges, NEW cell \in Cells, NEW w \in Nat \ {0}, Covers(range, cell, w),
         NEW x \in Lons, Holds(x, range)
  PROVE  G!InCell(G!Nearest(x), cell)
<1>1. CASE x < 0
  <2>1. 0 \in Degrees /\ G!Nearest(x) = 0
    BY <1>1, HashAssumption DEF Degrees, G!Nearest
  <2>2. range[1] \in Nat /\ range[1] = 0
    <3>1. range[1] \in Nat
      BY HashAssumption DEF Ranges, Degrees
    <3>2. ~ (range[1] <= x)
      BY <1>1, <3>1, HashAssumption DEF Lons
    <3> QED BY <3>1, <3>2 DEF Holds
  <2>3. range[2] = range[1] + w
    <3>1. (cell.number + 1) * w = cell.number * w + w
      BY DEF Cells
    <3> QED BY <3>1 DEF Covers
  <2>4. Holds(0, range)
    BY <2>2, <2>3 DEF Holds
  <2> QED BY <2>1, <2>4, InCellIf
<1>2. CASE ~ (x < 0)
  <2>1. x \in Degrees /\ G!Nearest(x) = x
    BY <1>2, HashAssumption DEF Degrees, Lons, G!Nearest
  <2> QED BY <2>1, InCellIf
<1> QED BY <1>1, <1>2

(* What the loops leave of the ranges is what the bits number. *)
Narrowed(r, n, hash) ==
  /\ r[0].lat = G!Whole /\ r[0].lon = G!Whole
  /\ \A k \in 1..n :
       /\ r[k].lat = IF G!IsLon(k) THEN r[k - 1].lat ELSE G!Half(r[k - 1].lat, hash[k])
       /\ r[k].lon = IF G!IsLon(k) THEN G!Half(r[k - 1].lon, hash[k]) ELSE r[k - 1].lon

LEMMA NarrowedCovers ==
  ASSUME NEW hash \in Bits, Len(hash) <= CharBits * HashSize, NEW r, Narrowed(r, Len(hash), hash)
  PROVE  /\ \E w \in Nat \ {0} : Covers(r[Len(hash)].lat, G!Cell(hash, FALSE), w)
         /\ \E w \in Nat \ {0} : Covers(r[Len(hash)].lon, G!Cell(hash, TRUE), w)
         /\ G!Cell(hash, FALSE) \in Cells /\ G!Cell(hash, TRUE) \in Cells
<1> DEFINE n == Len(hash)
<1>1. PICK width : Widths(width)
  BY WidthsExist
<1>2. /\ \A k \in 0..Halvings : width[k] \in Nat \ {0}
      /\ width[0] = Scale /\ \A k \in 1..Halvings : width[k - 1] = 2 * width[k]
  BY <1>1 DEF Widths
<1>3. PICK lats : /\ \A k \in 0..n : lats[k] \in Cells
                  /\ lats[0] = CellStart
                  /\ \A k \in 1..n : lats[k] = CellOn(lats[k - 1], G!IsLon(k) = FALSE, hash[k])
                  /\ G!Cell(hash, FALSE) = lats[n]
  BY CellIs
<1>4. PICK lons : /\ \A k \in 0..n : lons[k] \in Cells
                  /\ lons[0] = CellStart
                  /\ \A k \in 1..n : lons[k] = CellOn(lons[k - 1], G!IsLon(k) = TRUE, hash[k])
                  /\ G!Cell(hash, TRUE) = lons[n]
  BY CellIs
<1>5. n \in Nat /\ Halvings \in Nat /\ \A k \in 0..n : k \div 2 \in 0..Halvings /\ (k + 1) \div 2 \in 0..Halvings
  <2>1. HashSize * CharBits \in Nat /\ CharBits * HashSize = HashSize * CharBits
    BY HashAssumption
  <2>2. n \in Nat /\ n <= HashSize * CharBits /\ Halvings = (HashSize * CharBits) \div 2 + 1
    BY <2>1 DEF Bits, Halvings
  <2> HIDE DEF n
  <2> QED BY <2>1, <2>2
<1>6. \A k \in 1..n : hash[k] \in {0, 1}
  BY DEF Bits
<1> HIDE DEF n
<1>7. /\ r[0].lat = G!Whole /\ r[0].lon = G!Whole
      /\ \A k \in 1..n :
           /\ r[k].lat = IF G!IsLon(k) THEN r[k - 1].lat ELSE G!Half(r[k - 1].lat, hash[k])
           /\ r[k].lon = IF G!IsLon(k) THEN G!Half(r[k - 1].lon, hash[k]) ELSE r[k - 1].lon
  BY DEF Narrowed, n
<1> DEFINE T == {k \in 0..n : /\ Covers(r[k].lat, lats[k], width[k \div 2])
                              /\ Covers(r[k].lon, lons[k], width[(k + 1) \div 2])}
<1>8. 0 \in T
  <2>1. 0 \div 2 = 0 /\ (0 + 1) \div 2 = 0 /\ 0 \in 0..n
    BY <1>5
  <2> QED BY <1>2, <1>3, <1>4, <1>7, <2>1, WholeCovers
<1>9. ASSUME NEW k \in 1..n, k - 1 \in T PROVE k \in T
  <2>1. k \in 0..n /\ k - 1 \in 0..n /\ hash[k] \in {0, 1}
    BY <1>5, <1>6
  <2>2. /\ Covers(r[k - 1].lat, lats[k - 1], width[(k - 1) \div 2])
        /\ Covers(r[k - 1].lon, lons[k - 1], width[(k - 1 + 1) \div 2])
    BY <1>9
  <2>3. CASE G!IsLon(k)
    <3>1. k \div 2 = (k - 1) \div 2 /\ (k - 1 + 1) \div 2 = (k + 1) \div 2 - 1
      BY <1>5, <2>3 DEF G!IsLon
    <3>2. r[k].lat = r[k - 1].lat /\ lats[k] = lats[k - 1]
      BY <1>3, <1>7, <2>3 DEF CellOn
    <3>3. r[k].lon = G!Half(r[k - 1].lon, hash[k]) /\ lons[k] = CellOn(lons[k - 1], TRUE, hash[k])
      BY <1>4, <1>7, <2>3 DEF CellOn
    <3>4. (k + 1) \div 2 \in 1..Halvings
      BY <1>5, <2>1, <2>3 DEF G!IsLon
    <3>5. width[(k - 1 + 1) \div 2] = 2 * width[(k + 1) \div 2] /\ width[(k + 1) \div 2] \in Nat \ {0}
      BY <1>2, <1>5, <3>1, <3>4
    <3>6. lons[k - 1] \in Cells
      BY <1>4, <2>1
    <3>7. Covers(r[k].lon, lons[k], width[(k + 1) \div 2])
      BY <2>1, <2>2, <3>3, <3>5, <3>6, HalfCovers
    <3> QED BY <2>1, <2>2, <3>1, <3>2, <3>7
  <2>4. CASE ~ G!IsLon(k)
    <3>1. (k - 1 + 1) \div 2 = (k + 1) \div 2 /\ (k - 1) \div 2 = k \div 2 - 1
      BY <1>5, <2>4 DEF G!IsLon
    <3>2. r[k].lon = r[k - 1].lon /\ lons[k] = lons[k - 1]
      BY <1>4, <1>7, <2>4 DEF CellOn
    <3>3. r[k].lat = G!Half(r[k - 1].lat, hash[k]) /\ lats[k] = CellOn(lats[k - 1], TRUE, hash[k])
      BY <1>3, <1>7, <2>4 DEF CellOn
    <3>4. k \div 2 \in 1..Halvings
      BY <1>5, <2>1, <2>4 DEF G!IsLon
    <3>5. width[(k - 1) \div 2] = 2 * width[k \div 2] /\ width[k \div 2] \in Nat \ {0}
      <4>1. \A h \in 1..Halvings : width[h - 1] = 2 * width[h] /\ width[h] \in Nat \ {0}
        BY <1>2, <1>5
      <4> QED BY <3>1, <3>4, <4>1
    <3>6. lats[k - 1] \in Cells
      BY <1>3, <2>1
    <3>7. Covers(r[k].lat, lats[k], width[k \div 2])
      BY <2>1, <2>2, <3>3, <3>5, <3>6, HalfCovers
    <3> QED BY <2>1, <2>2, <3>1, <3>2, <3>7
  <2> QED BY <2>3, <2>4
<1>10. n \in T
  <2> HIDE DEF T
  <2>1. 0..n \subseteq T
    BY <1>5, <1>8, <1>9, UpTo
  <2> QED BY <1>5, <2>1
<1>11. /\ Covers(r[n].lat, G!Cell(hash, FALSE), width[n \div 2])
       /\ Covers(r[n].lon, G!Cell(hash, TRUE), width[(n + 1) \div 2])
  BY <1>3, <1>4, <1>10
<1>12. /\ width[n \div 2] \in Nat \ {0} /\ width[(n + 1) \div 2] \in Nat \ {0}
       /\ G!Cell(hash, FALSE) \in Cells /\ G!Cell(hash, TRUE) \in Cells
  <2>1. n \in 0..n
    BY <1>5
  <2>2. n \div 2 \in 0..Halvings /\ (n + 1) \div 2 \in 0..Halvings
    BY <1>5, <2>1
  <2>3. lats[n] \in Cells /\ lons[n] \in Cells
    BY <1>3, <1>4, <2>1
  <2> QED BY <1>2, <1>3, <1>4, <2>2, <2>3
<1> QED BY <1>11, <1>12 DEF n

(* What a round of kahanaGeoHashEncode does with the ranges and the bits. *)
EncodeRoundIs(lat, lon, so, on, k) ==
  /\ Len(so.hash) = k - 1 => /\ Len(on.hash) = k /\ \A j \in 1..(k - 1) : on.hash[j] = so.hash[j]
                             /\ on.lat = IF G!IsLon(k) THEN so.lat ELSE G!Half(so.lat, on.hash[k])
                             /\ on.lon = IF G!IsLon(k) THEN G!Half(so.lon, on.hash[k]) ELSE so.lon
  /\ on.lat = IF G!IsLon(k) THEN so.lat ELSE G!Half(so.lat, G!BitOf(lat, so.lat))
  /\ on.lon = IF G!IsLon(k) THEN G!Half(so.lon, G!BitOf(lon, so.lon)) ELSE so.lon

LEMMA EncodeRoundGives ==
  ASSUME NEW lat, NEW lon, NEW so \in Encoding, NEW k \in Nat \ {0}
  PROVE  EncodeRoundIs(lat, lon, so, EncodeOn(lat, lon, so, k), k)
<1> DEFINE b == IF G!IsLon(k) THEN G!BitOf(lon, so.lon) ELSE G!BitOf(lat, so.lat)
           on == EncodeOn(lat, lon, so, k)
<1>1. b \in {0, 1}
  BY DEF G!BitOf
<1>2. on = [hash |-> Append(so.hash, b),
            lat  |-> IF G!IsLon(k) THEN so.lat ELSE G!Half(so.lat, b),
            lon  |-> IF G!IsLon(k) THEN G!Half(so.lon, b) ELSE so.lon]
  BY DEF EncodeOn
<1>3. /\ on.lat = IF G!IsLon(k) THEN so.lat ELSE G!Half(so.lat, G!BitOf(lat, so.lat))
      /\ on.lon = IF G!IsLon(k) THEN G!Half(so.lon, G!BitOf(lon, so.lon)) ELSE so.lon
  BY <1>2
<1> HIDE DEF b
<1>4. ASSUME Len(so.hash) = k - 1
      PROVE  Len(on.hash) = k /\ on.hash[k] = b /\ \A j \in 1..(k - 1) : on.hash[j] = so.hash[j]
  <2>1. so.hash \in Seq({0, 1}) /\ on.hash = Append(so.hash, b)
    BY <1>2 DEF Encoding, Bits
  <2> HIDE DEF on
  <2> QED BY <1>1, <1>4, <2>1
<1>5. /\ on.lat = IF G!IsLon(k) THEN so.lat ELSE G!Half(so.lat, b)
      /\ on.lon = IF G!IsLon(k) THEN G!Half(so.lon, b) ELSE so.lon
  BY <1>2
<1> HIDE DEF on
<1>6. EncodeRoundIs(lat, lon, so, on, k)
  BY <1>3, <1>4, <1>5 DEF EncodeRoundIs
<1> QED BY <1>6 DEF on

(* Encoding puts a position in the cell its geohash numbers. *)
LEMMA EncodedIn ==
  ASSUME NEW lat \in Degrees, NEW lon \in Lons, NEW bits \in Nat, bits <= CharBits * HashSize
  PROVE  /\ G!Encoded(lat, lon, bits) \in Bits /\ Len(G!Encoded(lat, lon, bits)) = bits
         /\ G!InCell(lat, G!Cell(G!Encoded(lat, lon, bits), FALSE))
         /\ G!InCell(G!Nearest(lon), G!Cell(G!Encoded(lat, lon, bits), TRUE))
<1>a. lat \in Lons
  BY HashAssumption DEF Degrees, Lons
<1>0. \E g : Encodes(g, lat, lon, bits)
  BY EncodedIs
<1>1. PICK g : /\ \A k \in 0..bits : g[k] \in Encoding
               /\ g[0] = EncodeStart /\ \A k \in 1..bits : g[k] = EncodeOn(lat, lon, g[k - 1], k)
               /\ G!Encoded(lat, lon, bits) = g[bits].hash
  BY <1>0 DEF Encodes
<1> DEFINE hash == g[bits].hash
           T == {m \in 0..bits : /\ Len(g[m].hash) = m
                                 /\ Holds(lat, g[m].lat) /\ Holds(lon, g[m].lon)
                                 /\ \A k \in 1..m : g[m].hash[k] = g[k].hash[k]}
<1>2. 0 \in T
  <2>1. Holds(lat, G!Whole) /\ Holds(lon, G!Whole)
    BY HashAssumption DEF Holds, Degrees, Lons, G!Whole
  <2>2. g[0].lat = G!Whole /\ g[0].lon = G!Whole /\ Len(g[0].hash) = 0
    BY <1>1 DEF EncodeStart
  <2> QED BY <2>1, <2>2
<1>3. ASSUME NEW m \in 1..bits PROVE EncodeRoundIs(lat, lon, g[m - 1], g[m], m)
  BY <1>1, <1>3, EncodeRoundGives
<1>4. ASSUME NEW m \in 1..bits, m - 1 \in T PROVE m \in T
  <2>1. m \in 0..bits /\ m - 1 \in 0..bits /\ g[m - 1] \in Encoding
    BY <1>1
  <2>2. Len(g[m - 1].hash) = m - 1 /\ Holds(lat, g[m - 1].lat) /\ Holds(lon, g[m - 1].lon)
    BY <1>4
  <2>3. \A k \in 1..(m - 1) : g[m - 1].hash[k] = g[k].hash[k]
    BY <1>4
  <2>4. EncodeRoundIs(lat, lon, g[m - 1], g[m], m)
    BY <1>3
  <2>5. Len(g[m].hash) = m /\ \A k \in 1..(m - 1) : g[m].hash[k] = g[m - 1].hash[k]
    BY <2>1, <2>2, <2>4 DEF EncodeRoundIs
  <2>6. \A k \in 1..m : g[m].hash[k] = g[k].hash[k]
    <3>1. ASSUME NEW k \in 1..m PROVE g[m].hash[k] = g[k].hash[k]
      <4>1. k = m \/ k \in 1..(m - 1)
        OBVIOUS
      <4> QED BY <2>3, <2>5, <4>1
    <3> QED BY <3>1
  <2>7. Holds(lat, g[m].lat) /\ Holds(lon, g[m].lon)
    <3>1. g[m - 1].lat \in Ranges /\ g[m - 1].lon \in Ranges
      BY <2>1 DEF Encoding
    <3> QED BY <1>a, <2>2, <2>4, <3>1, HalfHolds DEF EncodeRoundIs
  <2> QED BY <2>1, <2>5, <2>6, <2>7
<1>5. bits \in T
  <2> HIDE DEF T
  <2>1. 0..bits \subseteq T
    BY <1>2, <1>4, UpTo
  <2> QED BY <2>1
<1>6. hash \in Bits /\ Len(hash) = bits /\ Holds(lat, g[bits].lat) /\ Holds(lon, g[bits].lon)
  BY <1>1, <1>5 DEF Encoding
<1>7. g[bits].lat \in Ranges /\ g[bits].lon \in Ranges
  BY <1>1 DEF Encoding
<1>8. Narrowed(g, bits, hash)
  <2>1. g[0].lat = G!Whole /\ g[0].lon = G!Whole
    BY <1>1 DEF EncodeStart
  <2>2. ASSUME NEW k \in 1..bits
        PROVE  /\ g[k].lat = IF G!IsLon(k) THEN g[k - 1].lat ELSE G!Half(g[k - 1].lat, hash[k])
               /\ g[k].lon = IF G!IsLon(k) THEN G!Half(g[k - 1].lon, hash[k]) ELSE g[k - 1].lon
    <3>1. k \in T
      <4> HIDE DEF T
      <4>1. 0..bits \subseteq T
        BY <1>2, <1>4, UpTo
      <4> QED BY <4>1
    <3>2. hash[k] = g[k].hash[k]
      BY <1>5
    <3>3. k - 1 \in T
      <4> HIDE DEF T
      <4>1. 0..bits \subseteq T
        BY <1>2, <1>4, UpTo
      <4> QED BY <4>1
    <3>4. Len(g[k - 1].hash) = k - 1 /\ g[k - 1] \in Encoding
      BY <1>1, <3>3
    <3>5. EncodeRoundIs(lat, lon, g[k - 1], g[k], k)
      BY <1>3
    <3> HIDE DEF hash
    <3> QED BY <3>2, <3>4, <3>5 DEF EncodeRoundIs
  <2> HIDE DEF hash
  <2> QED BY <2>1, <2>2 DEF Narrowed
<1> HIDE DEF hash, T
<1>9. /\ \E w \in Nat \ {0} : Covers(g[bits].lat, G!Cell(hash, FALSE), w)
      /\ \E w \in Nat \ {0} : Covers(g[bits].lon, G!Cell(hash, TRUE), w)
      /\ G!Cell(hash, FALSE) \in Cells /\ G!Cell(hash, TRUE) \in Cells
  BY <1>6, <1>8, NarrowedCovers
<1>10. G!InCell(lat, G!Cell(hash, FALSE)) /\ G!InCell(G!Nearest(lon), G!Cell(hash, TRUE))
  BY <1>6, <1>7, <1>9, InCellIf, InCellIfBelow
<1> QED BY <1>1, <1>6, <1>10 DEF hash

(* Decoding moves it to the middle of that cell. *)
LEMMA DecodedIn ==
  ASSUME NEW hash \in Bits, Len(hash) <= CharBits * HashSize
  PROVE  /\ G!Mid(G!Decoded(hash).lat) \in Degrees /\ G!Mid(G!Decoded(hash).lon) \in Degrees
         /\ G!InCell(G!Mid(G!Decoded(hash).lat), G!Cell(hash, FALSE))
         /\ G!InCell(G!Mid(G!Decoded(hash).lon), G!Cell(hash, TRUE))
<1>1. PICK g : /\ \A k \in 0..Len(hash) : g[k] \in Decoding
               /\ g[0] = DecodeStart /\ \A k \in 1..Len(hash) : g[k] = DecodeOn(g[k - 1], k, hash[k])
               /\ G!Decoded(hash) = g[Len(hash)]
  BY DecodedIs
<1> DEFINE n == Len(hash)
<1>2. n \in Nat /\ n \in 0..n
  BY DEF Bits
<1>3. G!Decoded(hash).lat \in Ranges /\ G!Decoded(hash).lon \in Ranges
  BY <1>1, <1>2 DEF Decoding
<1>4. Narrowed(g, n, hash)
  <2>1. g[0].lat = G!Whole /\ g[0].lon = G!Whole
    BY <1>1 DEF DecodeStart
  <2>2. ASSUME NEW k \in 1..n
        PROVE  /\ g[k].lat = IF G!IsLon(k) THEN g[k - 1].lat ELSE G!Half(g[k - 1].lat, hash[k])
               /\ g[k].lon = IF G!IsLon(k) THEN G!Half(g[k - 1].lon, hash[k]) ELSE g[k - 1].lon
    <3>1. g[k - 1] \in Decoding /\ g[k] = DecodeOn(g[k - 1], k, hash[k])
      BY <1>1, <1>2
    <3> QED BY <3>1 DEF DecodeOn, Decoding
  <2> QED BY <2>1, <2>2 DEF Narrowed
<1>5. /\ \E w \in Nat \ {0} : Covers(g[n].lat, G!Cell(hash, FALSE), w)
      /\ \E w \in Nat \ {0} : Covers(g[n].lon, G!Cell(hash, TRUE), w)
      /\ G!Cell(hash, FALSE) \in Cells /\ G!Cell(hash, TRUE) \in Cells
  BY <1>4, NarrowedCovers
<1>6. G!Mid(G!Decoded(hash).lat) \in Degrees /\ G!Mid(G!Decoded(hash).lon) \in Degrees
  BY <1>3, HalfOfRange
<1>7. Holds(G!Mid(g[n].lat), g[n].lat) /\ Holds(G!Mid(g[n].lon), g[n].lon)
  BY <1>5, MidHolds
<1> QED BY <1>1, <1>5, <1>6, <1>7, InCellIf

Pairs == {<<>>} \cup (Int \X Int)

Geos == [lat : Degrees, lon : Lons, rad : Pairs, trig : Pairs, precision : 0..HashSize,
         geohash : {hash \in Bits : \E n \in 0..HashSize : Len(hash) = CharBits * n}]

(* A position, or one whose precision has not been cut yet. *)
Drafts == [lat : Degrees, lon : Lons, rad : Pairs, trig : Pairs, precision : Nat, geohash : Bits]

OfItsCell(g) ==
  G!InCell(g.lat, G!Cell(g.geohash, FALSE)) /\ G!InCell(G!Nearest(g.lon), G!Cell(g.geohash, TRUE))

TellsChars(g) ==
  CharBits * g.precision = IF Len(g.geohash) = CharBits * HashSize THEN 0 ELSE Len(g.geohash)

(* A position just encoded. *)
Numbered(g) == g \in Geos /\ OfItsCell(g) /\ TellsChars(g)

LEMMA HashEncodeGives ==
  ASSUME NEW g \in Drafts, NEW precision \in Nat
  PROVE  /\ Numbered(G!HashEncode(g, precision))
         /\ G!HashEncode(g, precision).rad = g.rad /\ G!HashEncode(g, precision).trig = g.trig
         /\ G!HashEncode(g, precision).lat = g.lat /\ G!HashEncode(g, precision).lon = g.lon
<1> DEFINE chars == IF precision > HashSize THEN HashSize ELSE precision
<1>1. chars \in 0..HashSize /\ CharBits \in Nat \ {0} /\ HashSize \in Nat
  BY HashAssumption
<1>2. CharBits * chars \in Nat /\ CharBits * chars <= CharBits * HashSize
  <2> HIDE DEF chars
  <2> QED BY <1>1
<1> DEFINE hash == G!Encoded(g.lat, g.lon, CharBits * chars)
<1>3. /\ hash \in Bits /\ Len(hash) = CharBits * chars
      /\ G!InCell(g.lat, G!Cell(hash, FALSE)) /\ G!InCell(G!Nearest(g.lon), G!Cell(hash, TRUE))
  <2> HIDE DEF chars
  <2>1. g.lat \in Degrees /\ g.lon \in Lons
    BY DEF Drafts
  <2> QED BY <1>2, <2>1, EncodedIn
<1>4. G!HashEncode(g, precision) = [g EXCEPT !.geohash = hash,
                                             !.precision = IF chars = HashSize THEN 0 ELSE chars]
  BY DEF G!HashEncode
<1> DEFINE kept == IF chars = HashSize THEN 0 ELSE chars
<1>5. kept \in 0..HashSize
  BY <1>1
<1>6. CharBits * kept = IF Len(hash) = CharBits * HashSize THEN 0 ELSE Len(hash)
  <2> HIDE DEF chars, hash
  <2>1. CharBits * chars = CharBits * HashSize => chars = HashSize
    <3>1. CharBits * (HashSize - chars) = CharBits * HashSize - CharBits * chars
      BY <1>1
    <3>2. \A d \in Nat : CharBits * d = 0 => d = 0
      BY <1>1
    <3>3. HashSize - chars \in Nat /\ (CharBits * chars = CharBits * HashSize => CharBits * (HashSize - chars) = 0)
      BY <1>1, <1>2, <3>1
    <3>4. CharBits * chars = CharBits * HashSize => HashSize - chars = 0
      BY <3>2, <3>3
    <3> QED BY <1>1, <3>4
  <2>2. CharBits * 0 = 0
    BY <1>1
  <2> QED BY <1>3, <2>1, <2>2
<1>7. G!HashEncode(g, precision) = [lat |-> g.lat, lon |-> g.lon, rad |-> g.rad, trig |-> g.trig,
                                    precision |-> kept, geohash |-> hash]
  <2> HIDE DEF hash, kept
  <2> QED BY <1>4 DEF Drafts, kept
<1> DEFINE e == G!HashEncode(g, precision)
<1>8. /\ e.lat = g.lat /\ e.lon = g.lon /\ e.rad = g.rad /\ e.trig = g.trig
      /\ e.precision = kept /\ e.geohash = hash
  BY <1>7
<1>9. e \in Geos
  <2> HIDE DEF chars, hash, kept
  <2>1. hash \in {h \in Bits : \E n \in 0..HashSize : Len(h) = CharBits * n}
    BY <1>1, <1>3
  <2>2. g.lat \in Degrees /\ g.lon \in Lons /\ g.rad \in Pairs /\ g.trig \in Pairs
    BY DEF Drafts
  <2> QED BY <1>5, <1>7, <2>1, <2>2 DEF Geos
<1> HIDE DEF chars, hash, kept, e
<1>10. Numbered(e)
  BY <1>3, <1>6, <1>8, <1>9 DEF Numbered, OfItsCell, TellsChars
<1> QED BY <1>8, <1>10 DEF e

(* A position set: its radians, sines and cosines are its own. *)
ItsOwn(g) == g.rad = G!Radians(g.lat, g.lon) /\ g.trig = G!Trig(g.lat, g.lon)
Placed(g) == Numbered(g) /\ ItsOwn(g)

LEMMA AnglesAre ==
  ASSUME NEW lat \in Degrees, NEW lon \in Lons
  PROVE  G!Radians(lat, lon) \in Int \X Int /\ G!Trig(lat, lon) \in Int \X Int
<1>1. ASSUME NEW x \in Int PROVE G!OfRadians(x) \in Int /\ Degree * x \in Int
  BY HashAssumption DEF G!OfRadians
<1>2. G!Angle(lat) \in Int /\ G!Angle(lon) \in Int
  BY HashAssumption DEF G!Angle, Degrees, Lons
<1> QED BY <1>1, <1>2 DEF G!Radians, G!Trig

LEMMA SetWGS84Gives ==
  ASSUME NEW g \in Drafts, NEW lat \in Degrees, NEW lon \in Lons, NEW precision \in Nat
  PROVE  /\ Placed(G!SetWGS84(g, lat, lon, precision))
         /\ G!SetWGS84(g, lat, lon, precision).lon = lon
<1> DEFINE r == G!Radians(lat, lon)
           t == G!Trig(lat, lon)
           draft == [G!Moved(g, lat, lon) EXCEPT !.rad = r, !.trig = t]
<1>1. r \in Pairs /\ t \in Pairs
  BY AnglesAre DEF Pairs
<1>2. G!SetWGS84(g, lat, lon, precision) = G!HashEncode(draft, precision)
  BY DEF G!SetWGS84
<1>3. draft \in Drafts /\ draft.lat = lat /\ draft.lon = lon /\ draft.rad = r /\ draft.trig = t
  <2> HIDE DEF r, t
  <2> QED BY <1>1 DEF Drafts, G!Moved
<1> HIDE DEF draft
<1>4. /\ Numbered(G!HashEncode(draft, precision))
      /\ G!HashEncode(draft, precision).rad = r /\ G!HashEncode(draft, precision).trig = t
      /\ G!HashEncode(draft, precision).lat = lat /\ G!HashEncode(draft, precision).lon = lon
  BY <1>3, HashEncodeGives
<1> QED BY <1>2, <1>4 DEF Placed, ItsOwn

LEMMA DraftsAre ==
  /\ Geos \subseteq Drafts /\ Coords \subseteq Degrees /\ Degrees \subseteq Lons
  /\ \A lat \in Degrees, lon \in Lons, precision \in Nat : G!NewGeo(lat, lon, precision) \in Drafts
BY HashAssumption DEF Geos, Drafts, Degrees, Lons, Pairs, Bits, G!NewGeo

(* The remainder of a turn, and where its sign is from. *)
LEMMA FmodIs ==
  ASSUME NEW x \in Int
  PROVE  G!Fmod(x) \in Lons /\ (G!Fmod(x) < 0 => x < 0)
<1>1. Scale \in Nat \ {0}
  BY HashAssumption
<1>2. CASE x >= 0
  <2>1. x % Scale \in 0..(Scale - 1) /\ G!Fmod(x) = x % Scale
    BY <1>1, <1>2 DEF G!Fmod
  <2> QED BY <1>1, <2>1 DEF Lons
<1>3. CASE ~ (x >= 0)
  <2>1. (-x) % Scale \in 0..(Scale - 1) /\ G!Fmod(x) = -((-x) % Scale)
    BY <1>1, <1>3 DEF G!Fmod
  <2> QED BY <1>1, <1>3, <2>1 DEF Lons
<1> QED BY <1>2, <1>3

(* A position is in the cell its geohash numbers, whatever it was set by;      *)
(* below -180 degrees it is only when lon_rad was negative.                  *)
GeoInv ==
  geo = G!NoGeo \/ /\ geo \in Geos /\ OfItsCell(geo) /\ geo.rad \in Int \X Int
                   /\ geo.lon < 0 => source[1] = "west"
                   /\ source[2] = "encoded" => TellsChars(geo)
                   /\ source[1] # "hash" => ItsOwn(geo)

LEMMA GeoInvNext ==
  ASSUME GeoInv, G!GeoNext
  PROVE  GeoInv'
<1>1. ASSUME NEW g \in Drafts, NEW new \in G!Tokyo2WGS84(g)
      PROVE  Placed(new) /\ (new.lon < 0 => g.lon < 0)
  <2>1. PICK lat \in Coords, lon \in Coords \cup {x \in {g.lon} : x < 0} :
          new = G!SetWGS84(g, lat, lon, g.precision)
    BY <1>1 DEF G!Tokyo2WGS84
  <2>2. lat \in Degrees /\ lon \in Lons /\ g.precision \in Nat /\ (lon < 0 => g.lon < 0)
    <3>1. g.lon \in Lons /\ g.precision \in Nat
      BY DEF Drafts
    <3>2. lat \in Degrees /\ (lon \in Coords \/ (lon = g.lon /\ lon < 0))
      BY DraftsAre
    <3>3. lon \in Coords => lon \in Lons /\ ~ (lon < 0)
      BY HashAssumption, DraftsAre
    <3> QED BY <3>1, <3>2, <3>3
  <2> QED BY <2>1, <2>2, SetWGS84Gives
<1>9. ASSUME Placed(geo')
      PROVE  /\ geo' \in Geos /\ OfItsCell(geo') /\ TellsChars(geo') /\ ItsOwn(geo')
             /\ geo'.rad \in Int \X Int
  <2>1. geo' \in Geos /\ OfItsCell(geo') /\ TellsChars(geo') /\ ItsOwn(geo')
    BY <1>9 DEF Placed, Numbered
  <2>2. geo'.lat \in Degrees /\ geo'.lon \in Lons
    BY <2>1 DEF Geos
  <2> QED BY <2>1, <2>2, AnglesAre DEF ItsOwn
<1>2. 0..(HashSize + 1) \subseteq Nat
  BY HashAssumption
<1>3. Placed(geo') /\ (geo'.lon < 0 => source'[1] = "west") => GeoInv'
  BY <1>9 DEF GeoInv, OfItsCell, TellsChars, ItsOwn
<1>10. \A x \in Coords : ~ (x < 0)
  BY HashAssumption
<1>4. CASE G!Create
  <2>1. PICK lat \in Coords, lon \in Coords, precision \in 0..(HashSize + 1) :
          geo' \in {G!SetWGS84(G!NewGeo(lat, lon, precision), lat, lon, precision)}
                   \cup G!Tokyo2WGS84(G!NewGeo(lat, lon, precision))
    BY <1>4 DEF G!Create
  <2>2. lat \in Degrees /\ lon \in Lons /\ precision \in Nat /\ G!NewGeo(lat, lon, precision) \in Drafts
    BY <1>2, DraftsAre
  <2>3. G!NewGeo(lat, lon, precision).lon = lon
    BY DEF G!NewGeo
  <2> QED BY <1>1, <1>3, <1>10, <2>1, <2>2, <2>3, SetWGS84Gives
<1>5. CASE G!SetLatLon
  <2>1. PICK lat \in Coords, lon \in Coords, precision \in 0..(HashSize + 1) :
          geo' \in {G!SetWGS84(geo, lat, lon, precision)} \cup G!Tokyo2WGS84(G!Moved(geo, lat, lon))
    BY <1>5 DEF G!SetLatLon
  <2>2. lat \in Degrees /\ lon \in Lons /\ precision \in Nat
    BY <1>2, DraftsAre
  <2>3. geo \in Drafts
    BY <1>5, DraftsAre DEF G!SetLatLon, GeoInv
  <2>4. G!Moved(geo, lat, lon) \in Drafts /\ G!Moved(geo, lat, lon).lon = lon
    BY <2>2, <2>3 DEF Drafts, G!Moved
  <2> QED BY <1>1, <1>3, <1>10, <2>1, <2>2, <2>3, <2>4, SetWGS84Gives
<1>6. CASE G!CreateFromOrigin
  <2>1. /\ geo \in Geos /\ geo.lat \in Degrees /\ geo.lon \in Lons /\ geo.precision \in Nat
        /\ geo.rad[2] \in Int
    BY <1>6, HashAssumption DEF G!CreateFromOrigin, Geos, GeoInv
  <2> DEFINE origin == G!SetWGS84(G!NewGeo(geo.lat, geo.lon, geo.precision), geo.lat, geo.lon, geo.precision)
  <2>2. origin \in Geos
    BY <2>1, DraftsAre, SetWGS84Gives DEF Placed, Numbered
  <2>3. PICK lat \in Coords, turn \in Coords :
          geo' = G!SetWGS84(origin, lat, G!Fmod(geo.rad[2] + turn), origin.precision)
    BY <1>6 DEF G!CreateFromOrigin
  <2>a. source' = <<IF geo.rad[2] < 0 THEN "west" ELSE "set", "encoded">>
    BY <1>6 DEF G!CreateFromOrigin
  <2> HIDE DEF origin
  <2>4. origin \in Drafts /\ origin.precision \in Nat /\ lat \in Degrees
    BY <2>2, DraftsAre DEF Drafts
  <2>5. turn \in Nat /\ geo.rad[2] + turn \in Int
    BY <2>1, HashAssumption
  <2>6. /\ G!Fmod(geo.rad[2] + turn) \in Lons
        /\ G!Fmod(geo.rad[2] + turn) < 0 => geo.rad[2] + turn < 0
    BY <2>5, FmodIs
  <2>7. geo.rad[2] + turn < 0 => geo.rad[2] < 0
    BY <2>1, <2>5
  <2>8. Placed(geo') /\ geo'.lon = G!Fmod(geo.rad[2] + turn)
    BY <2>3, <2>4, <2>6, SetWGS84Gives
  <2>9. geo'.lon < 0 => source'[1] = "west"
    BY <2>a, <2>6, <2>7, <2>8
  <2> QED BY <1>3, <2>8, <2>9
<1>11. CASE G!ToWGS84
  <2>1. geo \in Drafts /\ geo' \in G!Tokyo2WGS84(geo) /\ (geo.lon < 0 => source[1] = "west")
    BY <1>11, DraftsAre DEF G!ToWGS84, GeoInv
  <2>2. source' = <<IF source[1] = "west" THEN "west" ELSE "set", "encoded">>
    BY <1>11 DEF G!ToWGS84
  <2> QED BY <1>1, <1>3, <2>1, <2>2
<1>7. CASE G!Encode
  <2>1. /\ geo \in Drafts /\ geo.rad \in Int \X Int
        /\ (geo.lon < 0 => source[1] = "west") /\ (source[1] # "hash" => ItsOwn(geo))
    BY <1>7, DraftsAre DEF G!Encode, GeoInv
  <2>2. PICK precision \in 0..(HashSize + 1) : geo' = G!HashEncode(geo, precision)
    BY <1>7 DEF G!Encode
  <2>3. /\ Numbered(geo') /\ geo'.lat = geo.lat /\ geo'.lon = geo.lon
        /\ geo'.rad = geo.rad /\ geo'.trig = geo.trig
    BY <1>2, <2>1, <2>2, HashEncodeGives
  <2>4. source' = <<source[1], "encoded">>
    BY <1>7 DEF G!Encode
  <2>5. source'[1] # "hash" => ItsOwn(geo')
    BY <2>1, <2>3, <2>4 DEF ItsOwn
  <2>6. geo'.rad \in Int \X Int /\ (geo'.lon < 0 => source'[1] = "west")
    BY <2>1, <2>3, <2>4
  <2> QED BY <2>3, <2>5, <2>6 DEF GeoInv, Numbered, OfItsCell, TellsChars, ItsOwn
<1>8. CASE G!Decode
  <2>1. geo \in Geos /\ geo.rad \in Int \X Int /\ (source[2] = "encoded" => TellsChars(geo))
    BY <1>8 DEF G!Decode, GeoInv
  <2>2. PICK hash \in G!Hashes \cup {geo.geohash} :
          /\ geo' = G!Moved([geo EXCEPT !.geohash = hash], G!Mid(G!Decoded(hash).lat), G!Mid(G!Decoded(hash).lon))
          /\ source' = <<"hash", IF hash = geo.geohash THEN source[2] ELSE "given">>
    BY <1>8 DEF G!Decode
  <2>3. hash \in Bits /\ \E n \in 0..HashSize : Len(hash) = CharBits * n
    <3>1. CASE hash = geo.geohash
      BY <2>1, <3>1 DEF Geos
    <3>2. CASE hash \in G!Hashes
      <4>1. PICK n \in 0..(HashSize - 1) : hash \in [1..(CharBits * n) -> {0, 1}]
        BY <3>2 DEF G!Hashes
      <4>2. CharBits * n \in Nat /\ n \in 0..HashSize
        BY HashAssumption
      <4>3. hash \in Bits /\ Len(hash) = CharBits * n
        BY <4>1, <4>2 DEF Bits
      <4> QED BY <4>2, <4>3
    <3> QED BY <3>1, <3>2
  <2>4. Len(hash) <= CharBits * HashSize
    <3>1. PICK n \in 0..HashSize : Len(hash) = CharBits * n
      BY <2>3
    <3>2. CharBits * n <= CharBits * HashSize
      BY HashAssumption
    <3> QED BY <3>1, <3>2
  <2> DEFINE lat == G!Mid(G!Decoded(hash).lat)
             lon == G!Mid(G!Decoded(hash).lon)
  <2>5. /\ lat \in Degrees /\ lon \in Degrees
        /\ G!InCell(lat, G!Cell(hash, FALSE)) /\ G!InCell(lon, G!Cell(hash, TRUE))
    BY <2>3, <2>4, DecodedIn
  <2>6. geo' = G!Moved([geo EXCEPT !.geohash = hash], lat, lon)
    BY <2>2
  <2> HIDE DEF lat, lon
  <2>7. geo' = [lat |-> lat, lon |-> lon, rad |-> geo.rad, trig |-> geo.trig,
                precision |-> geo.precision, geohash |-> hash]
    BY <2>1, <2>6 DEF G!Moved, Geos
  <2>13. lon \in Lons /\ ~ (lon < 0) /\ G!Nearest(lon) = lon
    BY <2>5, DraftsAre DEF Degrees, G!Nearest
  <2>8. geo' \in Geos
    BY <2>1, <2>3, <2>5, <2>7, <2>13 DEF Geos
  <2>9. OfItsCell(geo')
    BY <2>5, <2>7, <2>13 DEF OfItsCell
  <2>14. geo'.rad \in Int \X Int /\ ~ (geo'.lon < 0)
    BY <2>1, <2>7, <2>13
  <2>10. source'[2] = "encoded" => hash = geo.geohash /\ source[2] = "encoded"
    BY <2>2
  <2>11. source'[2] = "encoded" => TellsChars(geo')
    BY <2>1, <2>7, <2>10 DEF TellsChars
  <2>12. source'[1] = "hash"
    BY <2>2
  <2> QED BY <2>8, <2>9, <2>11, <2>12, <2>14 DEF GeoInv, OfItsCell, TellsChars
<1> QED BY <1>4, <1>5, <1>6, <1>7, <1>8, <1>11 DEF G!GeoNext

GeoPartInv == part = "geo" => GeoInv

LEMMA GeoInvKept == GeoPartInv /\ [Next]_vars => GeoPartInv'
<1> SUFFICES ASSUME GeoPartInv, [Next]_vars, part' = "geo" PROVE GeoInv'
  BY DEF GeoPartInv
<1>1. part = "geo"
  BY DEF Next, Sock, Load, Cmd, Path, Alone, vars
<1>2. G!GeoNext \/ UNCHANGED <<geo, source>>
  BY DEF Next, Sock, Load, Cmd, Path, others, vars
<1>3. UNCHANGED <<geo, source>> => GeoInv'
  BY <1>1 DEF GeoPartInv, GeoInv, OfItsCell, TellsChars, ItsOwn
<1> QED BY <1>1, <1>2, <1>3, GeoInvNext DEF GeoPartInv

LEMMA GeoTypesOK ==
  ASSUME GeoInv
  PROVE  G!GeoTypeOK
BY DEF GeoInv, Geos, Degrees, Lons, G!GeoTypeOK

-----------------------------------------------------------------------------
(* Ciphers: a padded text has whole blocks, and reads as the text again. *)
LEMMA WholeBlocks ==
  ASSUME NEW n \in Nat, NEW b \in Nat \ {0}
  PROVE  (n + (b - (n % b))) % b = 0
<1> DEFINE q == n \div b
           m == n + (b - (n % b))
           p == m \div b
           r == m % b
<1>1. q \in Nat /\ n % b \in 0..(b - 1) /\ n = b * q + (n % b)
  OBVIOUS
<1>2. m \in Nat /\ m = b * q + b
  BY <1>1
<1>3. p \in Nat /\ r \in 0..(b - 1) /\ m = b * p + r
  <2> HIDE DEF m
  <2> QED BY <1>2
<1> HIDE DEF q, m, p, r
<1>4. b * (q + 1 - p) = r
  BY <1>1, <1>2, <1>3
<1>5. ASSUME NEW d \in Int, b * d \in 0..(b - 1) PROVE b * d = 0
  <2>1. CASE d >= 1
    <3>1. b * d = b + b * (d - 1) /\ b * (d - 1) >= 0
      BY <2>1
    <3> QED BY <1>5, <3>1
  <2>2. CASE d <= -1
    <3>1. b * d = b * (d + 1) - b /\ b * (d + 1) <= 0
      BY <2>2
    <3> QED BY <1>5, <3>1
  <2>3. CASE d = 0
    BY <2>3
  <2> QED BY <2>1, <2>2, <2>3
<1>6. b * (q + 1 - p) = 0
  BY <1>1, <1>3, <1>4, <1>5
<1> QED BY <1>4, <1>6 DEF r, m

TextChars == UNION {{str[n] : n \in DOMAIN str} : str \in Texts}

LEMMA TextsAre ==
  ASSUME NEW str \in Texts
  PROVE  str \in Seq(TextChars) /\ \A n \in 1..Len(str) : str[n] # Nul
<1> DEFINE Own == {str[n] : n \in DOMAIN str}
<1>1. str \in Seq(Own \ {Nul}) /\ Own \subseteq TextChars
  BY CipherAssumption DEF TextChars
<1> HIDE DEF Own
<1> QED BY <1>1

Zeroes(str) == BlockSize - (Len(str) % BlockSize)

LEMMA PaddedIs ==
  ASSUME NEW str \in Texts
  PROVE  /\ E!Padded(str) \in Seq(TextChars \cup {Nul}) /\ EndsAtNul(str, E!Padded(str))
         /\ Len(E!Padded(str)) % BlockSize = 0 /\ E!Padded(str) # <<>>
<1> DEFINE k == Zeroes(str)
           zs == [n \in 1..k |-> Nul]
           Any == TextChars \cup {Nul}
<1>1. str \in Seq(Any) /\ Len(str) \in Nat /\ \A n \in 1..Len(str) : str[n] # Nul
  BY TextsAre
<1>2. k \in Nat /\ k >= 1
  BY <1>1, CipherAssumption DEF Zeroes
<1>3. E!Padded(str) = str \o zs
  BY DEF E!Padded, Zeroes
<1> HIDE DEF k
<1>4. zs \in Seq(Any) /\ Len(zs) = k /\ zs[1] = Nul
  BY <1>2
<1> HIDE DEF zs, Any
<1>5. /\ str \o zs \in Seq(Any) /\ Len(str \o zs) = Len(str) + k
      /\ (str \o zs)[Len(str) + 1] = Nul
      /\ \A n \in 1..Len(str) : (str \o zs)[n] = str[n]
  BY <1>1, <1>2, <1>4
<1>6. EndsAtNul(str, str \o zs)
  BY <1>1, <1>2, <1>5 DEF EndsAtNul
<1>7. (Len(str) + k) % BlockSize = 0
  BY <1>1, CipherAssumption, WholeBlocks DEF k, Zeroes
<1>8. str \o zs # <<>>
  BY <1>1, <1>2, <1>5
<1> QED BY <1>3, <1>5, <1>6, <1>7, <1>8 DEF Any

LEMMA PaddedReads ==
  ASSUME NEW str \in Texts
  PROVE  E!CString(E!Padded(str)) = str
<1> DEFINE Any == TextChars \cup {Nul}
           s == E!Padded(str)
           c == UpToNul(s)
<1>1. s \in Seq(Any) /\ str \in Seq(Any) /\ EndsAtNul(str, s)
  BY PaddedIs, TextsAre
<1>2. E!CString(s) = c
  BY DEF E!CString, UpToNul
<1> HIDE DEF s
<1>3. c \in Seq(Any) /\ EndsAtNul(c, s)
  BY <1>1, StringEnds
<1>4. Begins(s, s)
  BY <1>1 DEF Begins
<1> HIDE DEF c, Any
<1>5. Begins(c, str) /\ Begins(str, c)
  BY <1>1, <1>3, <1>4, StringsBegin
<1>6. c = str
  BY <1>1, <1>3, <1>5, SameSequence DEF Begins
<1> QED BY <1>2, <1>6 DEF s

-----------------------------------------------------------------------------
(* The vectors CreateIV makes are numbered, and none comes twice. *)
MadeIV(n) == [name |-> "made", size |-> IVSize, number |-> n]
Unmade(last, iv) == \A n \in Nat : n > last => iv # MadeIV(n)

(* The context, whose ciphertext is of whole blocks, and of none in a stream   *)
(* mode. *)
CipherTypes ==
  /\ mode \in {"none", "block", "stream", "gone"} /\ crash \in {"none", "null"} /\ ivs \in 0..MaxCalls
  /\ co = [iv |-> co.iv, enc |-> co.enc, dec |-> co.dec]
  /\ Len(co.enc.data) % BlockSize = 0 /\ (mode \in {"none", "stream"} => co.enc.data = <<>>)

(* In a block mode every ciphertext of a text has the context's vector, and   *)
(* what was decrypted with it is what the blocks hold. *)
CipherInv ==
  /\ Unmade(ivs, co.iv) /\ Unmade(ivs, co.enc.iv)
  /\ mode = "none" => made = {} /\ told = <<>>
  /\ mode = "block" =>
       /\ \A m \in made : /\ co.iv.size = IVSize /\ Unmade(ivs, m.cipher.iv) /\ m.text \in Texts
                          /\ m.text # <<>> => m.cipher.iv = co.iv /\ m.cipher.data = E!Padded(m.text)
       /\ told # <<>> =>
            /\ Unmade(ivs, told[1].iv)
            /\ told[1].data # <<>> /\ told[1].clue = told[2] /\ told[1].iv = co.iv =>
                 co.dec = E!CString(told[1].data)

CipherPartInv == part = "cipher" => CipherTypes /\ CipherInv

LEMMA GivenUnmade ==
  ASSUME NEW iv \in GivenIVs \cup {E!NoIV}
  PROVE  Unmade(ivs, iv)
<1>1. CASE iv = E!NoIV
  BY <1>1 DEF Unmade, MadeIV, E!NoIV
<1> SUFFICES ASSUME iv \in [name : STRING, size : Nat] PROVE Unmade(ivs, iv)
  BY <1>1, CipherAssumption
<1>2. DOMAIN iv = {"name", "size"}
  OBVIOUS
<1>3. \A n : DOMAIN MadeIV(n) = {"name", "size", "number"}
  BY DEF MadeIV
<1>4. {"name", "size"} # {"name", "size", "number"}
  OBVIOUS
<1> QED BY <1>2, <1>3, <1>4, Zenon DEF Unmade

LEMMA CipherInitial ==
  ASSUME Init, part = "cipher"
  PROVE  CipherTypes /\ CipherInv
<1>1. /\ mode = "none" /\ co = [iv |-> E!NoIV, enc |-> E!Empty, dec |-> <<>>]
      /\ ivs = 0 /\ made = {} /\ told = <<>> /\ crash = "none"
  BY DEF Init, E!CipherStart
<1>2. co.iv = E!NoIV /\ co.enc = E!Empty /\ co.dec = <<>> /\ co.enc.data = <<>> /\ co.enc.iv = E!NoIV
  BY <1>1 DEF E!Empty
<1>3. 0 % BlockSize = 0
  BY CipherAssumption
<1>4. CipherTypes
  BY <1>1, <1>2, <1>3, BoundsAssumption DEF CipherTypes
<1>5. Unmade(ivs, E!NoIV)
  BY GivenUnmade
<1> QED BY <1>1, <1>2, <1>4, <1>5 DEF CipherInv

LEMMA CipherInitKeeps ==
  ASSUME CipherTypes, CipherInv, E!CipherInit
  PROVE  CipherTypes' /\ CipherInv'
<1>1. mode = "none" /\ UNCHANGED <<ivs, made, told, crash>> /\ mode' \in {"gone", "block", "stream"}
  BY DEF E!CipherInit
<1>2. made = {} /\ told = <<>> /\ co.enc.data = <<>>
  BY <1>1 DEF CipherInv, CipherTypes
<1>3. co' = co \/ \E iv \in GivenIVs \cup {E!NoIV} : co' = [co EXCEPT !.iv = iv]
  BY DEF E!CipherInit
<1>4. /\ co' = [iv |-> co'.iv, enc |-> co'.enc, dec |-> co'.dec]
      /\ co'.enc = co.enc /\ (co'.iv = co.iv \/ co'.iv \in GivenIVs \cup {E!NoIV})
  BY <1>3 DEF CipherTypes
<1>5. CipherTypes'
  BY <1>1, <1>2, <1>4 DEF CipherTypes
<1>6. Unmade(ivs', co'.iv) /\ Unmade(ivs', co'.enc.iv)
  BY <1>1, <1>4, GivenUnmade DEF Unmade, CipherInv
<1> QED BY <1>1, <1>2, <1>5, <1>6 DEF CipherInv

LEMMA SetIVKeeps ==
  ASSUME CipherTypes, CipherInv, NEW iv \in GivenIVs \cup {E!NoIV}, E!SetIV(iv)
  PROVE  CipherTypes' /\ CipherInv'
<1>1. /\ UNCHANGED <<mode, ivs, crash>> /\ made' = {} /\ told' = <<>> /\ mode \in {"block", "stream"}
      /\ co' = [co EXCEPT !.iv = iv]
  BY DEF E!SetIV, E!Up
<1>2. co' = [iv |-> iv, enc |-> co.enc, dec |-> co.dec]
  BY <1>1 DEF CipherTypes
<1>3. co'.iv = iv /\ co'.enc = co.enc /\ co' = [iv |-> co'.iv, enc |-> co'.enc, dec |-> co'.dec]
  BY <1>2
<1>4. CipherTypes'
  BY <1>1, <1>3 DEF CipherTypes
<1>5. Unmade(ivs', co'.iv) /\ Unmade(ivs', co'.enc.iv)
  BY <1>1, <1>3, GivenUnmade DEF Unmade, CipherInv
<1> QED BY <1>1, <1>4, <1>5 DEF CipherInv

LEMMA DecryptKeeps ==
  ASSUME CipherTypes, CipherInv, NEW clue, NEW cipher \in {m.cipher : m \in made} \cup {co.enc},
         E!Decrypt(cipher, clue)
  PROVE  CipherTypes' /\ CipherInv'
<1>1. UNCHANGED <<mode, ivs, made, crash>> /\ mode \in {"block", "stream"}
  BY DEF E!Decrypt, E!Up
<1> DEFINE dec == IF /\ cipher.data # <<>> /\ cipher.clue = clue /\ cipher.iv = co.iv
                  THEN E!CString(cipher.data) ELSE <<Stray>>
<1>2. (co' = [co EXCEPT !.dec = dec] /\ told' = <<cipher, clue>>) \/ (told' = <<>> /\ co' = co)
  BY DEF E!Decrypt
<1>3. dec = E!CString(cipher.data) \/ ~ (cipher.data # <<>> /\ cipher.clue = clue /\ cipher.iv = co.iv)
  OBVIOUS
<1> HIDE DEF dec
<1>4. /\ co' = [iv |-> co'.iv, enc |-> co'.enc, dec |-> co'.dec]
      /\ co'.enc = co.enc /\ co'.iv = co.iv /\ (told' = <<>> \/ (told' = <<cipher, clue>> /\ co'.dec = dec))
  BY <1>2 DEF CipherTypes
<1>5. CipherTypes'
  BY <1>1, <1>4 DEF CipherTypes
<1>6. \A iv : Unmade(ivs', iv) <=> Unmade(ivs, iv)
  BY <1>1 DEF Unmade
<1>7. mode = "block" => Unmade(ivs, cipher.iv)
  BY DEF CipherInv
<1>8. Unmade(ivs', co'.iv) /\ Unmade(ivs', co'.enc.iv)
  BY <1>4, <1>6 DEF CipherInv
<1>9. told' # <<>> => told'[1] = cipher /\ told'[2] = clue /\ co'.dec = dec
  BY <1>4
<1>10. mode = "block" /\ told' # <<>> =>
         /\ Unmade(ivs', told'[1].iv)
         /\ told'[1].data # <<>> /\ told'[1].clue = told'[2] /\ told'[1].iv = co'.iv =>
              co'.dec = E!CString(told'[1].data)
  BY <1>3, <1>4, <1>6, <1>7, <1>9
<1>11. mode = "block" =>
         \A m \in made : /\ co'.iv.size = IVSize /\ Unmade(ivs', m.cipher.iv) /\ m.text \in Texts
                         /\ m.text # <<>> => m.cipher.iv = co'.iv /\ m.cipher.data = E!Padded(m.text)
  BY <1>4, <1>6 DEF CipherInv
<1> QED BY <1>1, <1>5, <1>8, <1>10, <1>11 DEF CipherInv

(* Whatever kahanaCipherEncrypt does, its vector is the context's already or   *)
(* the first one of its number. *)
LEMMA IVForIs ==
  ASSUME CipherTypes, CipherInv, co.iv.size \in {0, IVSize},
         ivs' = IF E!IVFor = co.iv THEN ivs ELSE ivs + 1
  PROVE  /\ E!IVFor.size = IVSize /\ Unmade(ivs', E!IVFor)
         /\ \A iv : Unmade(ivs, iv) => Unmade(ivs', iv)
         /\ co.iv.size = IVSize => E!IVFor = co.iv
         /\ co.iv.size # IVSize => ~ Unmade(ivs, E!IVFor) /\ ivs' = ivs + 1
<1>1. ivs \in Nat /\ IVSize # 0
  BY CipherAssumption, BoundsAssumption DEF CipherTypes
<1>2. CASE co.iv.size = 0
  <2>1. E!IVFor = MadeIV(ivs + 1)
    BY <1>2 DEF E!IVFor, MadeIV
  <2>2. E!IVFor # co.iv
    BY <1>1, <2>1 DEF CipherInv, Unmade
  <2>3. ivs' = ivs + 1 /\ ~ Unmade(ivs, E!IVFor)
    BY <1>1, <2>1, <2>2 DEF Unmade
  <2>4. \A n \in Nat : n > ivs + 1 => MadeIV(ivs + 1) # MadeIV(n)
    <3>1. \A n : MadeIV(n).number = n
      BY DEF MadeIV
    <3> QED BY <1>1, <3>1
  <2>5. E!IVFor.size = IVSize
    BY <2>1 DEF MadeIV
  <2>6. Unmade(ivs', E!IVFor)
    BY <2>1, <2>3, <2>4 DEF Unmade, MadeIV, E!IVFor
  <2>7. \A iv : Unmade(ivs, iv) => Unmade(ivs', iv)
    BY <1>1, <2>3 DEF Unmade
  <2> QED BY <1>1, <1>2, <2>3, <2>5, <2>6, <2>7
<1>3. CASE co.iv.size # 0
  <2>1. E!IVFor = co.iv /\ ivs' = ivs /\ co.iv.size = IVSize
    BY <1>3 DEF E!IVFor
  <2> QED BY <1>1, <2>1 DEF CipherInv, Unmade
<1> QED BY <1>2, <1>3

(* What a refused text leaves has the vector and the length it would have had. *)
LEMMA GarbledIs ==
  ASSUME NEW cipher, cipher = [clue |-> cipher.clue, iv |-> cipher.iv, data |-> cipher.data],
         NEW Chars, cipher.data \in Seq(Chars)
  PROVE  /\ E!Garbled(cipher).iv = cipher.iv /\ Len(E!Garbled(cipher).data) = Len(cipher.data)
         /\ cipher.data = <<>> => E!Garbled(cipher).data = <<>>
<1> DEFINE k == Len(cipher.data)
           strays == [n \in 1..k |-> Stray]
<1>1. DOMAIN cipher.data = 1..k /\ k \in Nat
  OBVIOUS
<1>2. E!Garbled(cipher) = [clue |-> cipher.clue, iv |-> cipher.iv, data |-> strays]
  <2>1. E!Garbled(cipher) = [cipher EXCEPT !.data = [n \in DOMAIN cipher.data |-> Stray]]
    BY DEF E!Garbled
  <2>2. [n \in DOMAIN cipher.data |-> Stray] = strays
    BY <1>1
  <2> HIDE DEF strays
  <2> QED BY <2>1, <2>2
<1>3. cipher.data = <<>> => k = 0
  OBVIOUS
<1> HIDE DEF k
<1>4. strays \in Seq({Stray}) /\ Len(strays) = k
  BY <1>1
<1>5. k = 0 => strays = <<>>
  BY <1>4
<1> HIDE DEF strays
<1> QED BY <1>2, <1>3, <1>4, <1>5 DEF k

LEMMA EncryptKeeps ==
  ASSUME CipherTypes, CipherInv, NEW str \in Texts, NEW clue, E!Encrypt(str, clue)
  PROVE  CipherTypes' /\ CipherInv'
<1>0. mode \in {"block", "stream"} /\ UNCHANGED <<mode, told>> /\ ivs \in 0..MaxCalls /\ ivs < MaxCalls
  BY DEF E!Encrypt, E!Up, CipherTypes
<1>1. CASE UNCHANGED <<co, ivs, made, crash>>
  BY <1>0, <1>1 DEF CipherTypes, CipherInv, Unmade
<1>2. CASE ~ UNCHANGED <<co, ivs, made, crash>>
  <2> DEFINE iv == E!IVFor
             cipher == E!Encrypted(str, clue)
             garbled == E!Garbled(cipher)
  <2>1. co.iv.size \in {0, IVSize} /\ ivs' = IF E!IVFor = co.iv THEN ivs ELSE ivs + 1
    BY <1>2 DEF E!Encrypt
  <2>2. /\ iv.size = IVSize /\ Unmade(ivs', iv) /\ (co.iv.size = IVSize => iv = co.iv)
        /\ \A other : Unmade(ivs, other) => Unmade(ivs', other)
        /\ co.iv.size # IVSize => ~ Unmade(ivs, iv)
    BY <2>1, IVForIs
  <2>3. ivs' \in 0..MaxCalls
    BY <1>0, <2>1, BoundsAssumption
  <2>4. \/ co' = [co EXCEPT !.iv = iv] /\ made' = made /\ crash' \in {crash, "null"}
        \/ /\ mode = "stream" \/ str = <<>> \/ Len(str) % BlockSize # 0
           /\ co' = [co EXCEPT !.iv = iv, !.enc = cipher]
           /\ made' = made \cup {[cipher |-> cipher, text |-> str]} /\ crash' = crash
        \/ co' = [co EXCEPT !.iv = iv, !.enc = garbled] /\ made' = made /\ crash' = crash
    BY <1>2 DEF E!Encrypt
  <2>5. \/ cipher = E!Empty /\ (mode = "block" => Len(str) % BlockSize = 0)
        \/ mode = "block" /\ cipher = [clue |-> clue, iv |-> iv, data |-> E!Padded(str)]
    BY <1>0 DEF E!Encrypted
  <2> HIDE DEF iv, cipher, garbled
  <2>6. Unmade(ivs', E!NoIV)
    BY GivenUnmade, <2>2
  <2>7. /\ Unmade(ivs', cipher.iv) /\ Len(cipher.data) % BlockSize = 0
        /\ mode = "stream" => cipher.data = <<>>
        /\ mode = "block" /\ Len(str) % BlockSize # 0 => cipher.iv = iv /\ cipher.data = E!Padded(str)
        /\ garbled.iv = cipher.iv /\ Len(garbled.data) = Len(cipher.data)
        /\ mode = "stream" => garbled.data = <<>>
    <3>1. CASE cipher = E!Empty /\ (mode = "block" => Len(str) % BlockSize = 0)
      <4>1. cipher.iv = E!NoIV /\ cipher.data = <<>>
        BY <3>1 DEF E!Empty
      <4>2. Len(cipher.data) % BlockSize = 0
        BY <4>1, CipherAssumption
      <4>3. Unmade(ivs', cipher.iv)
        BY <2>6, <4>1, Zenon DEF Unmade, MadeIV
      <4>4. garbled.iv = cipher.iv /\ Len(garbled.data) = Len(cipher.data) /\ garbled.data = <<>>
        <5>1. cipher = [clue |-> cipher.clue, iv |-> cipher.iv, data |-> cipher.data]
          BY <3>1 DEF E!Empty
        <5>2. cipher.data \in Seq({Nul})
          BY <4>1
        <5>3. E!Garbled(cipher).iv = cipher.iv /\ Len(E!Garbled(cipher).data) = Len(cipher.data)
              /\ E!Garbled(cipher).data = <<>>
          BY <4>1, <5>1, <5>2, GarbledIs
        <5> QED BY <5>3 DEF garbled
      <4> QED BY <3>1, <4>1, <4>2, <4>3, <4>4
    <3>2. CASE mode = "block" /\ cipher = [clue |-> clue, iv |-> iv, data |-> E!Padded(str)]
      <4>1. cipher.iv = iv /\ cipher.data = E!Padded(str)
        BY <3>2
      <4>2. garbled.iv = cipher.iv /\ Len(garbled.data) = Len(cipher.data)
        <5>1. cipher = [clue |-> cipher.clue, iv |-> cipher.iv, data |-> cipher.data]
          BY <3>2
        <5>2. cipher.data \in Seq(TextChars \cup {Nul})
          BY <4>1, PaddedIs
        <5>3. E!Garbled(cipher).iv = cipher.iv /\ Len(E!Garbled(cipher).data) = Len(cipher.data)
          BY <5>1, <5>2, GarbledIs
        <5> QED BY <5>3 DEF garbled
      <4> QED BY <2>2, <3>2, <4>1, <4>2, PaddedIs
    <3> QED BY <2>5, <3>1, <3>2
  <2>8. /\ co' = [iv |-> co'.iv, enc |-> co'.enc, dec |-> co'.dec]
        /\ co'.iv = iv /\ co'.dec = co.dec /\ co'.enc \in {co.enc, cipher, garbled}
    <3>1. \/ co' = [co EXCEPT !.iv = iv]
          \/ co' = [co EXCEPT !.iv = iv, !.enc = cipher]
          \/ co' = [co EXCEPT !.iv = iv, !.enc = garbled]
      BY <2>4
    <3>2. co = [iv |-> co.iv, enc |-> co.enc, dec |-> co.dec]
      BY DEF CipherTypes
    <3>3. \/ co' = [iv |-> iv, enc |-> co.enc, dec |-> co.dec]
          \/ co' = [iv |-> iv, enc |-> cipher, dec |-> co.dec]
          \/ co' = [iv |-> iv, enc |-> garbled, dec |-> co.dec]
      BY <3>1, <3>2
    <3> QED BY <3>3
  <2>9. CipherTypes'
    <3>1. Len(co'.enc.data) % BlockSize = 0 /\ (mode = "stream" => co'.enc.data = <<>>)
      BY <2>7, <2>8 DEF CipherTypes
    <3>2. crash' \in {"none", "null"}
      BY <2>4 DEF CipherTypes
    <3> QED BY <1>0, <2>3, <2>8, <3>1, <3>2 DEF CipherTypes
  <2>10. Unmade(ivs', co'.iv) /\ Unmade(ivs', co'.enc.iv)
    BY <2>2, <2>7, <2>8 DEF CipherInv
  <2>11. ASSUME mode = "block", NEW m \in made'
         PROVE  /\ iv.size = IVSize /\ Unmade(ivs', m.cipher.iv) /\ m.text \in Texts
                /\ m.text # <<>> => m.cipher.iv = iv /\ m.cipher.data = E!Padded(m.text)
    <3>1. CASE m \in made
      <4>1. /\ co.iv.size = IVSize /\ Unmade(ivs, m.cipher.iv) /\ m.text \in Texts
            /\ m.text # <<>> => m.cipher.iv = co.iv /\ m.cipher.data = E!Padded(m.text)
        BY <2>11, <3>1 DEF CipherInv
      <4> QED BY <2>2, <4>1
    <3>2. CASE m \notin made
      <4>1. m.cipher = cipher /\ m.text = str /\ (str = <<>> \/ Len(str) % BlockSize # 0)
        BY <1>0, <2>4, <2>11, <3>2
      <4> QED BY <2>2, <2>7, <2>11, <4>1
    <3> QED BY <3>1, <3>2
  <2>12. ASSUME mode = "block", told # <<>>
         PROVE  /\ Unmade(ivs', told[1].iv)
                /\ told[1].data # <<>> /\ told[1].clue = told[2] /\ told[1].iv = iv =>
                     co'.dec = E!CString(told[1].data)
    <3>1. /\ Unmade(ivs, told[1].iv)
          /\ told[1].data # <<>> /\ told[1].clue = told[2] /\ told[1].iv = co.iv =>
               co.dec = E!CString(told[1].data)
      BY <2>12 DEF CipherInv
    <3>2. told[1].iv = iv => iv = co.iv
      BY <2>2, <3>1
    <3> QED BY <2>2, <2>8, <3>1, <3>2
  <2> QED BY <1>0, <2>8, <2>9, <2>10, <2>11, <2>12 DEF CipherInv
<1> QED BY <1>1, <1>2

LEMMA CipherKeeps == CipherPartInv /\ [Next]_vars => CipherPartInv'
<1> SUFFICES ASSUME CipherPartInv, [Next]_vars, part' = "cipher" PROVE CipherTypes' /\ CipherInv'
  BY DEF CipherPartInv
<1>1. part = "cipher"
  BY DEF Next, Sock, Load, Cmd, Path, Alone, vars
<1>2. CipherTypes /\ CipherInv
  BY <1>1 DEF CipherPartInv
<1>3. CASE UNCHANGED <<mode, co, ivs, made, told, crash>>
  BY <1>2, <1>3 DEF CipherTypes, CipherInv, Unmade
<1>4. CASE E!Destroy
  BY <1>2, <1>4 DEF CipherTypes, CipherInv, Unmade, E!Destroy
<1>5. CASE E!CipherNext
  BY <1>2, <1>4, <1>5, CipherInitKeeps, SetIVKeeps, EncryptKeeps, DecryptKeeps DEF E!CipherNext
<1>6. E!CipherNext \/ UNCHANGED <<mode, co, ivs, made, told, crash>>
  BY <1>1 DEF Next, Sock, Load, Cmd, Path, others, vars
<1> QED BY <1>3, <1>5, <1>6

(* In a block mode and with its key, every ciphertext a context has made since *)
(* its vector was last set reads as its text again, however many were made    *)
(* after it, unless the text was empty.                                      *)
LEMMA CipherReadsBack ==
  ASSUME CipherTypes, CipherInv
  PROVE  E!DecryptsBack
<1> SUFFICES ASSUME mode = "block", told # <<>>,
                    NEW m \in made, m.cipher = told[1], m.text # <<>>, told[1].clue = told[2]
             PROVE  co.dec = m.text
  BY DEF E!DecryptsBack
<1>1. m.text \in Texts /\ told[1].iv = co.iv /\ told[1].data = E!Padded(m.text)
  BY DEF CipherInv
<1>2. E!Padded(m.text) # <<>> /\ E!CString(E!Padded(m.text)) = m.text
  BY <1>1, PaddedIs, PaddedReads
<1>3. co.dec = E!CString(told[1].data)
  BY <1>1, <1>2 DEF CipherInv
<1> QED BY <1>1, <1>2, <1>3

-----------------------------------------------------------------------------
(* Address ranges: the bytes of an address and of its reverse. *)
(* What byte k weighs. *)
Base == 2 ^ ByteBits
Weight(k) == 2 ^ (ByteBits * k)

LEMMA Weights ==
  /\ Base \in Nat \ {0} /\ Weight(0) = 1 /\ 2 ^ N!Width = Weight(Bytes)
  /\ \A k \in Nat : Weight(k) \in Nat \ {0} /\ Weight(k + 1) = Weight(k) * Base
  /\ \A k, j \in Nat : Weight(k + j) = Weight(k) * Weight(j)
<1>1. ByteBits \in Nat /\ Bytes \in Nat
  BY BytesAssumption
<1>2. Base \in Nat \ {0}
  BY <1>1, PowerIs DEF Base
<1>3. Weight(0) = 1 /\ 2 ^ N!Width = Weight(Bytes)
  <2>1. ByteBits * 0 = 0
    BY <1>1
  <2> QED BY <2>1, PowerIs DEF Weight, N!Width
<1>4. ASSUME NEW k \in Nat PROVE Weight(k) \in Nat \ {0} /\ Weight(k + 1) = Weight(k) * Base
  <2>1. ByteBits * k \in Nat /\ ByteBits * (k + 1) = ByteBits * k + ByteBits
    BY <1>1
  <2> QED BY <1>1, <2>1, PowerIs, PowerOfSum DEF Weight, Base
<1>5. ASSUME NEW k \in Nat, NEW j \in Nat PROVE Weight(k + j) = Weight(k) * Weight(j)
  <2>1. ByteBits * k \in Nat /\ ByteBits * j \in Nat /\ ByteBits * (k + j) = ByteBits * k + ByteBits * j
    BY <1>1
  <2> QED BY <2>1, PowerOfSum DEF Weight
<1> QED BY <1>2, <1>3, <1>4, <1>5

Words == 0..(Weight(Bytes) - 1)

LEMMA WordsAre == N!Addresses = Words /\ N!AllOnes = Weight(Bytes) - 1 /\ N!AllOnes \in Words
<1>1. 2 ^ N!Width = Weight(Bytes) /\ Weight(Bytes) \in Nat \ {0}
  BY Weights, BytesAssumption
<1> QED BY <1>1 DEF N!Addresses, N!AllOnes, Words

LEMMA ByteIs ==
  ASSUME NEW a \in Nat, NEW k \in Nat
  PROVE  /\ N!Byte(a, k) = (a \div Weight(k)) % Base /\ N!Byte(a, k) \in 0..(Base - 1)
         /\ a % Weight(k + 1) = (a % Weight(k)) + Weight(k) * N!Byte(a, k)
<1> DEFINE w == Weight(k)
           q == a \div w
           u == q \div Base
           v == q % Base
           r == a % w
<1>1. w \in Nat \ {0} /\ Base \in Nat \ {0} /\ Weight(k + 1) = w * Base
  BY Weights
<1>2. N!Byte(a, k) = v
  BY DEF N!Byte, Weight, Base
<1> HIDE DEF w
<1>3. q \in Nat /\ r \in 0..(w - 1) /\ a = w * q + r
  BY <1>1, Divided
<1> HIDE DEF q, r
<1>4. u \in Nat /\ v \in 0..(Base - 1) /\ q = Base * u + v
  BY <1>1, <1>3, Divided
<1> HIDE DEF u, v
<1>5. w * (Base * u + v) = (w * Base) * u + w * v /\ w * v \in Nat
  BY <1>1, <1>4
<1>6. w * v + r < w * Base
  <2>1. PICK d \in Nat : Base = v + 1 + d
    <3>1. Base - v - 1 \in Nat /\ Base = v + 1 + (Base - v - 1)
      BY <1>1, <1>4
    <3> QED BY <3>1
  <2>2. w * (v + 1 + d) = w * v + w + w * d /\ w * d \in Nat
    BY <1>1, <1>4
  <2> QED BY <1>1, <1>3, <1>5, <2>1, <2>2
<1>7. a = (w * Base) * u + (w * v + r) /\ w * v + r \in Nat /\ w * Base \in Nat \ {0}
  BY <1>1, <1>3, <1>4, <1>5
<1>8. a % (w * Base) = w * v + r
  BY <1>4, <1>6, <1>7, Divided
<1>9. w * v + r = r + w * v
  BY <1>3, <1>5
<1> QED BY <1>1, <1>2, <1>4, <1>8, <1>9 DEF q, r, v, w

LEMMA SameBytes ==
  ASSUME NEW a \in Words, NEW b \in Words, \A k \in 0..(Bytes - 1) : N!Byte(a, k) = N!Byte(b, k)
  PROVE  a = b
<1> DEFINE T == {k \in 0..Bytes : a % Weight(k) = b % Weight(k)}
<1>1. Bytes \in Nat /\ a \in Nat /\ b \in Nat /\ Weight(Bytes) \in Nat \ {0}
  BY BytesAssumption, Weights DEF Words
<1>2. 0 \in T
  <2>1. a % 1 = 0 /\ b % 1 = 0
    BY <1>1
  <2> QED BY <1>1, <2>1, Weights
<1>3. ASSUME NEW k \in 1..Bytes, k - 1 \in T PROVE k \in T
  <2>1. k - 1 \in Nat /\ k - 1 + 1 = k /\ k - 1 \in 0..(Bytes - 1) /\ k \in 0..Bytes
    BY <1>1
  <2>2. /\ a % Weight(k - 1 + 1) = (a % Weight(k - 1)) + Weight(k - 1) * N!Byte(a, k - 1)
        /\ b % Weight(k - 1 + 1) = (b % Weight(k - 1)) + Weight(k - 1) * N!Byte(b, k - 1)
    BY <1>1, <2>1, ByteIs
  <2> QED BY <1>3, <2>1, <2>2
<1> HIDE DEF T
<1>4. 0..Bytes \subseteq T
  BY <1>1, <1>2, <1>3, UpTo
<1>5. a % Weight(Bytes) = b % Weight(Bytes)
  BY <1>1, <1>4 DEF T
<1>6. a % Weight(Bytes) = a /\ b % Weight(Bytes) = b
  BY <1>1 DEF Words
<1> QED BY <1>5, <1>6

LEMMA AddByte ==
  ASSUME NEW a \in Nat, NEW b \in Nat, NEW k \in Nat, (a % Weight(k)) + (b % Weight(k)) < Weight(k),
         N!Byte(a, k) + N!Byte(b, k) < Base
  PROVE  /\ N!Byte(a + b, k) = N!Byte(a, k) + N!Byte(b, k)
         /\ (a % Weight(k + 1)) + (b % Weight(k + 1)) < Weight(k + 1)
<1> DEFINE w == Weight(k)
           qa == a \div w
           qb == b \div w
           va == N!Byte(a, k)
           vb == N!Byte(b, k)
           ra == a % w
           rb == b % w
<1>1. w \in Nat \ {0} /\ Base \in Nat \ {0} /\ Weight(k + 1) = w * Base
  BY Weights
<1>2. /\ va = qa % Base /\ va \in 0..(Base - 1) /\ a % Weight(k + 1) = ra + w * va
      /\ vb = qb % Base /\ vb \in 0..(Base - 1) /\ b % Weight(k + 1) = rb + w * vb
      /\ N!Byte(a + b, k) = ((a + b) \div w) % Base
  <2>1. va = qa % Base /\ va \in 0..(Base - 1) /\ a % Weight(k + 1) = ra + w * va
    BY ByteIs
  <2>2. vb = qb % Base /\ vb \in 0..(Base - 1) /\ b % Weight(k + 1) = rb + w * vb
    BY ByteIs
  <2>3. N!Byte(a + b, k) = ((a + b) \div w) % Base
    BY DEF N!Byte, Weight, Base
  <2> QED BY <2>1, <2>2, <2>3
<1> HIDE DEF w, va, vb
<1>3. /\ qa \in Nat /\ ra \in 0..(w - 1) /\ a = w * qa + ra
      /\ qb \in Nat /\ rb \in 0..(w - 1) /\ b = w * qb + rb
  BY <1>1, Divided
<1>4. ra + rb < w /\ va + vb < Base
  BY DEF w, va, vb
<1> HIDE DEF qa, qb, ra, rb
<1>5. a + b = w * (qa + qb) + (ra + rb) /\ a + b \in Nat /\ qa + qb \in Nat /\ ra + rb \in Nat
  BY <1>1, <1>3
<1>6. (a + b) \div w = qa + qb
  <2> DEFINE sum == a + b
             q == qa + qb
             r == ra + rb
  <2>1. sum \in Nat /\ q \in Nat /\ r \in Nat /\ sum = w * q + r /\ r < w
    BY <1>4, <1>5
  <2> HIDE DEF sum, q, r
  <2>2. sum \div w = q
    BY <1>1, <2>1, Divides
  <2> QED BY <2>2 DEF sum, q
<1> DEFINE ua == qa \div Base
           ub == qb \div Base
<1>7. ua \in Nat /\ qa = Base * ua + va /\ ub \in Nat /\ qb = Base * ub + vb
  BY <1>1, <1>2, <1>3, Divided
<1> HIDE DEF ua, ub
<1>8. qa + qb = Base * (ua + ub) + (va + vb) /\ ua + ub \in Nat /\ va + vb \in Nat
  BY <1>1, <1>2, <1>7
<1>9. (qa + qb) % Base = va + vb
  <2> DEFINE sum == qa + qb
             q == ua + ub
             r == va + vb
  <2>1. sum \in Nat /\ q \in Nat /\ r \in Nat /\ sum = Base * q + r /\ r < Base
    BY <1>4, <1>5, <1>8
  <2> HIDE DEF sum, q, r
  <2>2. sum % Base = r
    BY <1>1, <2>1, Divides
  <2> QED BY <2>2 DEF sum, r
<1>10. (ra + w * va) + (rb + w * vb) < w * Base
  <2>1. PICK d \in Nat : Base = va + vb + 1 + d
    <3>1. Base - va - vb - 1 \in Nat /\ Base = va + vb + 1 + (Base - va - vb - 1)
      BY <1>1, <1>2, <1>4
    <3> QED BY <3>1
  <2>2. w * (va + vb + 1 + d) = w * va + w * vb + w + w * d /\ w * d \in Nat /\ w * va \in Nat /\ w * vb \in Nat
    BY <1>1, <1>2
  <2> QED BY <1>1, <1>3, <1>4, <2>1, <2>2
<1> QED BY <1>1, <1>2, <1>6, <1>9, <1>10 DEF va, vb, w

(* Where no byte carries, a sum has the sums of the bytes. *)
LEMMA AddBytes ==
  ASSUME NEW a \in Words, NEW b \in Words, \A k \in 0..(Bytes - 1) : N!Byte(a, k) + N!Byte(b, k) < Base
  PROVE  a + b \in Words /\ \A k \in 0..(Bytes - 1) : N!Byte(a + b, k) = N!Byte(a, k) + N!Byte(b, k)
<1> DEFINE T == {k \in 0..Bytes : (a % Weight(k)) + (b % Weight(k)) < Weight(k)}
<1>1. Bytes \in Nat /\ a \in Nat /\ b \in Nat /\ Weight(Bytes) \in Nat \ {0}
  BY BytesAssumption, Weights DEF Words
<1>2. 0 \in T
  <2>1. a % 1 = 0 /\ b % 1 = 0
    BY <1>1
  <2> QED BY <1>1, <2>1, Weights
<1>3. ASSUME NEW k \in 1..Bytes, k - 1 \in T PROVE k \in T
  <2>1. k - 1 \in Nat /\ k - 1 + 1 = k /\ k - 1 \in 0..(Bytes - 1) /\ k \in 0..Bytes
    BY <1>1
  <2>2. (a % Weight(k - 1)) + (b % Weight(k - 1)) < Weight(k - 1)
    BY <1>3
  <2>3. (a % Weight(k - 1 + 1)) + (b % Weight(k - 1 + 1)) < Weight(k - 1 + 1)
    BY <1>1, <2>1, <2>2, AddByte
  <2> QED BY <2>1, <2>3
<1> HIDE DEF T
<1>4. 0..Bytes \subseteq T
  BY <1>1, <1>2, <1>3, UpTo
<1>5. (a % Weight(Bytes)) + (b % Weight(Bytes)) < Weight(Bytes)
  BY <1>1, <1>4 DEF T
<1>6. a % Weight(Bytes) = a /\ b % Weight(Bytes) = b
  BY <1>1 DEF Words
<1>7. ASSUME NEW k \in 0..(Bytes - 1) PROVE N!Byte(a + b, k) = N!Byte(a, k) + N!Byte(b, k)
  <2>1. k \in Nat /\ (a % Weight(k)) + (b % Weight(k)) < Weight(k)
    BY <1>1, <1>4 DEF T
  <2> QED BY <1>1, <2>1, AddByte
<1> QED BY <1>1, <1>5, <1>6, <1>7 DEF Words

(* What is below a byte does not change it. *)
LEMMA HighByte ==
  ASSUME NEW m \in Nat, NEW z \in Nat, NEW e \in Nat, e < Weight(m), NEW j \in Nat, m <= j
  PROVE  N!Byte(Weight(m) * z + e, j) = N!Byte(Weight(m) * z, j)
<1> DEFINE w == Weight(m)
           t == Weight(j - m)
<1>1. w \in Nat \ {0} /\ t \in Nat \ {0} /\ Weight(j) = w * t
  <2>1. j - m \in Nat /\ m + (j - m) = j
    OBVIOUS
  <2>2. Weight(m + (j - m)) = Weight(m) * Weight(j - m)
    BY <2>1, Weights
  <2> QED BY <2>1, <2>2, Weights
<1> DEFINE u == z \div t
           v == z % t
<1> HIDE DEF w, t
<1>2. u \in Nat /\ v \in 0..(t - 1) /\ z = t * u + v
  BY <1>1, Divided
<1> HIDE DEF u, v
<1>3. w * (t * u + v) = (w * t) * u + w * v /\ w * v \in Nat /\ w * t \in Nat \ {0}
  BY <1>1, <1>2
<1>4. e < w
  BY DEF w
<1>5. w * v + e < w * t
  <2>1. PICK d \in Nat : t = v + 1 + d
    <3>1. t - v - 1 \in Nat /\ t = v + 1 + (t - v - 1)
      BY <1>1, <1>2
    <3> QED BY <3>1
  <2>2. w * (v + 1 + d) = w * v + w + w * d /\ w * d \in Nat
    BY <1>1, <1>2
  <2> QED BY <1>1, <1>3, <1>4, <2>1, <2>2
<1>6. w * z + e = (w * t) * u + (w * v + e) /\ w * z + 0 = (w * t) * u + (w * v + 0) /\ w * z \in Nat
  BY <1>1, <1>2, <1>3
<1>7. (w * z + e) \div (w * t) = u /\ (w * z) \div (w * t) = u
  <2> DEFINE wt == w * t
             lo == w * v
             hi == w * z
  <2>1. wt \in Nat \ {0} /\ lo \in Nat /\ hi \in Nat /\ hi = wt * u + lo /\ lo + e < wt
    BY <1>3, <1>5, <1>6
  <2> HIDE DEF wt, lo, hi
  <2>2. lo + e \in Nat /\ hi + e \in Nat /\ hi + e = wt * u + (lo + e) /\ lo < wt
    BY <1>2, <2>1
  <2>3. (hi + e) \div wt = u
    BY <1>2, <2>1, <2>2, Divides
  <2>4. hi \div wt = u
    BY <1>2, <2>1, <2>2, Divides
  <2> QED BY <2>3, <2>4 DEF wt, hi
<1>8. w * z + e \in Nat /\ w * z \in Nat
  BY <1>6
<1>9. Weight(j) = w * t
  BY <1>1
<1>10. N!Byte(w * z + e, j) = ((w * z + e) \div Weight(j)) % Base /\ N!Byte(w * z, j) = ((w * z) \div Weight(j)) % Base
  BY DEF N!Byte, Weight, Base
<1> QED BY <1>7, <1>9, <1>10 DEF w

(* htonl() *)
Swaps(f, a) ==
  /\ f[0] = 0 /\ \A k \in 1..Bytes : f[k] = f[k - 1] + N!Byte(a, k - 1) * Weight(Bytes - k)
  /\ \A k \in 0..Bytes : f[k] \in Nat
  /\ N!Swapped(a) = f[Bytes]

LEMMA SwappedIs ==
  ASSUME NEW a \in Nat
  PROVE  \E f : Swaps(f, a)
<1> DEFINE On(so, k) == so + N!Byte(a, k - 1) * Weight(Bytes - k)
           Body(f) == [k \in 0..Bytes |-> IF k = 0 THEN 0 ELSE On(f[k - 1], k)]
           Step == [k \in 1..Bytes |-> [so \in Nat |-> On(so, k)]]
           g == CHOOSE f : f = Body(f)
<1>1. N!Swapped(a) = g[Bytes]
  BY DEF N!Swapped, Weight
<1>2. Bytes \in Nat
  BY BytesAssumption
<1>3. ASSUME NEW so \in Nat, NEW k \in 1..Bytes PROVE On(so, k) \in Nat
  <2>1. k - 1 \in Nat /\ Bytes - k \in Nat
    BY <1>2
  <2>2. N!Byte(a, k - 1) \in Nat
    <3>1. N!Byte(a, k - 1) \in 0..(Base - 1)
      BY <2>1, ByteIs
    <3> QED BY <3>1, Weights
  <2>3. Weight(Bytes - k) \in Nat
    BY <2>1, Weights
  <2> QED BY <2>2, <2>3
<1> HIDE DEF On
<1>4. Step \in [1..Bytes -> [Nat -> Nat]]
  BY <1>3
<1>5. PICK f : f \in [0..Bytes -> Nat] /\ f = [k \in 0..Bytes |-> IF k = 0 THEN 0 ELSE Step[k][f[k - 1]]]
  <2>1. \E f : Loop(f, Bytes, Nat, 0, Step)
    <3> HIDE DEF Step
    <3> QED BY <1>2, <1>4, LoopExists
  <2> QED BY <2>1 DEF Loop
<1>6. f = Body(f)
  <2>1. ASSUME NEW k \in 0..Bytes
        PROVE  (IF k = 0 THEN 0 ELSE Step[k][f[k - 1]]) = (IF k = 0 THEN 0 ELSE On(f[k - 1], k))
    <3>1. k = 0 \/ (k \in 1..Bytes /\ k - 1 \in 0..Bytes)
      BY <1>2
    <3> QED BY <1>5, <3>1
  <2> HIDE DEF Step
  <2> QED BY <1>5, <2>1
<1>7. g = Body(g)
  <2> HIDE DEF Body
  <2> QED BY <1>6
<1>8. g[0] = 0 /\ \A k \in 1..Bytes : g[k] = On(g[k - 1], k)
  <2>1. \A h : Body(h)[0] = 0 /\ \A k \in 1..Bytes : Body(h)[k] = On(h[k - 1], k)
    BY <1>2
  <2> HIDE DEF Body, g
  <2> QED BY <1>7, <2>1, Zenon
<1> HIDE DEF g
<1>9. \A k \in 0..Bytes : g[k] \in Nat
  <2>1. \A k \in 1..Bytes : g[k - 1] \in Nat => g[k] \in Nat
    BY <1>3, <1>8
  <2>2. g[0] \in Nat
    BY <1>8
  <2> DEFINE n == Bytes
  <2> HIDE DEF n, On
  <2>3. n \in Nat /\ \A k \in 1..n : g[k - 1] \in Nat => g[k] \in Nat
    BY <1>2, <2>1 DEF n
  <2>4. \A k \in 0..n : g[k] \in Nat
    BY <2>2, <2>3, LoopStays
  <2> QED BY <2>4 DEF n
<1>10. Swaps(g, a)
  BY <1>1, <1>8, <1>9 DEF Swaps, On
<1> QED BY <1>10

(* htonl() reverses the bytes. *)
LEMMA SwappedBytes ==
  ASSUME NEW a \in Words
  PROVE  /\ N!Swapped(a) \in Words
         /\ \A k \in 0..(Bytes - 1) : N!Byte(N!Swapped(a), k) = N!Byte(a, Bytes - 1 - k)
<1>1. Bytes \in Nat /\ a \in Nat /\ Weight(Bytes) \in Nat \ {0} /\ Base \in Nat \ {0}
  BY BytesAssumption, Weights DEF Words
<1>0. \E f : Swaps(f, a)
  BY <1>1, SwappedIs
<1>2. PICK f : /\ f[0] = 0 /\ \A k \in 1..Bytes : f[k] = f[k - 1] + N!Byte(a, k - 1) * Weight(Bytes - k)
               /\ \A k \in 0..Bytes : f[k] \in Nat
               /\ N!Swapped(a) = f[Bytes]
  BY <1>0 DEF Swaps
(* After k rounds the k highest bytes are there, and no other. *)
<1> DEFINE T == {k \in 0..Bytes : /\ \E z \in Nat : z < Weight(k) /\ f[k] = Weight(Bytes - k) * z
                                  /\ \A j \in 1..k : N!Byte(f[k], Bytes - j) = N!Byte(a, j - 1)}
<1>3. 0 \in T
  <2>1. 0 < Weight(0) /\ f[0] = Weight(Bytes - 0) * 0
    <3>1. Bytes - 0 = Bytes /\ Weight(Bytes) * 0 = 0 /\ Weight(0) = 1
      BY <1>1, Weights
    <3> QED BY <1>2, <3>1
  <2> QED BY <1>1, <2>1
<1>4. ASSUME NEW k \in 1..Bytes, k - 1 \in T PROVE k \in T
  <2>1. k - 1 \in Nat /\ k - 1 + 1 = k /\ Bytes - k \in Nat /\ Bytes - (k - 1) = Bytes - k + 1 /\ k \in 0..Bytes
    BY <1>1
  <2> DEFINE d == N!Byte(a, k - 1)
             w == Weight(Bytes - k)
  <2>2. d \in 0..(Base - 1)
    BY <1>1, <2>1, ByteIs
  <2>3. w \in Nat \ {0} /\ Weight(Bytes - (k - 1)) = w * Base
    BY <2>1, Weights
  <2>4. PICK z \in Nat : z < Weight(k - 1) /\ f[k - 1] = Weight(Bytes - (k - 1)) * z
    BY <1>4
  <2>5. \A j \in 1..(k - 1) : N!Byte(f[k - 1], Bytes - j) = N!Byte(a, j - 1)
    BY <1>4
  <2>6. f[k] = f[k - 1] + d * w
    BY <1>2
  <2> DEFINE y == Base * z + d
  <2>7. y \in Nat /\ y < Weight(k)
    <3>1. Weight(k) = Weight(k - 1) * Base /\ Weight(k - 1) \in Nat
      BY <2>1, Weights
    <3>2. PICK e \in Nat : Weight(k - 1) = z + 1 + e
      <4>1. Weight(k - 1) - z - 1 \in Nat /\ Weight(k - 1) = z + 1 + (Weight(k - 1) - z - 1)
        BY <2>4, <3>1
      <4> QED BY <4>1
    <3>3. (z + 1 + e) * Base = Base * z + Base + e * Base /\ e * Base \in Nat /\ Base * z \in Nat
      BY <1>1
    <3> HIDE DEF d
    <3> QED BY <1>1, <2>2, <3>1, <3>2, <3>3
  <2>8. f[k] = w * y
    <3>1. (w * Base) * z + d * w = w * (Base * z + d)
      <4> HIDE DEF d, w
      <4> QED BY <1>1, <2>2, <2>3
    <3> QED BY <2>3, <2>4, <2>6, <3>1
  <2>9. N!Byte(f[k], Bytes - k) = d
    <3>1. f[k] \in Nat
      BY <1>2, <2>1
    <3>2. N!Byte(f[k], Bytes - k) = (f[k] \div w) % Base
      BY DEF N!Byte, Weight, Base
    <3> HIDE DEF d, w, y
    <3>3. f[k] \div w = y
      <4>1. f[k] = w * y + 0
        BY <2>3, <2>7, <2>8
      <4> QED BY <2>3, <2>7, <3>1, <4>1, Divides
    <3>4. y % Base = d
      <4>1. y = Base * z + d
        BY DEF y
      <4>2. Base \in Nat \ {0} /\ y \in Nat /\ d \in Nat /\ d < Base
        BY <1>1, <2>2, <2>7
      <4> QED BY <4>1, <4>2, Divides
    <3> QED BY <3>2, <3>3, <3>4
  <2>10. ASSUME NEW j \in 1..(k - 1) PROVE N!Byte(f[k], Bytes - j) = N!Byte(a, j - 1)
    <3> DEFINE m == Bytes - (k - 1)
               h == Bytes - j
               e == d * w
    <3>1. m \in Nat /\ h \in Nat /\ m <= h
      BY <1>1
    <3>2. e \in Nat /\ e < Weight(m)
      <4>1. PICK c \in Nat : Base = d + 1 + c
        <5>1. Base - d - 1 \in Nat /\ Base = d + 1 + (Base - d - 1)
          BY <1>1, <2>2
        <5> QED BY <5>1
      <4>2. w * (d + 1 + c) = d * w + w + w * c /\ w * c \in Nat /\ d * w \in Nat
        <5> HIDE DEF d, w
        <5> QED BY <2>2, <2>3
      <4>3. Weight(m) = w * Base
        BY <2>3
      <4> HIDE DEF d, w, m
      <4> QED BY <2>3, <4>1, <4>2, <4>3
    <3>3. f[k] = Weight(m) * z + e /\ f[k - 1] = Weight(m) * z
      BY <2>4, <2>6
    <3> HIDE DEF m, h, e
    <3>4. N!Byte(Weight(m) * z + e, h) = N!Byte(Weight(m) * z, h)
      BY <3>1, <3>2, HighByte
    <3>5. N!Byte(f[k], h) = N!Byte(f[k - 1], h)
      BY <3>3, <3>4
    <3> QED BY <2>5, <3>5 DEF h
  <2>11. ASSUME NEW j \in 1..k PROVE N!Byte(f[k], Bytes - j) = N!Byte(a, j - 1)
    <3>1. j = k \/ j \in 1..(k - 1)
      BY <2>1
    <3> QED BY <2>9, <2>10, <3>1
  <2> HIDE DEF y
  <2>12. \E x \in Nat : x < Weight(k) /\ f[k] = Weight(Bytes - k) * x
    BY <2>7, <2>8
  <2> QED BY <2>1, <2>11, <2>12
<1> HIDE DEF T
<1>5. Bytes \in T
  <2>1. 0..Bytes \subseteq T
    BY <1>1, <1>3, <1>4, UpTo
  <2> QED BY <1>1, <2>1
<1>6. N!Swapped(a) \in Words
  <2>1. PICK z \in Nat : z < Weight(Bytes) /\ f[Bytes] = Weight(Bytes - Bytes) * z
    BY <1>5 DEF T
  <2>2. Weight(Bytes - Bytes) = 1
    BY <1>1, Weights
  <2>3. f[Bytes] = z
    BY <2>1, <2>2
  <2> QED BY <1>1, <1>2, <2>1, <2>3 DEF Words
<1>7. ASSUME NEW k \in 0..(Bytes - 1) PROVE N!Byte(N!Swapped(a), k) = N!Byte(a, Bytes - 1 - k)
  <2> DEFINE j == Bytes - k
  <2>1. j \in 1..Bytes /\ Bytes - j = k /\ j - 1 = Bytes - 1 - k
    BY <1>1
  <2> HIDE DEF j
  <2>2. N!Byte(f[Bytes], Bytes - j) = N!Byte(a, j - 1)
    BY <1>5, <2>1 DEF T
  <2> QED BY <1>2, <2>1, <2>2
<1> QED BY <1>6, <1>7

(* ntohl() undoes it. *)
LEMMA SwappedBack ==
  ASSUME NEW a \in Words
  PROVE  N!Swapped(N!Swapped(a)) = a
<1> DEFINE b == N!Swapped(a)
           c == N!Swapped(b)
<1>1. b \in Words /\ \A k \in 0..(Bytes - 1) : N!Byte(b, k) = N!Byte(a, Bytes - 1 - k)
  BY SwappedBytes
<1> HIDE DEF b
<1>2. c \in Words /\ \A k \in 0..(Bytes - 1) : N!Byte(c, k) = N!Byte(b, Bytes - 1 - k)
  BY <1>1, SwappedBytes
<1> HIDE DEF c
<1>3. ASSUME NEW k \in 0..(Bytes - 1) PROVE N!Byte(c, k) = N!Byte(a, k)
  <2>1. Bytes - 1 - k \in 0..(Bytes - 1) /\ Bytes - 1 - (Bytes - 1 - k) = k
    BY BytesAssumption
  <2> QED BY <1>1, <1>2, <2>1
<1>4. c = a
  BY <1>2, <1>3, SameBytes
<1> QED BY <1>4 DEF b, c

LEMMA OtherBits ==
  ASSUME NEW a \in Words
  PROVE  /\ N!AllOnes - a \in Words
         /\ \A k \in 0..(Bytes - 1) : N!Byte(N!AllOnes - a, k) = Base - 1 - N!Byte(a, k)
<1>1. Bytes \in Nat /\ a \in Nat /\ Weight(Bytes) \in Nat \ {0} /\ Base \in Nat \ {0}
  BY BytesAssumption, Weights DEF Words
<1>2. N!AllOnes - a \in Words /\ N!AllOnes = Weight(Bytes) - 1
  BY <1>1, WordsAre DEF Words
<1>3. ASSUME NEW k \in 0..(Bytes - 1) PROVE N!Byte(N!AllOnes - a, k) = Base - 1 - N!Byte(a, k)
  <2> DEFINE w == Weight(k)
             t == Weight(Bytes - k - 1)
             c == Weight(Bytes) - 1 - a
             q == a \div w
             r == a % w
             v == N!Byte(a, k)
             u == q \div Base
  <2>1. w \in Nat \ {0} /\ t \in Nat \ {0} /\ Weight(Bytes) = w * (Base * t)
    <3>1. k \in Nat /\ Bytes - k - 1 \in Nat /\ k + 1 + (Bytes - k - 1) = Bytes /\ k + 1 \in Nat
      BY <1>1
    <3>2. Weight(k + 1 + (Bytes - k - 1)) = Weight(k + 1) * Weight(Bytes - k - 1) /\ Weight(k + 1) = Weight(k) * Base
      BY <3>1, Weights
    <3>3. w \in Nat \ {0} /\ t \in Nat \ {0}
      BY <3>1, Weights
    <3> HIDE DEF w, t
    <3>4. (w * Base) * t = w * (Base * t)
      BY <1>1, <3>3
    <3> QED BY <3>1, <3>2, <3>3, <3>4 DEF w, t
  <2>2. v = q % Base /\ N!Byte(c, k) = (c \div w) % Base
    BY DEF N!Byte, Weight, Base
  <2>3. c \in Nat /\ N!AllOnes - a = c
    BY <1>1, <1>2 DEF Words
  <2> HIDE DEF w, t, v
  <2>4. q \in Nat /\ r \in 0..(w - 1) /\ a = w * q + r
    BY <1>1, <2>1, Divided
  <2> HIDE DEF q, r
  <2>5. u \in Nat /\ v \in 0..(Base - 1) /\ q = Base * u + v
    BY <1>1, <2>2, <2>4, Divided
  <2> HIDE DEF u
  <2>6. u < t
    <3>1. CASE u >= t
      <4>1. PICK d \in Nat : u = t + d
        <5>1. u - t \in Nat /\ u = t + (u - t)
          BY <2>1, <2>5, <3>1
        <5> QED BY <5>1
      <4>2. w * (Base * (t + d) + v) = w * (Base * t) + w * (Base * d) + w * v
        BY <1>1, <2>1, <2>5
      <4>3. w * (Base * d) \in Nat /\ w * v \in Nat
        BY <1>1, <2>1, <2>5
      <4>4. a < Weight(Bytes)
        BY <1>1 DEF Words
      <4> DEFINE x1 == w * (Base * t)
                 x2 == w * (Base * d)
                 x3 == w * v
      <4>5. a = x1 + x2 + x3 + r
        BY <2>4, <2>5, <4>1, <4>2
      <4>6. x1 = Weight(Bytes) /\ x2 \in Nat /\ x3 \in Nat /\ r \in Nat
        BY <2>1, <2>4, <4>3
      <4> HIDE DEF x1, x2, x3
      <4>7. Weight(Bytes) \in Nat
        BY <1>1
      <4> QED BY <4>4, <4>5, <4>6, <4>7
    <3> QED BY <2>1, <2>5, <3>1
  <2> DEFINE u2 == t - 1 - u
             v2 == Base - 1 - v
             q2 == Base * u2 + v2
             r2 == w - 1 - r
  <2>7. u2 \in Nat /\ v2 \in 0..(Base - 1) /\ r2 \in 0..(w - 1)
    BY <1>1, <2>1, <2>4, <2>5, <2>6
  <2>8. q2 \in Nat /\ q + q2 + 1 = Base * t
    <3>1. t = u + u2 + 1 /\ Base = v + v2 + 1
      BY <1>1, <2>1, <2>5
    <3> HIDE DEF u2, v2
    <3>2. Base * (u + u2 + 1) = Base * u + Base * u2 + Base /\ Base * u \in Nat /\ Base * u2 \in Nat
      BY <1>1, <2>5, <2>7
    <3> QED BY <1>1, <2>5, <2>7, <3>1, <3>2
  <2>9. q2 % Base = v2
    <3>1. q2 = Base * u2 + v2
      OBVIOUS
    <3> HIDE DEF q2, u2, v2
    <3>2. Base \in Nat \ {0} /\ q2 \in Nat /\ u2 \in Nat /\ v2 \in Nat /\ v2 < Base
      BY <1>1, <2>7, <2>8
    <3> QED BY <3>1, <3>2, Divides
  <2>10. c = w * q2 + r2
    <3>1. w = r + r2 + 1
      BY <2>1, <2>4
    <3> HIDE DEF q2, r2
    <3>2. w * (q + q2 + 1) = w * q + w * q2 + w /\ w * q \in Nat /\ w * q2 \in Nat
      BY <2>1, <2>4, <2>8
    <3> QED BY <2>1, <2>4, <2>7, <2>8, <3>1, <3>2
  <2> HIDE DEF c, q2, r2, v2
  <2>11. c \div w = q2
    BY <2>1, <2>3, <2>7, <2>8, <2>10, Divides
  <2> QED BY <2>2, <2>3, <2>9, <2>11 DEF v2, v
<1> QED BY <1>2, <1>3

LEMMA SwappedOther ==
  ASSUME NEW a \in Words
  PROVE  N!Swapped(N!AllOnes - a) = N!AllOnes - N!Swapped(a)
<1> DEFINE b == N!Swapped(a)
           c == N!AllOnes - a
           d == N!Swapped(c)
           e == N!AllOnes - b
<1>1. b \in Words /\ \A k \in 0..(Bytes - 1) : N!Byte(b, k) = N!Byte(a, Bytes - 1 - k)
  BY SwappedBytes
<1>2. c \in Words /\ \A k \in 0..(Bytes - 1) : N!Byte(c, k) = Base - 1 - N!Byte(a, k)
  BY OtherBits
<1> HIDE DEF b, c
<1>3. d \in Words /\ \A k \in 0..(Bytes - 1) : N!Byte(d, k) = N!Byte(c, Bytes - 1 - k)
  BY <1>2, SwappedBytes
<1>4. e \in Words /\ \A k \in 0..(Bytes - 1) : N!Byte(e, k) = Base - 1 - N!Byte(b, k)
  BY <1>1, OtherBits
<1> HIDE DEF d, e
<1>5. ASSUME NEW k \in 0..(Bytes - 1) PROVE N!Byte(d, k) = N!Byte(e, k)
  <2>1. Bytes - 1 - k \in 0..(Bytes - 1)
    BY BytesAssumption
  <2> QED BY <1>1, <1>2, <1>3, <1>4, <2>1
<1>6. d = e
  BY <1>3, <1>4, <1>5, SameBytes
<1> QED BY <1>6 DEF b, c, d, e

(* The numbers of a network and of a host in it share no bit, so that no byte  *)
(* of their sum carries.                                                     *)
LEMMA HostBytes ==
  ASSUME NEW h \in Nat, NEW a \in Nat, a % 2 ^ h = 0, NEW k \in Nat
  PROVE  /\ N!Byte(a, k) + N!Byte(2 ^ h - 1, k) < Base
         /\ N!Byte(a + (2 ^ h - 1), k) = N!Byte(a, k) + N!Byte(2 ^ h - 1, k)
<1> DEFINE H == 2 ^ h
           c == H - 1
           b == a + c
           w == Weight(k)
           q == a \div H
<1>1. H \in Nat \ {0} /\ w \in Nat \ {0} /\ Base \in Nat \ {0} /\ ByteBits \in Nat
  BY PowerIs, Weights, BytesAssumption
<1>2. /\ N!Byte(a, k) = (a \div w) % Base /\ N!Byte(c, k) = (c \div w) % Base
      /\ N!Byte(b, k) = (b \div w) % Base /\ N!Byte(a, k) \in 0..(Base - 1)
  <2>1. N!Byte(a, k) \in 0..(Base - 1)
    BY ByteIs
  <2> QED BY <2>1 DEF N!Byte, Weight, Base
<1> DEFINE va == N!Byte(a, k)
           vc == N!Byte(c, k)
           vb == N!Byte(b, k)
           kb == ByteBits * k
<1>3. kb \in Nat /\ w = 2 ^ kb /\ Base = 2 ^ ByteBits
  BY <1>1 DEF Weight, Base
<1> HIDE DEF w, va, vb, vc, kb
<1>4. a % H = 0
  OBVIOUS
<1>5. q \in Nat /\ a = H * q
  <2> HIDE DEF H
  <2>1. q \in Nat /\ a = H * q + (a % H)
    BY <1>1, Divided
  <2> QED BY <1>1, <1>4, <2>1
<1>6. c \in Nat /\ b \in Nat /\ b = a + c /\ H = c + 1
  <2> HIDE DEF H
  <2> QED BY <1>1
<1> HIDE DEF b, c, q
<1>7. ASSUME kb <= h PROVE va + vc < Base /\ vb = va + vc
  <2> DEFINE g == h - kb
             J == 2 ^ g
             x == J * q
  <2>1. g \in Nat /\ J \in Nat \ {0} /\ H = w * J
    <3>1. g \in Nat /\ kb + g = h
      BY <1>3, <1>7
    <3> HIDE DEF g
    <3>2. 2 ^ (kb + g) = 2 ^ kb * 2 ^ g
      BY <1>3, <3>1, PowerOfSum
    <3> QED BY <1>3, <3>1, <3>2, PowerIs
  <2> HIDE DEF g, J, H
  <2>2. x \in Nat /\ a = w * x + 0 /\ c = w * (J - 1) + (w - 1) /\ J - 1 \in Nat /\ w - 1 \in Nat
    BY <1>1, <1>5, <1>6, <2>1
  <2> HIDE DEF x
  <2>3. x + (J - 1) \in Nat /\ b = w * (x + (J - 1)) + (w - 1)
    BY <1>1, <1>6, <2>1, <2>2
  <2> DEFINE y == x + (J - 1)
             l == w - 1
             z == J - 1
  <2>4. y \in Nat /\ l \in Nat /\ z \in Nat /\ b = w * y + l /\ c = w * z + l /\ l < w /\ y = x + z /\ J = z + 1
    BY <1>1, <2>1, <2>2, <2>3
  <2> HIDE DEF y, l, z
  <2>5. a \div w = x
    BY <1>1, <2>2, Divides
  <2>6. c \div w = z
    <3>1. w \in Nat \ {0} /\ c \in Nat /\ z \in Nat /\ l \in Nat /\ c = w * z + l /\ l < w
      BY <1>1, <1>6, <2>4
    <3> QED BY <3>1, Divides
  <2>7. b \div w = y
    BY <1>1, <1>6, <2>4, Divides
  <2>8. va = x % Base /\ vc = z % Base /\ vb = y % Base
    BY <1>2, <2>5, <2>6, <2>7 DEF va, vb, vc
  <2>9. CASE g <= ByteBits
    <3> DEFINE s == 2 ^ (ByteBits - g)
    <3>1. s \in Nat \ {0} /\ Base = J * s
      <4> DEFINE d == ByteBits - g
      <4>1. d \in Nat /\ g + d = ByteBits
        BY <1>1, <2>1, <2>9
      <4> HIDE DEF d
      <4>2. 2 ^ (g + d) = 2 ^ g * 2 ^ d
        BY <2>1, <4>1, PowerOfSum
      <4> QED BY <1>3, <4>1, <4>2, PowerIs DEF J, d
    <3> DEFINE u == q \div s
               v == q % s
    <3> HIDE DEF s
    <3>2. u \in Nat /\ v \in 0..(s - 1) /\ q = s * u + v
      BY <1>5, <3>1, Divided
    <3> HIDE DEF u, v
    <3> DEFINE r == J * v
               t == J * v + z
    <3>3. r \in Nat /\ t \in Nat /\ t = r + z /\ x = Base * u + r
      <4>1. J * (s * u + v) = (J * s) * u + J * v /\ J * v \in Nat
        BY <2>1, <3>1, <3>2
      <4> QED BY <2>4, <3>1, <3>2, <4>1 DEF x
    <3>4. t < Base
      <4>1. PICK d \in Nat : s = v + 1 + d
        <5>1. s - v - 1 \in Nat /\ s = v + 1 + (s - v - 1)
          BY <3>1, <3>2
        <5> QED BY <5>1
      <4>2. J * (v + 1 + d) = J * v + J + J * d /\ J * d \in Nat
        BY <2>1, <3>2
      <4> DEFINE e == J * d
      <4>3. Base = r + J + e /\ e \in Nat
        BY <3>1, <4>1, <4>2
      <4> HIDE DEF e, r
      <4> QED BY <2>1, <2>4, <3>3, <4>3
    <3> HIDE DEF r, t
    <3>5. y = Base * u + t /\ z = Base * 0 + z /\ r < Base /\ z < Base
      <4> DEFINE e == Base * u
      <4>1. e \in Nat /\ Base * 0 = 0
        BY <1>1, <3>2
      <4> HIDE DEF e
      <4> QED BY <1>1, <2>4, <3>3, <3>4, <4>1 DEF e
    <3>6. x % Base = r
      BY <1>1, <2>2, <3>2, <3>3, <3>5, Divides
    <3>7. y % Base = t
      BY <1>1, <2>4, <3>2, <3>3, <3>4, <3>5, Divides
    <3>8. z % Base = z
      BY <1>1, <2>4, <3>5, Divides
    <3> QED BY <2>8, <3>3, <3>4, <3>6, <3>7, <3>8
  <2>10. CASE g > ByteBits
    <3> DEFINE s == 2 ^ (g - ByteBits)
    <3>1. s \in Nat \ {0} /\ J = Base * s
      <4> DEFINE d == g - ByteBits
      <4>1. d \in Nat /\ ByteBits + d = g
        BY <1>1, <2>1, <2>10
      <4> HIDE DEF d
      <4>2. 2 ^ (ByteBits + d) = 2 ^ ByteBits * 2 ^ d
        BY <1>1, <4>1, PowerOfSum
      <4> QED BY <1>3, <4>1, <4>2, PowerIs DEF J, d
    <3> HIDE DEF s
    <3> DEFINE u == s * q
               l2 == Base - 1
               m == s - 1
    <3>2. u \in Nat /\ l2 \in Nat /\ m \in Nat /\ x = Base * u + 0 /\ z = Base * m + l2 /\ l2 < Base
      BY <1>1, <1>5, <2>4, <3>1 DEF x
    <3> HIDE DEF u, l2, m
    <3>3. y = Base * (u + m) + l2 /\ u + m \in Nat
      BY <1>1, <2>4, <3>2
    <3> DEFINE n == u + m
    <3>4. y = Base * n + l2 /\ n \in Nat
      BY <3>3
    <3> HIDE DEF n
    <3>5. x % Base = 0
      <4>1. Base \in Nat \ {0} /\ x \in Nat /\ u \in Nat /\ 0 \in Nat /\ x = Base * u + 0 /\ 0 < Base
        BY <1>1, <2>2, <3>2
      <4> QED BY <4>1, Divides
    <3>6. z % Base = l2
      BY <1>1, <2>4, <3>2, Divides
    <3>7. y % Base = l2
      BY <1>1, <2>4, <3>2, <3>4, Divides
    <3> QED BY <2>8, <3>2, <3>5, <3>6, <3>7
  <2> QED BY <1>1, <2>1, <2>9, <2>10
<1>8. ASSUME kb > h PROVE va + vc < Base /\ vb = va + vc
  <2> DEFINE g == kb - h
             J == 2 ^ g
             u == q \div J
             v == q % J
  <2>1. J \in Nat \ {0} /\ w = H * J
    <3>1. g \in Nat /\ h + g = kb
      BY <1>3, <1>8
    <3> HIDE DEF g
    <3>2. 2 ^ (h + g) = 2 ^ h * 2 ^ g
      BY <3>1, PowerOfSum
    <3> QED BY <1>3, <3>1, <3>2, PowerIs
  <2> HIDE DEF J, H
  <2>2. u \in Nat /\ v \in 0..(J - 1) /\ q = J * u + v
    BY <1>5, <2>1, Divided
  <2> HIDE DEF u, v
  <2> DEFINE r == H * v
             t == H * v + c
  <2>3. r \in Nat /\ t = r + c /\ t \in Nat /\ a = w * u + r
    <3>1. H * (J * u + v) = (H * J) * u + H * v /\ H * v \in Nat
      BY <1>1, <2>1, <2>2
    <3> QED BY <1>5, <1>6, <2>1, <2>2, <3>1
  <2>4. t < w
    <3>1. PICK d \in Nat : J = v + 1 + d
      <4>1. J - v - 1 \in Nat /\ J = v + 1 + (J - v - 1)
        BY <2>1, <2>2
      <4> QED BY <4>1
    <3>2. H * (v + 1 + d) = H * v + H + H * d /\ H * d \in Nat
      BY <1>1, <2>2
    <3> DEFINE e == H * d
    <3>3. w = r + H + e /\ e \in Nat
      BY <2>1, <3>1, <3>2
    <3> HIDE DEF e, r
    <3> QED BY <1>1, <1>6, <2>3, <3>3
  <2> HIDE DEF r, t
  <2>5. r < w /\ c < w /\ c = w * 0 + c /\ b = w * u + t
    <3> DEFINE e == w * u
    <3>1. e \in Nat /\ w * 0 = 0
      BY <1>1, <2>2
    <3> HIDE DEF e
    <3> QED BY <1>1, <1>6, <2>3, <2>4, <3>1 DEF e
  <2>6. a \div w = u
    BY <1>1, <2>2, <2>3, <2>5, Divides
  <2>7. b \div w = u
    BY <1>1, <1>6, <2>2, <2>3, <2>4, <2>5, Divides
  <2>8. c \div w = 0
    BY <1>1, <1>6, <2>5, Divides
  <2>9. 0 % Base = 0
    BY <1>1
  <2>10. va = vb /\ vc = 0 /\ va \in 0..(Base - 1)
    BY <1>2, <2>6, <2>7, <2>8, <2>9 DEF va, vb, vc
  <2> QED BY <1>1, <2>10
<1>9. va + vc < Base /\ vb = va + vc
  BY <1>3, <1>7, <1>8
<1> QED BY <1>9 DEF va, vb, vc, b, c

(* kahanaNetCIDR adds the host part of a range to the first address of the     *)
(* network in the order of the network, and yet adds right.                   *)
LEMMA RangeAdds ==
  ASSUME NEW h \in Nat, 2 ^ h <= 2 ^ N!Width, NEW from \in Words, N!Swapped(from) % 2 ^ h = 0
  PROVE  /\ 2 ^ h - 1 \in Words
         /\ N!Swapped((from + (N!AllOnes - N!Swapped(N!AllOnes - (2 ^ h - 1)))) % 2 ^ N!Width)
              = N!Swapped(from) + (2 ^ h - 1)
<1> DEFINE c == 2 ^ h - 1
           a == N!Swapped(from)
           b == N!Swapped(c)
           host == N!AllOnes - N!Swapped(N!AllOnes - c)
<1>1. Bytes \in Nat /\ Weight(Bytes) \in Nat \ {0} /\ 2 ^ N!Width = Weight(Bytes) /\ Base \in Nat \ {0}
  BY BytesAssumption, Weights
<1>2. c \in Words
  BY <1>1, PowerIs DEF Words
<1>3. a \in Words /\ N!Swapped(a) = from /\ \A k \in 0..(Bytes - 1) : N!Byte(a, k) = N!Byte(from, Bytes - 1 - k)
  BY SwappedBytes, SwappedBack
<1>4. ASSUME NEW k \in 0..(Bytes - 1)
      PROVE  N!Byte(a, k) + N!Byte(c, k) < Base /\ N!Byte(a + c, k) = N!Byte(a, k) + N!Byte(c, k)
  <2>1. k \in Nat /\ a \in Nat /\ a % 2 ^ h = 0
    BY <1>1, <1>3 DEF Words
  <2> HIDE DEF a
  <2> QED BY <2>1, HostBytes
<1> HIDE DEF c, a
<1>5. a + c \in Words
  BY <1>2, <1>3, <1>4, AddBytes
<1>6. b \in Words /\ \A k \in 0..(Bytes - 1) : N!Byte(b, k) = N!Byte(c, Bytes - 1 - k)
  BY <1>2, SwappedBytes
<1>7. host = b
  <2>1. N!Swapped(N!AllOnes - c) = N!AllOnes - N!Swapped(c)
    BY <1>2, SwappedOther
  <2>2. b \in Int /\ N!AllOnes \in Int
    BY <1>1, <1>6, WordsAre DEF Words
  <2> QED BY <2>1, <2>2
<1> HIDE DEF b, host
<1>8. ASSUME NEW k \in 0..(Bytes - 1)
      PROVE  /\ N!Byte(from, k) = N!Byte(a, Bytes - 1 - k) /\ N!Byte(b, k) = N!Byte(c, Bytes - 1 - k)
             /\ Bytes - 1 - k \in 0..(Bytes - 1)
  <2>1. Bytes - 1 - k \in 0..(Bytes - 1) /\ Bytes - 1 - (Bytes - 1 - k) = k
    BY <1>1
  <2> QED BY <1>3, <1>6, <2>1
<1>9. \A k \in 0..(Bytes - 1) : N!Byte(from, k) + N!Byte(b, k) < Base
  BY <1>4, <1>8
<1>10. from + b \in Words /\ \A k \in 0..(Bytes - 1) : N!Byte(from + b, k) = N!Byte(from, k) + N!Byte(b, k)
  BY <1>6, <1>9, AddBytes
<1> DEFINE to == from + b
           s == N!Swapped(to)
<1>11. to % Weight(Bytes) = to
  BY <1>1, <1>10 DEF Words
<1>12. s \in Words /\ \A k \in 0..(Bytes - 1) : N!Byte(s, k) = N!Byte(to, Bytes - 1 - k)
  BY <1>10, SwappedBytes
<1> HIDE DEF s
<1>13. ASSUME NEW k \in 0..(Bytes - 1) PROVE N!Byte(s, k) = N!Byte(a + c, k)
  <2> DEFINE j == Bytes - 1 - k
  <2>1. j \in 0..(Bytes - 1) /\ Bytes - 1 - j = k
    BY <1>1
  <2>2. N!Byte(s, k) = N!Byte(to, j)
    BY <1>12
  <2> HIDE DEF j
  <2>3. N!Byte(to, j) = N!Byte(a, k) + N!Byte(c, k)
    BY <1>8, <1>10, <2>1
  <2> QED BY <1>4, <2>2, <2>3
<1>14. s = a + c
  BY <1>5, <1>12, <1>13, SameBytes
<1> QED BY <1>1, <1>2, <1>7, <1>11, <1>14 DEF s, a, c, host

(* 0xFFFFFFFFUL << h, cut to the width of an address *)
LEMMA ShiftedIs ==
  ASSUME NEW h \in Nat, 2 ^ h <= 2 ^ N!Width
  PROVE  (N!AllOnes * 2 ^ h) % 2 ^ N!Width = N!AllOnes - (2 ^ h - 1)
<1> DEFINE m == 2 ^ N!Width
           H == 2 ^ h
<1>1. m \in Nat \ {0} /\ H \in Nat \ {0} /\ H <= m /\ N!AllOnes = m - 1
  BY Weights, PowerIs, BytesAssumption DEF N!AllOnes
<1> HIDE DEF m, H
<1> DEFINE x == (m - 1) * H
           q == H - 1
           r == m - H
<1>2. x = m * q + r /\ x \in Nat /\ q \in Nat /\ r \in Nat /\ r < m
  BY <1>1
<1> HIDE DEF x, q, r
<1>3. x % m = r
  BY <1>1, <1>2, Divides
<1>4. r = (m - 1) - (H - 1)
  BY <1>1 DEF r
<1> QED BY <1>1, <1>3, <1>4 DEF m, H, x

(* The addresses from the first of a network to the first and its hosts. *)
LEMMA NetworkIs ==
  ASSUME NEW H \in Nat \ {0}, NEW a \in Nat, a % H = 0
  PROVE  {b \in Words : a <= b /\ b <= a + (H - 1)} = {b \in Words : b \div H = a \div H}
<1> DEFINE q == a \div H
<1>1. q \in Nat /\ a = H * q
  BY Divided
<1> HIDE DEF q
<1>2. ASSUME NEW b \in Words PROVE (a <= b /\ b <= a + (H - 1)) <=> b \div H = q
  <2> DEFINE u == b \div H
             v == b % H
  <2>1. b \in Nat
    BY Weights, BytesAssumption DEF Words
  <2>2. u \in Nat /\ v \in 0..(H - 1) /\ b = H * u + v
    BY <2>1, Divided
  <2>3. ASSUME a <= b /\ b <= a + (H - 1) PROVE u = q
    <3> DEFINE r == b - a
    <3>1. r \in Nat /\ r < H /\ b = H * q + r
      BY <1>1, <2>1, <2>3
    <3> HIDE DEF r
    <3> QED BY <1>1, <2>1, <3>1, Divides
  <2>4. ASSUME u = q PROVE a <= b /\ b <= a + (H - 1)
    <3> HIDE DEF u, v
    <3>1. b = a + v
      BY <1>1, <2>2, <2>4
    <3> QED BY <2>2, <3>1
  <2> QED BY <2>3, <2>4
<1>3. a \div H = q
  BY DEF q
<1> QED BY <1>2, <1>3

(* A range is what kahanaNetCIDR makes of some address and some suffix. *)
CidrInv ==
  cidr.rc = "APR_SUCCESS" =>
    /\ cidr.from \in N!Addresses /\ cidr.suffix \in N!Suffixes
    /\ \E mask \in N!Masks(cidr.suffix) : cidr.to = (cidr.from + (N!AllOnes - mask)) % 2 ^ N!Width

LEMMA RangeIs ==
  ASSUME CidrInv
  PROVE  N!RangeIsNetwork
<1> SUFFICES ASSUME cidr.rc = "APR_SUCCESS", NEW prefix \in 1..N!Width,
                    cidr.suffix = [kind |-> "prefix", value |-> prefix]
                      \/ cidr.suffix
                           = [kind |-> "mask", value |-> N!Swapped(N!AllOnes - (2 ^ (N!Width - prefix) - 1))],
                    N!Swapped(cidr.from) % 2 ^ (N!Width - prefix) = 0
             PROVE  {a \in N!Addresses : N!Swapped(cidr.from) <= a /\ a <= N!Swapped(cidr.to)}
                      = N!Network(N!Swapped(cidr.from), prefix)
  BY DEF N!RangeIsNetwork
<1> DEFINE h == N!Width - prefix
           from == N!Swapped(cidr.from)
           mask == N!Swapped(N!AllOnes - (2 ^ h - 1))
<1>1. N!Width \in Nat /\ h \in Nat /\ h + prefix = N!Width /\ prefix \in Nat
  <2>1. N!Width \in Nat
    BY BytesAssumption DEF N!Width
  <2> QED BY <2>1
<1>2. cidr.from \in Words /\ from \in Words /\ from \in Nat
  <2>1. cidr.from \in Words
    BY WordsAre DEF CidrInv
  <2>2. from \in Words
    BY <2>1, SwappedBytes
  <2> QED BY <2>1, <2>2 DEF Words
<1>3. 2 ^ h <= 2 ^ N!Width
  <2> HIDE DEF h
  <2>1. 2 ^ (h + prefix) = 2 ^ h * 2 ^ prefix /\ 2 ^ h \in Nat \ {0} /\ 2 ^ prefix \in Nat \ {0}
    BY <1>1, PowerIs, PowerOfSum
  <2>2. \A m, n \in Nat \ {0} : m <= m * n
    OBVIOUS
  <2> QED BY <1>1, <2>1, <2>2
<1>4. from % 2 ^ h = 0
  OBVIOUS
<1>5. N!Masks(cidr.suffix) = {mask}
  <2>1. CASE cidr.suffix = [kind |-> "prefix", value |-> prefix]
    <3>1. N!MaskOf(prefix) = mask
      <4>1. N!MaskOf(prefix) = N!Swapped((N!AllOnes * 2 ^ h) % 2 ^ N!Width)
        BY DEF N!MaskOf
      <4>2. (N!AllOnes * 2 ^ h) % 2 ^ N!Width = N!AllOnes - (2 ^ h - 1)
        <5> HIDE DEF h
        <5> QED BY <1>1, <1>3, ShiftedIs
      <4> QED BY <4>1, <4>2
    <3>2. N!Masks(cidr.suffix) = {N!MaskOf(prefix)}
      BY <2>1 DEF N!Masks
    <3> QED BY <3>1, <3>2
  <2>2. CASE cidr.suffix = [kind |-> "mask", value |-> mask]
    BY <2>2 DEF N!Masks
  <2> QED BY <2>1, <2>2
<1>6. cidr.to = (cidr.from + (N!AllOnes - mask)) % 2 ^ N!Width
  BY <1>5 DEF CidrInv
<1> HIDE DEF h
<1>7. N!Swapped(cidr.to) = from + (2 ^ h - 1)
  BY <1>1, <1>2, <1>3, <1>4, <1>6, RangeAdds
<1>8. {a \in Words : from <= a /\ a <= from + (2 ^ h - 1)} = {b \in Words : b \div 2 ^ h = from \div 2 ^ h}
  <2> DEFINE H == 2 ^ h
  <2>1. H \in Nat \ {0} /\ from % H = 0
    BY <1>1, <1>4, PowerIs
  <2> HIDE DEF H, from
  <2>2. {a \in Words : from <= a /\ a <= from + (H - 1)} = {b \in Words : b \div H = from \div H}
    BY <1>2, <2>1, NetworkIs
  <2> QED BY <2>2 DEF H
<1>9. N!Network(from, prefix) = {b \in Words : b \div 2 ^ h = from \div 2 ^ h}
  BY WordsAre DEF N!Network, h
<1> QED BY <1>7, <1>8, <1>9, WordsAre

CidrPartInv == part = "cidr" => CidrInv

LEMMA CidrKeeps == CidrPartInv /\ [Next]_vars => CidrPartInv'
<1> SUFFICES ASSUME CidrPartInv, [Next]_vars, part' = "cidr" PROVE CidrInv'
  BY DEF CidrPartInv
<1>1. part = "cidr" /\ CidrInv
  BY DEF Next, Sock, Load, Cmd, Path, Alone, vars, CidrPartInv
<1>2. CASE UNCHANGED cidr
  BY <1>1, <1>2 DEF CidrInv
<1>3. CASE N!NetCIDR
  <2>1. CASE cidr' = [rc |-> "wild"]
    BY <2>1 DEF CidrInv
  <2>2. CASE cidr' # [rc |-> "wild"]
    <3>1. PICK from \in N!Addresses, suffix \in N!Suffixes :
            \/ /\ N!Masks(suffix) = {}
               /\ cidr' = [rc |-> "APR_EINVAL", suffix |-> suffix, mask |-> 0, from |-> 0, to |-> 0]
            \/ \E mask \in N!Masks(suffix) :
                  cidr' = [rc |-> "APR_SUCCESS", suffix |-> suffix, mask |-> mask, from |-> from,
                           to |-> (from + (N!AllOnes - mask)) % 2 ^ N!Width]
      BY <1>3, <2>2 DEF N!NetCIDR
    <3>2. CASE cidr' = [rc |-> "APR_EINVAL", suffix |-> suffix, mask |-> 0, from |-> 0, to |-> 0]
      BY <3>2 DEF CidrInv
    <3>3. ASSUME NEW mask \in N!Masks(suffix),
                 cidr' = [rc |-> "APR_SUCCESS", suffix |-> suffix, mask |-> mask, from |-> from,
                          to |-> (from + (N!AllOnes - mask)) % 2 ^ N!Width]
          PROVE  CidrInv'
      BY <3>3 DEF CidrInv
    <3> QED BY <3>1, <3>2, <3>3
  <2> QED BY <2>1, <2>2
<1> QED BY <1>1, <1>2, <1>3 DEF Next, Sock, Load, Cmd, Path, Alone, others, vars

-----------------------------------------------------------------------------
(* A position, however it was set, moved, encoded and decoded, is in the cell   *)
(* its geohash numbers, or below -180 degrees, in front of the first cell,    *)
(* after a move from an origin of negative lon_rad (kahanaGeoHashEncode,      *)
(* kahanaGeoHashDecode and kahanaGeoCreateWithAngleAndDistanceFromOrigin of   *)
(* src/geo.c); a ciphertext reads as its text again (kahanaCipherEncrypt and  *)
(* kahanaCipherDecrypt of src/cipher.c); and a range whose address is the     *)
(* first of its network is that network, although kahanaNetCIDR of src/net.c  *)
(* adds up its bytes in the order of the network.                            *)
THEOREM ConversionsRight == Spec => []ConversionsAsTold
<1> DEFINE Inv == GeoPartInv /\ CipherPartInv /\ CidrPartInv
<1>1. Init => Inv
  <2>1. Init => GeoPartInv
    BY DEF Init, G!GeoInit, GeoPartInv, GeoInv
  <2>2. Init => CipherPartInv
    BY CipherInitial DEF CipherPartInv
  <2>3. Init => CidrPartInv
    BY DEF Init, N!CidrInit, N!NoRange, CidrPartInv, CidrInv
  <2> QED BY <2>1, <2>2, <2>3
<1>2. Inv /\ [Next]_vars => Inv'
  BY GeoInvKept, CipherKeeps, CidrKeeps
<1>3. Inv => ConversionsAsTold
  <2>1. GeoInv => G!GeohashOfPosition
    BY DEF GeoInv, OfItsCell, TellsChars, ItsOwn, G!GeohashOfPosition
  <2> QED BY <2>1, CipherReadsBack, RangeIs DEF GeoPartInv, CipherPartInv, CidrPartInv, ConversionsAsTold
<1> QED BY <1>1, <1>2, <1>3, PTL DEF Spec

-----------------------------------------------------------------------------
(* What is open by the time a call is at each of its places: what a socket has *)
(* acquired before each step of kahanaSockCreate,                             *)
SetupInv ==
  /\ phase = "none" => held = {}
  /\ phase = "event_base_new" => held = {"pool"}
  /\ phase = "getaddrinfo" => held = {"pool", "base"}
  /\ phase = "socket" => held = {"pool", "base", "addrinfo"}
  /\ phase \in {"setsockopt", "bind", "fcntl", "listen", "getsockopt", "live"} =>
       held = {"pool", "base", "fd"} /\ fd # "minus"
  /\ phase = "failed" => held \subseteq {"base"}
  /\ phase = "gone" => held \subseteq (IF fd = "zero" THEN {"fd"} ELSE {})

(* and the files and pipes of an attribute, which go with its pool. *)
OpenInv ==
  /\ part = "sock" => SetupInv
  /\ part = "load" /\ step # "read" => opened = 0
  /\ part = "cmd" => IF phase = "live" THEN \A f \in temps : f.pool = "sp" ELSE temps = {}

LEMMA OpenInit == Init => OpenInv
BY DEF Init, OpenInv, SetupInv, S!Init, L!LoadInit, C!CmdInit

LEMMA SockKeepsOpen ==
  ASSUME OpenInv, Sock(S!Next)
  PROVE  OpenInv'
<1>1. part = "sock" /\ part' = "sock"
  BY DEF Sock
<1>2. SetupInv
  BY <1>1 DEF OpenInv
<1> SUFFICES SetupInv'
  BY <1>1 DEF OpenInv
<1>3. CASE S!Malloc \/ S!EventBaseNew \/ S!Getaddrinfo
  BY <1>2, <1>3 DEF S!Malloc, S!EventBaseNew, S!Getaddrinfo, SetupInv
<1>4. CASE S!Socket
  BY <1>2, <1>4 DEF S!Socket, S!CleanUp, S!settings, SetupInv
<1>5. ASSUME NEW at0, NEW next,
             <<at0, next>> \in {<<"setsockopt", "bind">>, <<"bind", "fcntl">>, <<"fcntl", "listen">>,
                               <<"listen", "getsockopt">>},
             S!Configure(at0, next)
      PROVE  SetupInv'
  BY <1>2, <1>5 DEF S!Configure, S!CleanUp, SetupInv
<1>6. CASE S!ReadDefaults
  BY <1>2, <1>6 DEF S!ReadDefaults, SetupInv
<1>7. ASSUME NEW v \in Sizes, S!OptSetRcvBuf(v) \/ S!OptSetRcvTimeout(v) \/ S!OptSetSndTimeout(v)
      PROVE  SetupInv'
  BY <1>2, <1>7 DEF S!OptSetRcvBuf, S!OptSetRcvTimeout, S!OptSetSndTimeout, S!SetOpt, SetupInv
<1>8. ASSUME NEW s \in Signals, S!SetOnSignal(s) PROVE SetupInv'
  BY <1>2, <1>8 DEF S!SetOnSignal, SetupInv
<1>9. CASE S!Destroy
  BY <1>2, <1>9 DEF S!Destroy, S!Live, S!Closable, SetupInv
<1> QED BY <1>3, <1>4, <1>5, <1>6, <1>7, <1>8, <1>9 DEF Sock, S!Next, S!Create

LEMMA LoadKeepsOpen ==
  ASSUME OpenInv, Load(L!LoadFile) \/ Load(L!Others)
  PROVE  OpenInv'
<1>1. part = "load" /\ part' = "load"
  BY DEF Load
<1>2. CASE L!Stat
  BY <1>1, <1>2 DEF L!Stat, L!Refuse, OpenInv
<1>3. CASE L!Open
  BY <1>1, <1>3 DEF L!Open, L!Refuse, OpenInv
<1>4. CASE L!ReadFile \/ L!Others
  BY <1>1, <1>4 DEF L!ReadFile, L!Others, L!callVars, OpenInv
<1>5. CASE L!Finish
  BY <1>1, <1>5 DEF L!Finish, L!Refuse, OpenInv
<1> QED BY <1>2, <1>3, <1>4, <1>5 DEF Load, L!LoadFile

LEMMA CmdKeepsOpen ==
  ASSUME OpenInv, Cmd(C!CmdNext)
  PROVE  OpenInv'
<1>1. part = "cmd" /\ part' = "cmd"
  BY DEF Cmd
<1>2. CASE C!NewAttr
  <2>1. \A n : \A f \in C!OpenedBy(n) : f.pool = "sp"
    BY DEF C!OpenedBy, C!PoolOf
  <2>2. \A n : C!PoolDestroyed(C!OpenedBy(n), "sp") = {}
    BY <2>1 DEF C!PoolDestroyed
  <2>3. temps = {}
    BY <1>1, <1>2 DEF C!NewAttr, OpenInv
  <2>4. \/ phase' = "live" /\ temps' = C!OpenedBy(Len(C!AttrSteps))
        \/ \E n \in DOMAIN C!AttrSteps : phase' = "dangling" /\ temps' = C!PoolDestroyed(C!OpenedBy(n - 1), "sp")
        \/ phase' = "gone" /\ UNCHANGED temps
    BY <1>2 DEF C!NewAttr
  <2> QED BY <1>1, <2>1, <2>2, <2>3, <2>4 DEF OpenInv
<1>3. CASE C!DestroyAttr
  BY <1>1, <1>3 DEF C!DestroyAttr, C!PoolDestroyed, OpenInv
<1>4. CASE ~ C!NewAttr /\ ~ C!DestroyAttr
  <2>1. UNCHANGED <<phase, temps>>
    BY <1>4 DEF Cmd, C!CmdNext, C!RunProcess, C!CmdStep, C!Spawn, C!Wait, C!ReadError,
       C!ReadOutput, C!ChildWrites, C!ChildExits, C!runVars
  <2> QED BY <1>1, <2>1 DEF OpenInv
<1> QED BY <1>2, <1>3, <1>4

LEMMA StepKeepsOpen == OpenInv /\ [Next]_vars => OpenInv'
<1> SUFFICES ASSUME OpenInv, [Next]_vars PROVE OpenInv'
  OBVIOUS
<1>1. CASE UNCHANGED vars
  BY <1>1 DEF vars, sockOnly, loadOnly, cmdOnly, reading, OpenInv, SetupInv
<1>2. CASE \/ Path(P!PathNext)
           \/ part \in {"geo", "cipher", "cidr"} /\ UNCHANGED part
  BY <1>2 DEF Path, OpenInv
<1> QED BY <1>1, <1>2, SockKeepsOpen, LoadKeepsOpen, CmdKeepsOpen DEF Next, Alone

(* At whatever step kahanaSockCreate, kahanaIOLoadFile or the making of a      *)
(* command attribute fails, what the steps before it have opened is closed,   *)
(* the event base excepted; and the calls that destroy a socket or an         *)
(* attribute leave nothing open but a socket whose descriptor is 0.           *)
THEOREM ClosesWhatItOpens == Spec => []NothingLeftOpen
<1>1. OpenInv => NothingLeftOpen
  BY DEF OpenInv, SetupInv, NothingLeftOpen, S!NothingLeftOpen
<1> QED BY <1>1, OpenInit, StepKeepsOpen, PTL DEF Spec

-----------------------------------------------------------------------------
(* What stat() finds. *)
Things == {"none", "dir", "reg", "loop"}

Trees == [Names -> P!Nodes]

LEMMA FollowedUnfolds ==
  ASSUME NEW nodes \in Trees
  PROVE  \A k \in 0..MaxLinks, p \in Names :
           /\ P!Followed(nodes)[k][p] \in Things
           /\ P!Followed(nodes)[k][p] =
                IF nodes[p] \notin Names THEN nodes[p]
                ELSE IF k = 0 THEN "loop" ELSE P!Followed(nodes)[k - 1][nodes[p]]
<1> DEFINE n == MaxLinks
           Val == [Names -> Things]
           Body(g) == [k \in 0..n |->
                        [p \in Names |-> IF nodes[p] \notin Names THEN nodes[p]
                                         ELSE IF k = 0 THEN "loop" ELSE g[k - 1][nodes[p]]]]
           a == [p \in Names |-> IF nodes[p] \notin Names THEN nodes[p] ELSE "loop"]
           Step == [k \in 1..n |-> [s \in Val |->
                      [p \in Names |-> IF nodes[p] \notin Names THEN nodes[p] ELSE s[nodes[p]]]]]
<1>1. n \in Nat
  BY NamesAssumption
<1>2. P!Followed(nodes) = CHOOSE g : g = Body(g)
  BY DEF P!Followed
<1>3. \A p \in Names : nodes[p] \notin Names => nodes[p] \in Things
  BY DEF Trees, P!Nodes, Things
<1>4. a \in Val
  BY <1>3 DEF Things
<1>5. Step \in [1..n -> [Val -> Val]]
  BY <1>3
<1>6. \E f : Recursion(f, n, Val, a, Step)
  <2> HIDE DEF n, Val, a, Step
  <2> QED BY <1>1, <1>4, <1>5, RecursionUpTo
<1>7. PICK f : f \in [0..n -> Val] /\ f[0] = a /\ \A k \in 1..n : f[k] = Step[k][f[k - 1]]
  BY <1>6 DEF Recursion
<1>8. f = Body(f)
  <2>1. ASSUME NEW k \in 0..n PROVE f[k] = Body(f)[k]
    <3>1. CASE k = 0
      BY <1>7, <3>1
    <3>2. CASE k # 0
      <4>1. k \in 1..n /\ k - 1 \in 0..n
        BY <1>1, <3>2
      <4>2. f[k] = Step[k][f[k - 1]] /\ f[k - 1] \in Val
        BY <1>7, <4>1
      <4> QED BY <3>2, <4>1, <4>2
    <3> QED BY <3>1, <3>2
  <2>2. f = [k \in 0..n |-> f[k]] /\ Body(f) = [k \in 0..n |-> Body(f)[k]]
    BY <1>7
  <2> HIDE DEF Body
  <2> QED BY <2>1, <2>2
<1>9. P!Followed(nodes) = Body(P!Followed(nodes))
  <2> HIDE DEF Body
  <2> QED BY <1>2, <1>8
<1> DEFINE g == P!Followed(nodes)
<1>10. \A k \in 0..n, p \in Names :
         g[k][p] = IF nodes[p] \notin Names THEN nodes[p]
                   ELSE IF k = 0 THEN "loop" ELSE g[k - 1][nodes[p]]
  <2>1. \A h : \A k \in 0..n, p \in Names :
           Body(h)[k][p] = IF nodes[p] \notin Names THEN nodes[p]
                           ELSE IF k = 0 THEN "loop" ELSE h[k - 1][nodes[p]]
    OBVIOUS
  <2> HIDE DEF Body
  <2> QED BY <1>9, <2>1
<1>11. \A k \in 0..n, p \in Names : g[k][p] \in Things
  <2> DEFINE T == {k \in 0..n : \A p \in Names : g[k][p] \in Things}
  <2> HIDE DEF g
  <2>1. 0 \in T
    BY <1>1, <1>3, <1>10 DEF Things
  <2>2. ASSUME NEW k \in 1..n, k - 1 \in T PROVE k \in T
    <3>1. k \in 0..n /\ k # 0
      BY <1>1
    <3> QED BY <1>3, <1>10, <2>2, <3>1
  <2> HIDE DEF T
  <2>3. 0..n \subseteq T
    BY <1>1, <2>1, <2>2, UpTo
  <2> QED BY <2>3 DEF T
<1> QED BY <1>10, <1>11

LEMMA StatFinds ==
  ASSUME NEW nodes \in Trees, NEW p \in Names
  PROVE  /\ P!Stat(nodes, p) \in Things
         /\ nodes[p] \notin Names => P!Stat(nodes, p) = nodes[p]
BY FollowedUnfolds, NamesAssumption DEF P!Stat

(* Making what was not there changes nothing that stat() has found. *)
LEMMA StatKept ==
  ASSUME NEW nodes \in Trees, NEW more \in Trees,
         \A p \in Names : nodes[p] # "none" => more[p] = nodes[p],
         NEW q \in Names, P!Stat(nodes, q) # "none"
  PROVE  P!Stat(more, q) = P!Stat(nodes, q)
<1> DEFINE n == MaxLinks
           g == P!Followed(nodes)
           h == P!Followed(more)
           T == {k \in 0..n : \A p \in Names : g[k][p] # "none" => h[k][p] = g[k][p]}
<1>1. n \in Nat
  BY NamesAssumption
<1>2. \A k \in 0..n, p \in Names :
        /\ g[k][p] = IF nodes[p] \notin Names THEN nodes[p]
                     ELSE IF k = 0 THEN "loop" ELSE g[k - 1][nodes[p]]
        /\ h[k][p] = IF more[p] \notin Names THEN more[p]
                     ELSE IF k = 0 THEN "loop" ELSE h[k - 1][more[p]]
  BY FollowedUnfolds
<1> HIDE DEF g, h
<1>3. \A p \in Names : nodes[p] \in Names => more[p] = nodes[p]
  BY NamesAssumption
<1>4. 0 \in T
  <2>1. 0 \in 0..n
    BY <1>1
  <2> QED BY <1>2, <1>3, <2>1
<1>5. ASSUME NEW k \in 1..n, k - 1 \in T PROVE k \in T
  <2>1. k \in 0..n /\ k # 0
    BY <1>1
  <2>2. ASSUME NEW p \in Names, g[k][p] # "none" PROVE h[k][p] = g[k][p]
    <3>1. CASE nodes[p] \in Names
      BY <1>2, <1>3, <1>5, <2>1, <2>2, <3>1
    <3>2. CASE nodes[p] \notin Names
      BY <1>2, <2>1, <2>2, <3>2
    <3> QED BY <3>1, <3>2
  <2> QED BY <2>1, <2>2
<1> HIDE DEF T
<1>6. 0..n \subseteq T
  BY <1>1, <1>4, <1>5, UpTo
<1>7. n \in T
  BY <1>1, <1>6
<1> QED BY <1>7 DEF T, g, h, P!Stat

-----------------------------------------------------------------------------
(* What kahanaIOMakeDir and kahanaIOMakeSymlink have done before they look at  *)
(* path n, if nobody else has removed anything. *)
PathTypes ==
  /\ node \in Trees /\ before \in Trees
  /\ pstep \in {"idle", "check", "checksym", "make", "link", "returned"}
  /\ prc \in {"APR_SUCCESS", "APR_NOTFOUND", "APR_ENOENT", "other"}
  /\ foreign \subseteq Names /\ removed \in {"no", "yes"}
  /\ pstep = "idle" => call = "none" /\ args = <<>> /\ i = 1
  /\ pstep # "idle" =>
       /\ \/ call = "MakeDir" /\ args \in P!Lists(Names) /\ pstep \in {"check", "make", "returned"}
          \/ call = "MakeSymlink" /\ args \in P!Lists(P!Pairs)
             /\ pstep \in {"check", "checksym", "link", "returned"}
       /\ i \in DOMAIN args /\ args \in Seq(Names \cup P!Pairs)

(* A directory, or something that was not made by a call of kahanaIOMakeDir. *)
DirOrNot(p) == node[p] = "dir" \/ before[p] \in Names \/ p \in foreign

Dirs(n) == \A k \in DOMAIN args : k <= n => node[args[k]] # "none"

Links(n) == \A k \in DOMAIN args : k <= n /\ P!Stat(before, args[k][1]) # "none" => node[args[k][2]] # "none"

MadeInv ==
  removed = "no" =>
    /\ \A p \in Names : before[p] # "none" => node[p] = before[p]
    /\ pstep = "idle" => node = before
    /\ call = "MakeDir" =>
         /\ \A p \in Names : node[p] \in Names => DirOrNot(p)
         /\ pstep \in {"check", "make"} => Dirs(i - 1)
         /\ pstep = "make" => node[args[i]] = "none" \/ DirOrNot(args[i])
         /\ pstep = "returned" /\ prc \in {"APR_SUCCESS", "APR_NOTFOUND"} => Dirs(i) /\ i = Len(args)
         /\ pstep = "returned" /\ prc = "APR_SUCCESS" => DirOrNot(args[i])
         /\ pstep = "returned" /\ prc = "APR_NOTFOUND" => P!Stat(node, args[i]) \notin {"dir", "none"}
    /\ call = "MakeSymlink" =>
         /\ pstep \in {"check", "checksym", "link"} => Links(i - 1)
         /\ pstep = "link" => prc = "APR_ENOENT"
         /\ pstep = "returned" /\ prc \in {"APR_SUCCESS", "APR_NOTFOUND"} => Links(i) /\ i = Len(args)

PathInv == part = "path" => PathTypes /\ MadeInv

(* PathTypeIs answers that there is something only if there is, and that the  *)
(* type is right only if stat() finds it. *)
LEMMA PathTypeIsTells ==
  ASSUME node \in Trees, NEW p \in Names, NEW types, types \cap {"none", "loop"} = {},
         NEW answer \in P!PathTypeIs(p, types)
  PROVE  /\ answer \in {"APR_SUCCESS", "APR_NOTFOUND", "APR_ENOENT", "other"}
         /\ answer = "APR_ENOENT" <=> answer # "other" /\ P!Stat(node, p) = "none"
         /\ answer = "APR_SUCCESS" => P!Stat(node, p) \in types
         /\ answer = "APR_NOTFOUND" => P!Stat(node, p) \notin types
         /\ answer \in {"APR_SUCCESS", "APR_NOTFOUND"} => node[p] # "none"
<1>1. P!Stat(node, p) \in Things /\ (node[p] = "none" => P!Stat(node, p) = "none")
  BY StatFinds, NamesAssumption
<1>2. CASE P!Stat(node, p) = "none"
  BY <1>2 DEF P!PathTypeIs
<1>3. CASE P!Stat(node, p) = "loop"
  BY <1>3 DEF P!PathTypeIs
<1>4. CASE P!Stat(node, p) \notin {"none", "loop"}
  <2> HIDE DEF P!Stat
  <2>1. CASE P!Stat(node, p) \in types
    BY <1>1, <1>4, <2>1 DEF P!PathTypeIs
  <2>2. CASE P!Stat(node, p) \notin types
    BY <1>1, <1>4, <2>2 DEF P!PathTypeIs
  <2> QED BY <2>1, <2>2
<1> QED BY <1>2, <1>3, <1>4

(* The paths of a call, and the one it is at. *)
LEMMA ArgsAre ==
  ASSUME PathTypes, pstep # "idle"
  PROVE  /\ Len(args) \in Nat /\ i \in Nat /\ i <= Len(args) /\ i \in DOMAIN args
         /\ \A k : k \in DOMAIN args <=> k \in Nat /\ 1 <= k /\ k <= Len(args)
         /\ call = "MakeDir" => \A k \in DOMAIN args : args[k] \in Names
         /\ call = "MakeSymlink" => \A k \in DOMAIN args : args[k][1] \in Names /\ args[k][2] \in Names
<1>1. args \in Seq(Names \cup P!Pairs) /\ i \in DOMAIN args
  BY DEF PathTypes
<1>2. Len(args) \in Nat /\ \A k : k \in DOMAIN args <=> k \in Nat /\ 1 <= k /\ k <= Len(args)
  BY <1>1
<1>3. CASE call = "MakeDir"
  BY <1>1, <1>2, <1>3 DEF PathTypes, P!Lists
<1>4. CASE call = "MakeSymlink"
  <2>1. \A k \in DOMAIN args : args[k] \in P!Pairs
    BY <1>1, <1>4 DEF PathTypes, P!Lists
  <2> QED BY <1>1, <1>2, <1>4, <2>1 DEF P!Pairs
<1> QED BY <1>1, <1>2, <1>3, <1>4 DEF PathTypes

LEMMA InterfereKeeps ==
  ASSUME PathTypes, MadeInv, P!Interfere
  PROVE  PathTypes' /\ MadeInv'
<1>1. PathTypes'
  BY DEF P!Interfere, PathTypes, Trees, P!Nodes
<1>2. PICK p \in Names, n \in P!Nodes :
        /\ node[p] # n /\ node' = [node EXCEPT ![p] = n]
        /\ removed' = IF node[p] = "none" THEN removed ELSE "yes"
        /\ foreign' = IF removed' = "yes" THEN {} ELSE IF n = "dir" THEN foreign ELSE foreign \cup {p}
  BY DEF P!Interfere
<1>3. pstep \notin {"idle", "returned"} /\ UNCHANGED <<call, args, i, pstep, prc, before>>
  BY DEF P!Interfere
<1>4. ASSUME removed' = "no" PROVE MadeInv'
  <2>1. removed = "no" /\ node[p] = "none" /\ n # "none"
    BY <1>2, <1>4
  <2>2. /\ node'[p] = n /\ \A q \in Names : q # p => node'[q] = node[q]
        /\ foreign \subseteq foreign' /\ (n = "dir" \/ p \in foreign')
    BY <1>2, <2>1 DEF PathTypes, Trees
  <2>3. \A q \in Names : node[q] # "none" => node'[q] = node[q]
    BY <2>1, <2>2
  <2>4. \A q \in Names : (node[q] = "none" \/ DirOrNot(q)) => node'[q] = "none" \/ DirOrNot(q)'
    BY <1>3, <2>2 DEF DirOrNot
  <2>5. \A q \in Names : node'[q] # "none" /\ (node[q] = "none" \/ DirOrNot(q)) => DirOrNot(q)'
    BY <2>4
  <2>6. /\ call = "MakeDir" => \A k \in DOMAIN args : args[k] \in Names
        /\ call = "MakeSymlink" => \A k \in DOMAIN args : args[k][1] \in Names /\ args[k][2] \in Names
        /\ i \in DOMAIN args
    BY <1>3, ArgsAre
  <2>7. \A q \in Names : before[q] # "none" => node'[q] = before[q]
    BY <2>1, <2>3 DEF MadeInv
  <2>8. CASE call = "MakeDir"
    <3>1. \A q \in Names : node'[q] \in Names => DirOrNot(q)'
      <4> SUFFICES ASSUME NEW q \in Names, node'[q] \in Names PROVE DirOrNot(q)'
        OBVIOUS
      <4>1. node'[q] # "none"
        BY NamesAssumption
      <4>2. CASE q = p
        BY <2>1, <2>5, <4>1, <4>2
      <4>3. CASE q # p
        BY <2>1, <2>2, <2>5, <2>8, <4>1, <4>3 DEF MadeInv
      <4> QED BY <4>2, <4>3
    <3>3. pstep \in {"check", "make"} => Dirs(i - 1)'
      <4>1. pstep \in {"check", "make"} => Dirs(i - 1)
        BY <2>1, <2>8 DEF MadeInv
      <4>2. Dirs(i - 1)' <=> \A k \in DOMAIN args : k <= i - 1 => node'[args[k]] # "none"
        BY <1>3 DEF Dirs
      <4>3. Dirs(i - 1) => \A k \in DOMAIN args : k <= i - 1 => node'[args[k]] # "none"
        BY <2>3, <2>6, <2>8 DEF Dirs
      <4> QED BY <4>1, <4>2, <4>3
    <3>5. DirOrNot(args[i])' <=> (node'[args[i]] = "dir" \/ before[args[i]] \in Names \/ args[i] \in foreign')
      BY <1>3 DEF DirOrNot
    <3>6. pstep = "make" => args[i] \in Names /\ (node[args[i]] = "none" \/ DirOrNot(args[i]))
      BY <2>1, <2>6, <2>8 DEF MadeInv
    <3>7. args[i] \in Names /\ (node[args[i]] = "none" \/ DirOrNot(args[i])) =>
            node'[args[i]] = "none" \/ DirOrNot(args[i])'
      BY <1>3, <2>2, <3>5 DEF DirOrNot
    <3>4. pstep = "make" => node'[args[i]] = "none" \/ DirOrNot(args[i])'
      BY <3>6, <3>7
    <3> QED BY <1>3, <2>7, <2>8, <3>1, <3>3, <3>4, <3>5 DEF MadeInv, DirOrNot
  <2>9. CASE call = "MakeSymlink"
    <3>1. pstep \in {"check", "checksym", "link"} => Links(i - 1)'
      BY <1>3, <2>1, <2>3, <2>6, <2>9 DEF MadeInv, Links, P!Stat, P!Followed
    <3> QED BY <1>3, <2>1, <2>7, <2>9, <3>1 DEF MadeInv
  <2> QED BY <1>3, <2>8, <2>9 DEF PathTypes
<1>5. ASSUME removed' # "no" PROVE MadeInv'
  BY <1>5 DEF MadeInv
<1>6. MadeInv'
  BY <1>4, <1>5
<1> QED BY <1>1, <1>6

LEMMA BeginKeeps ==
  ASSUME PathTypes, MadeInv, P!Begin
  PROVE  PathTypes' /\ MadeInv'
<1>1. /\ pstep = "idle" /\ pstep' = "check" /\ i = 1 /\ i' = 1
      /\ UNCHANGED <<node, prc, before, foreign, removed>>
      /\ \/ call' = "MakeDir" /\ args' \in P!Lists(Names)
         \/ call' = "MakeSymlink" /\ args' \in P!Lists(P!Pairs)
  BY DEF P!Begin, PathTypes
<1>2. /\ 1 \in DOMAIN args' /\ args' \in Seq(Names \cup P!Pairs)
      /\ \A k \in DOMAIN args' : ~ (k <= 0)
  <2>1. PICK n \in 1..MaxArgs, Any \in {Names, P!Pairs} : args' \in [1..n -> Any]
    BY <1>1 DEF P!Lists
  <2>2. n \in Nat /\ n >= 1
    BY <2>1, BoundsAssumption
  <2>3. args' \in [1..n -> Names \cup P!Pairs]
    BY <2>1
  <2> QED BY <2>2, <2>3
<1>3. PathTypes'
  BY <1>1, <1>2 DEF PathTypes
<1>4. MadeInv'
  BY <1>1, <1>2 DEF PathTypes, MadeInv, DirOrNot, Dirs, Links
<1> QED BY <1>3, <1>4

(* Next1, for a path of the call. *)
LEMMA GoesOn ==
  ASSUME PathTypes, pstep # "idle", P!Next1
  PROVE  \/ i < Len(args) /\ i' = i + 1 /\ i + 1 \in DOMAIN args /\ pstep' = "check"
         \/ i = Len(args) /\ i' = i /\ i \in DOMAIN args /\ pstep' = "returned"
<1>1. /\ Len(args) \in Nat /\ i \in Nat /\ i <= Len(args) /\ i \in DOMAIN args
      /\ \A k : k \in DOMAIN args <=> k \in Nat /\ 1 <= k /\ k <= Len(args)
  BY ArgsAre
<1>2. CASE i < Len(args)
  <2>1. i' = i + 1 /\ pstep' = "check"
    BY <1>2 DEF P!Next1
  <2> QED BY <1>1, <1>2, <2>1
<1>3. CASE ~ (i < Len(args))
  <2>1. i' = i /\ pstep' = "returned"
    BY <1>3 DEF P!Next1
  <2> QED BY <1>1, <1>3, <2>1
<1> QED BY <1>2, <1>3

LEMMA CheckDirKeeps ==
  ASSUME PathTypes, MadeInv, P!CheckDir
  PROVE  PathTypes' /\ MadeInv'
<1>1. /\ pstep = "check" /\ call = "MakeDir" /\ UNCHANGED <<node, call, args, before, foreign, removed>>
      /\ prc' \in P!PathTypeIs(args[i], {"dir"})
  BY DEF P!CheckDir
<1>2. /\ Len(args) \in Nat /\ i \in Nat /\ i <= Len(args) /\ i \in DOMAIN args
      /\ DOMAIN args \subseteq Nat /\ args[i] \in Names
  BY <1>1, ArgsAre
<1>3. /\ prc' \in {"APR_SUCCESS", "APR_NOTFOUND", "APR_ENOENT", "other"}
      /\ prc' = "APR_ENOENT" => P!Stat(node, args[i]) = "none"
      /\ prc' = "APR_SUCCESS" => P!Stat(node, args[i]) = "dir"
      /\ prc' = "APR_NOTFOUND" => P!Stat(node, args[i]) \notin {"dir", "none"}
      /\ prc' \in {"APR_SUCCESS", "APR_NOTFOUND"} => node[args[i]] # "none"
  BY <1>1, <1>2, PathTypeIsTells DEF PathTypes
<1>4. \/ prc' = "other" /\ pstep' = "returned" /\ i' = i
      \/ /\ prc' \in {"APR_SUCCESS", "APR_NOTFOUND"}
         /\ i < Len(args) /\ i' = i + 1 /\ i + 1 \in DOMAIN args /\ pstep' = "check"
      \/ prc' \in {"APR_SUCCESS", "APR_NOTFOUND"} /\ i = Len(args) /\ i' = i /\ pstep' = "returned"
      \/ prc' = "APR_ENOENT" /\ pstep' = "make" /\ i' = i
  BY <1>1, GoesOn DEF P!CheckDir, P!Break
<1>5. PathTypes'
  <2>1. i' \in DOMAIN args /\ pstep' \in {"check", "make", "returned"}
    BY <1>2, <1>4
  <2> QED BY <1>1, <1>3, <2>1 DEF PathTypes
<1>6. node[args[i]] \notin Names => node[args[i]] = P!Stat(node, args[i])
  BY <1>2, StatFinds DEF PathTypes
<1>7. ASSUME removed = "no" PROVE MadeInv'
  <2>1. /\ \A p \in Names : before[p] # "none" => node[p] = before[p]
        /\ \A p \in Names : node[p] \in Names => DirOrNot(p)
        /\ Dirs(i - 1)
    BY <1>1, <1>7 DEF MadeInv
  <2>2. prc' \in {"APR_SUCCESS", "APR_NOTFOUND"} => Dirs(i)
    BY <1>2, <1>3, <2>1 DEF Dirs
  <2>3. /\ prc' = "APR_SUCCESS" => DirOrNot(args[i])
        /\ prc' = "APR_ENOENT" => node[args[i]] = "none" \/ DirOrNot(args[i])
    BY <1>2, <1>3, <1>6, <2>1 DEF DirOrNot
  <2>4. /\ \A n : Dirs(n)' <=> Dirs(n)
        /\ \A p \in Names : DirOrNot(p)' <=> DirOrNot(p)
    BY <1>1 DEF Dirs, DirOrNot
  <2>5. /\ i' = i => P!Stat(node, args[i])' = P!Stat(node, args[i])
        /\ i' = i => args'[i'] = args[i]
    BY <1>1 DEF P!Stat, P!Followed
  <2>6. CASE i' = i
    <3>1. CASE pstep' = "make"
      BY <1>1, <1>2, <1>3, <1>4, <2>1, <2>3, <2>4, <2>5, <2>6, <3>1 DEF MadeInv, DirOrNot
    <3>2. CASE pstep' = "returned"
      BY <1>1, <1>2, <1>3, <1>4, <2>1, <2>2, <2>3, <2>4, <2>5, <2>6, <3>2 DEF MadeInv, DirOrNot
    <3>3. i # i + 1
      BY <1>2
    <3> QED BY <1>4, <2>6, <3>1, <3>2, <3>3
  <2>7. CASE i' = i + 1
    <3>1. i # i + 1 /\ i + 1 - 1 = i
      BY <1>2
    <3>2. pstep' = "check" /\ Dirs(i)
      BY <1>4, <2>2, <2>7, <3>1
    <3>3. i' - 1 = i
      BY <1>2, <2>7
    <3> QED BY <1>1, <2>1, <2>4, <3>2, <3>3 DEF MadeInv
  <2> QED BY <1>4, <2>6, <2>7
<1>8. ASSUME removed # "no" PROVE MadeInv'
  BY <1>1, <1>8 DEF MadeInv
<1> QED BY <1>5, <1>7, <1>8

LEMMA MakeDirKeeps ==
  ASSUME PathTypes, MadeInv, P!MakeDir
  PROVE  PathTypes' /\ MadeInv'
<1>1. pstep = "make" /\ call = "MakeDir" /\ UNCHANGED <<call, args, before, foreign, removed>>
  BY DEF P!MakeDir, PathTypes
<1>2. /\ Len(args) \in Nat /\ i \in Nat /\ i <= Len(args) /\ i \in DOMAIN args
      /\ DOMAIN args \subseteq Nat /\ \A k \in DOMAIN args : args[k] \in Names
  BY <1>1, ArgsAre
<1>3. \/ prc' = "other" /\ pstep' = "returned" /\ i' = i /\ node' = node
      \/ /\ prc' = "APR_SUCCESS"
         /\ node' = [node EXCEPT ![args[i]] = IF @ = "none" THEN "dir" ELSE @]
         /\ \/ i < Len(args) /\ i' = i + 1 /\ i + 1 \in DOMAIN args /\ pstep' = "check"
            \/ i = Len(args) /\ i' = i /\ pstep' = "returned"
  BY <1>1, GoesOn DEF P!MakeDir, P!Break
<1>4. /\ node' \in Trees
      /\ \A p \in Names : node[p] # "none" => node'[p] = node[p]
      /\ \A p \in Names : node'[p] \in Names => node'[p] = node[p]
      /\ prc' = "APR_SUCCESS" => node'[args[i]] # "none"
      /\ prc' = "APR_SUCCESS" /\ node[args[i]] = "none" => node'[args[i]] = "dir"
  BY <1>2, <1>3, NamesAssumption DEF PathTypes, Trees, P!Nodes
<1>5. PathTypes'
  <2>1. i' \in DOMAIN args /\ pstep' \in {"check", "returned"}
    BY <1>2, <1>3
  <2> QED BY <1>1, <1>3, <1>4, <2>1 DEF PathTypes
<1>6. ASSUME removed = "no" PROVE MadeInv'
  <2>1. /\ \A p \in Names : before[p] # "none" => node[p] = before[p]
        /\ \A p \in Names : node[p] \in Names => DirOrNot(p)
        /\ Dirs(i - 1) /\ (node[args[i]] = "none" \/ DirOrNot(args[i]))
    BY <1>1, <1>6 DEF MadeInv
  <2>7. \A p \in Names : DirOrNot(p)' <=> (node'[p] = "dir" \/ before[p] \in Names \/ p \in foreign)
    BY <1>1 DEF DirOrNot
  <2>2. /\ \A p \in Names : before[p] # "none" => node'[p] = before[p]
        /\ \A p \in Names : node'[p] \in Names => DirOrNot(p)'
    BY <1>4, <2>1, <2>7 DEF DirOrNot
  <2>3. ASSUME prc' = "APR_SUCCESS" PROVE \A k \in DOMAIN args : k <= i => node'[args[k]] # "none"
    BY <1>2, <1>4, <2>1, <2>3 DEF Dirs
  <2>4. ASSUME prc' = "APR_SUCCESS"
        PROVE  node'[args[i]] = "dir" \/ before[args[i]] \in Names \/ args[i] \in foreign
    <3>1. args[i] \in Names
      BY <1>2
    <3>2. node[args[i]] = "none" => node'[args[i]] = "dir"
      BY <1>4, <2>4
    <3>3. node[args[i]] = "dir" => node'[args[i]] = "dir"
      BY <1>4, <3>1
    <3> QED BY <2>1, <3>2, <3>3 DEF DirOrNot
  <2>5. CASE pstep' = "returned"
    <3>1. i' = i /\ (prc' = "other" \/ (prc' = "APR_SUCCESS" /\ i = Len(args)))
      BY <1>3, <2>5
    <3> QED BY <1>1, <2>2, <2>3, <2>4, <2>5, <3>1 DEF MadeInv, Dirs, DirOrNot
  <2>6. CASE pstep' = "check"
    <3>1. prc' = "APR_SUCCESS" /\ i' = i + 1
      BY <1>3, <2>6
    <3>2. i' - 1 = i
      BY <1>2, <3>1
    <3> QED BY <1>1, <2>2, <2>3, <2>6, <3>1, <3>2 DEF MadeInv, Dirs, DirOrNot
  <2> QED BY <1>3, <2>5, <2>6
<1>7. ASSUME removed # "no" PROVE MadeInv'
  BY <1>1, <1>7 DEF MadeInv
<1> QED BY <1>5, <1>6, <1>7

LEMMA CheckSourceKeeps ==
  ASSUME PathTypes, MadeInv, P!CheckSource
  PROVE  PathTypes' /\ MadeInv'
<1>1. /\ pstep = "check" /\ call = "MakeSymlink" /\ UNCHANGED <<node, call, args, before, foreign, removed>>
      /\ prc' \in P!PathTypeIs(args[i][1], {"reg", "dir", "link"})
  BY DEF P!CheckSource
<1>2. /\ Len(args) \in Nat /\ i \in Nat /\ i <= Len(args) /\ i \in DOMAIN args
      /\ DOMAIN args \subseteq Nat /\ args[i][1] \in Names
  BY <1>1, ArgsAre
<1>3. /\ prc' \in {"APR_SUCCESS", "APR_NOTFOUND", "APR_ENOENT", "other"}
      /\ prc' = "APR_ENOENT" => P!Stat(node, args[i][1]) = "none"
  BY <1>1, <1>2, PathTypeIsTells DEF PathTypes
<1>4. \/ prc' = "other" /\ pstep' = "returned" /\ i' = i
      \/ prc' = "APR_ENOENT" /\ i < Len(args) /\ i' = i + 1 /\ i + 1 \in DOMAIN args /\ pstep' = "check"
      \/ prc' = "APR_ENOENT" /\ i = Len(args) /\ i' = i /\ pstep' = "returned"
      \/ prc' \in {"APR_SUCCESS", "APR_NOTFOUND"} /\ pstep' = "checksym" /\ i' = i
  BY <1>1, GoesOn DEF P!CheckSource, P!Break
<1>5. PathTypes'
  <2>1. i' \in DOMAIN args /\ pstep' \in {"check", "checksym", "returned"}
    BY <1>2, <1>4
  <2> QED BY <1>1, <1>3, <2>1 DEF PathTypes
<1>6. ASSUME removed = "no" PROVE MadeInv'
  <2>1. (\A p \in Names : before[p] # "none" => node[p] = before[p]) /\ Links(i - 1)
    BY <1>1, <1>6 DEF MadeInv
  <2>2. P!Stat(node, args[i][1]) = "none" => P!Stat(before, args[i][1]) = "none"
    BY <1>2, <2>1, StatKept DEF PathTypes
  <2>3. prc' = "APR_ENOENT" => Links(i)
    BY <1>2, <1>3, <2>1, <2>2 DEF Links
  <2>4. \A n : Links(n)' <=> Links(n)
    BY <1>1 DEF Links, P!Stat, P!Followed
  <2>5. CASE pstep' = "check"
    <3>1. prc' = "APR_ENOENT" /\ i' = i + 1
      BY <1>4, <2>5
    <3>2. i' - 1 = i
      BY <1>2, <3>1
    <3> QED BY <1>1, <2>1, <2>3, <2>4, <2>5, <3>1, <3>2 DEF MadeInv
  <2>6. CASE pstep' # "check"
    <3>1. /\ i' = i /\ (pstep' = "returned" => prc' \in {"other", "APR_ENOENT"})
          /\ pstep' \in {"checksym", "returned"}
      BY <1>4, <2>6
    <3> QED BY <1>1, <2>1, <2>4, <3>1 DEF MadeInv
  <2> QED BY <2>5, <2>6
<1>7. ASSUME removed # "no" PROVE MadeInv'
  BY <1>1, <1>7 DEF MadeInv
<1> QED BY <1>5, <1>6, <1>7

LEMMA CheckLinkKeeps ==
  ASSUME PathTypes, MadeInv, P!CheckLink
  PROVE  PathTypes' /\ MadeInv'
<1>1. /\ pstep = "checksym" /\ call = "MakeSymlink" /\ UNCHANGED <<node, call, args, before, foreign, removed>>
      /\ prc' \in P!PathTypeIs(args[i][2], {"link"})
  BY DEF P!CheckLink, PathTypes
<1>2. /\ Len(args) \in Nat /\ i \in Nat /\ i <= Len(args) /\ i \in DOMAIN args
      /\ DOMAIN args \subseteq Nat /\ args[i][2] \in Names
  BY <1>1, ArgsAre
<1>3. /\ prc' \in {"APR_NOTFOUND", "APR_ENOENT", "other"}
      /\ prc' = "APR_NOTFOUND" => node[args[i][2]] # "none"
  BY <1>1, <1>2, PathTypeIsTells, StatFinds DEF PathTypes, Things
<1>4. \/ prc' = "other" /\ pstep' = "returned" /\ i' = i
      \/ prc' = "APR_NOTFOUND" /\ i < Len(args) /\ i' = i + 1 /\ i + 1 \in DOMAIN args /\ pstep' = "check"
      \/ prc' = "APR_NOTFOUND" /\ i = Len(args) /\ i' = i /\ pstep' = "returned"
      \/ prc' = "APR_ENOENT" /\ pstep' = "link" /\ i' = i
  BY <1>1, <1>3, GoesOn DEF P!CheckLink, P!Break
<1>5. PathTypes'
  <2>1. i' \in DOMAIN args /\ pstep' \in {"check", "link", "returned"}
    BY <1>2, <1>4
  <2> QED BY <1>1, <1>3, <2>1 DEF PathTypes
<1>6. ASSUME removed = "no" PROVE MadeInv'
  <2>1. (\A p \in Names : before[p] # "none" => node[p] = before[p]) /\ Links(i - 1)
    BY <1>1, <1>6 DEF MadeInv
  <2>2. prc' = "APR_NOTFOUND" => Links(i)
    BY <1>2, <1>3, <2>1 DEF Links
  <2>3. \A n : Links(n)' <=> Links(n)
    BY <1>1 DEF Links, P!Stat, P!Followed
  <2>4. CASE pstep' = "check"
    <3>1. prc' = "APR_NOTFOUND" /\ i' = i + 1
      BY <1>4, <2>4
    <3>2. i' - 1 = i
      BY <1>2, <3>1
    <3> QED BY <1>1, <2>1, <2>2, <2>3, <2>4, <3>1, <3>2 DEF MadeInv
  <2>5. CASE pstep' = "link"
    <3>1. prc' = "APR_ENOENT" /\ i' = i
      BY <1>4, <2>5
    <3> QED BY <1>1, <2>1, <2>3, <2>5, <3>1 DEF MadeInv
  <2>6. CASE pstep' = "returned"
    <3>1. i' = i /\ (prc' = "other" \/ (prc' = "APR_NOTFOUND" /\ i = Len(args)))
      BY <1>4, <2>6
    <3> QED BY <1>1, <2>1, <2>2, <2>3, <2>6, <3>1 DEF MadeInv
  <2> QED BY <1>4, <2>4, <2>5, <2>6
<1>7. ASSUME removed # "no" PROVE MadeInv'
  BY <1>1, <1>7 DEF MadeInv
<1> QED BY <1>5, <1>6, <1>7

LEMMA MakeSymlinkKeeps ==
  ASSUME PathTypes, MadeInv, P!MakeSymlink
  PROVE  PathTypes' /\ MadeInv'
<1>1. pstep = "link" /\ call = "MakeSymlink" /\ UNCHANGED <<call, args, prc, before, foreign, removed>>
  BY DEF P!MakeSymlink, PathTypes
<1>2. /\ Len(args) \in Nat /\ i \in Nat /\ i <= Len(args) /\ i \in DOMAIN args
      /\ DOMAIN args \subseteq Nat
      /\ \A k \in DOMAIN args : args[k][1] \in Names /\ args[k][2] \in Names
  BY <1>1, ArgsAre
<1>3. \/ pstep' = "returned" /\ i' = i /\ node' = node
      \/ /\ node[args[i][2]] = "none" /\ node' = [node EXCEPT ![args[i][2]] = args[i][1]]
         /\ \/ i < Len(args) /\ i' = i + 1 /\ i + 1 \in DOMAIN args /\ pstep' = "check"
            \/ i = Len(args) /\ i' = i /\ pstep' = "returned"
  BY <1>1, GoesOn DEF P!MakeSymlink, P!Break
<1>4. /\ node' \in Trees
      /\ \A p \in Names : node[p] # "none" => node'[p] = node[p]
      /\ pstep' = "check" => node'[args[i][2]] # "none"
  BY <1>2, <1>3, NamesAssumption DEF PathTypes, Trees, P!Nodes
<1>5. PathTypes'
  <2>1. i' \in DOMAIN args /\ pstep' \in {"check", "returned"}
    BY <1>2, <1>3
  <2> QED BY <1>1, <1>4, <2>1 DEF PathTypes
<1>6. ASSUME removed = "no" PROVE MadeInv'
  <2>1. /\ \A p \in Names : before[p] # "none" => node[p] = before[p]
        /\ Links(i - 1) /\ prc = "APR_ENOENT"
    BY <1>1, <1>6 DEF MadeInv
  <2>2. \A p \in Names : before[p] # "none" => node'[p] = before[p]
    BY <1>4, <2>1
  <2>3. CASE pstep' = "check"
    <3>1. i' = i + 1
      BY <1>3, <2>3
    <3>2. i' - 1 = i
      BY <1>2, <3>1
    <3>3. \A k \in DOMAIN args : k <= i /\ P!Stat(before, args[k][1]) # "none" => node'[args[k][2]] # "none"
      BY <1>2, <1>4, <2>1, <2>3 DEF Links
    <3> QED BY <1>1, <2>2, <2>3, <3>2, <3>3 DEF MadeInv, Links, P!Stat, P!Followed
  <2>4. CASE pstep' = "returned"
    BY <1>1, <2>1, <2>2, <2>4 DEF MadeInv
  <2> QED BY <1>3, <2>3, <2>4
<1>7. ASSUME removed # "no" PROVE MadeInv'
  BY <1>1, <1>7 DEF MadeInv
<1> QED BY <1>5, <1>6, <1>7

LEMMA PathInitial == Init => PathInv
<1> SUFFICES ASSUME Init, part = "path" PROVE PathTypes /\ MadeInv
  BY DEF PathInv
<1>1. /\ node \in Trees /\ before = node /\ foreign = {} /\ removed = "no" /\ call = "none" /\ args = <<>> /\ i = 1
      /\ pstep = "idle" /\ prc = "APR_SUCCESS"
  BY DEF Init, P!PathInit, Trees
<1> QED BY <1>1 DEF PathTypes, MadeInv

LEMMA PathKeeps == PathInv /\ [Next]_vars => PathInv'
<1> SUFFICES ASSUME PathInv, [Next]_vars, part' = "path" PROVE PathTypes' /\ MadeInv'
  BY DEF PathInv
<1>1. CASE Path(P!PathNext)
  <2>1. PathTypes /\ MadeInv
    BY <1>1 DEF Path, PathInv
  <2> QED BY <1>1, <2>1, InterfereKeeps, BeginKeeps, CheckDirKeeps, MakeDirKeeps,
             CheckSourceKeeps, CheckLinkKeeps, MakeSymlinkKeeps DEF Path, P!PathNext, P!PathStep
<1>2. CASE UNCHANGED vars
  <2>1. PathTypes /\ MadeInv /\ UNCHANGED paths
    BY <1>2 DEF PathInv, vars
  <2>2. PathTypes'
    BY <2>1 DEF PathTypes, paths
  <2>3. /\ \A n : (Dirs(n)' <=> Dirs(n)) /\ (Links(n)' <=> Links(n))
        /\ P!Stat(node, args[i])' = P!Stat(node, args[i])
        /\ \A p : DirOrNot(p)' <=> DirOrNot(p)
    BY <2>1 DEF Dirs, Links, DirOrNot, P!Stat, P!Followed, paths
  <2>4. MadeInv'
    BY <2>1, <2>3 DEF MadeInv, DirOrNot, paths
  <2> QED BY <2>2, <2>4
<1>3. CASE ~ Path(P!PathNext) /\ ~ UNCHANGED vars
  <2>1. part' # "path"
    BY <1>3 DEF Next, Sock, Load, Cmd, Alone
  <2> QED BY <2>1
<1> QED BY <1>1, <1>2, <1>3

(* Whatever other processes make meanwhile, if none removes anything: when    *)
(* kahanaIOMakeDir returns APR_SUCCESS there is something at every path and a *)
(* directory at the last, unless a link was there or another process made     *)
(* something else there; unless kahanaIOMakeSymlink broke off there is        *)
(* something at every link whose source was there; and what was there is     *)
(* unchanged.                                                                *)
THEOREM PathsMadeAsTold == Spec => []PathsAsTold
<1>1. PathInv => PathsAsTold
  <2> SUFFICES ASSUME PathTypes, MadeInv PROVE P!MadeAsTold
    BY DEF PathInv, PathsAsTold
  <2>1. CASE pstep # "returned"
    BY <2>1 DEF P!MadeAsTold, P!Returned, MadeInv
  <2>2. CASE pstep = "returned"
    <3>1. Len(args) \in Nat /\ \A k \in DOMAIN args : k <= Len(args)
      BY <2>2, ArgsAre
    <3> QED BY <2>2, <3>1 DEF P!MadeAsTold, P!Returned, MadeInv, DirOrNot, Dirs, Links
  <2> QED BY <2>1, <2>2
<1> QED BY <1>1, PathInitial, PathKeeps, PTL DEF Spec

-----------------------------------------------------------------------------
(* The loading of a file. *)
Chars == Letters \cup {Nul}
Files == {s \in Seq(Chars) : Len(s) <= MaxFile}

LoadTypes ==
  /\ files \in [1..2 -> Files] /\ named \in 0..2 /\ opened \in 0..2 /\ stated \in Files
  /\ step \in {"idle", "stat", "read", "returned"} /\ rc \in {"ok", "err"}
  /\ rd \in {"idle", "reading", "done", "failed"} /\ since \subseteq {"grown", "cut", "moved"}
  /\ size \in 0..MaxFile /\ at \in 0..MaxFile /\ room \in 0..Chunk
  /\ text \in Seq(Chars) /\ Len(text) <= at
  /\ out \in Seq(Chars \cup {Stray}) /\ Len(out) <= MaxFile + 1
  /\ data \in Seq(Chars \cup {Stray}) /\ Len(data) <= MaxFile + 1

(* A file as stat() found it, which may have grown since. *)
Held(s) == Begins(stated, s) /\ (since = {} => s = stated)

LoadInv ==
  /\ step \in {"idle", "stat"} => rd = "idle"
  /\ step = "read" => opened # 0
  /\ rd = "idle" => at = 0 /\ text = <<>>
  /\ step = "returned" /\ rc = "ok" => rd = "done" /\ data = out /\ size = Len(stated)
  /\ rd = "done" /\ text # <<>> => out = L!F!CString(text)
  /\ since \subseteq {"grown"} =>
       /\ step = "stat" /\ named # 0 => Held(files[named])
       /\ step = "read" => opened = named /\ Held(files[opened])
       /\ step = "read" /\ rd = "reading" => Len(text) = at /\ Begins(text, files[opened])
       /\ rd = "done" => Held(text)

LEMMA LoadInitial ==
  ASSUME Init, part = "load"
  PROVE  LoadTypes /\ LoadInv
<1>1. /\ step = "idle" /\ opened = 0 /\ stated = <<>> /\ since = {} /\ size = 0 /\ data = <<Stray>>
      /\ rc = "ok" /\ at = 0 /\ rd = "idle" /\ room = 0 /\ text = <<>> /\ out = <<>> /\ named \in 0..2
  BY DEF Init, L!LoadInit, L!F!ReadInit
<1>2. files \in [1..2 -> Files]
  <2>1. PICK content \in L!Contents : files = <<content, <<>>>>
    BY DEF Init, L!LoadInit
  <2>2. content \in Files
    BY <2>1, BoundsAssumption DEF L!Contents, Files, Chars
  <2>3. <<>> \in Files
    BY BoundsAssumption DEF Files
  <2> QED BY <2>1, <2>2, <2>3
<1>3. LoadTypes
  BY <1>1, <1>2, BoundsAssumption, ChunkAssumption DEF LoadTypes, Files
<1>4. LoadInv
  BY <1>1 DEF LoadInv
<1> QED BY <1>3, <1>4

(* What other processes do to the file: as far as nothing but growth is noted, *)
(* it begins with what it was.                                              *)
LEMMA WriteTells ==
  ASSUME LoadTypes, NEW f \in 1..2, L!Write(f)
  PROVE  /\ files' \in [1..2 -> Files] /\ named' = named
         /\ since' \subseteq {"grown", "cut", "moved"} /\ since \subseteq since'
         /\ step # "idle" /\ since' \subseteq {"grown"} /\ named # 0 => Begins(files[named], files'[named])
         /\ step # "idle" /\ since' = {} /\ named # 0 => files'[named] = files[named]
<1>1. named' = named /\ f \in DOMAIN files /\ files[f] \in Seq(Chars) /\ named \in 0..2
  BY DEF L!Write, LoadTypes, Files
<1>2. \A g \in 1..2 : Begins(files[g], files[g])
  BY DEF Begins, LoadTypes, Files
<1>3. ASSUME NEW b \in Letters, Len(files[f]) < MaxFile, L!Noted(f, "grown"),
             files' = [files EXCEPT ![f] = Append(@, b)]
      PROVE  /\ files' \in [1..2 -> Files]
             /\ since' \subseteq {"grown", "cut", "moved"} /\ since \subseteq since'
             /\ \A g \in 1..2 : Begins(files[g], files'[g])
             /\ step # "idle" /\ since' = {} /\ named # 0 => files'[named] = files[named]
  <2>1. Append(files[f], b) \in Files
    BY <1>1, <1>3, BoundsAssumption DEF Files, Chars
  <2>2. Begins(files[f], Append(files[f], b))
    BY <1>1 DEF Begins
  <2>3. files' \in [1..2 -> Files] /\ \A g \in 1..2 : files'[g] = IF g = f THEN Append(files[f], b) ELSE files[g]
    BY <1>3, <2>1 DEF LoadTypes
  <2>4. \A g \in 1..2 : Begins(files[g], files'[g])
    BY <1>2, <2>2, <2>3
  <2>5. /\ since' \subseteq {"grown", "cut", "moved"} /\ since \subseteq since'
        /\ step # "idle" /\ since' = {} => f # named
    BY <1>3 DEF L!Noted, LoadTypes
  <2> QED BY <1>1, <2>3, <2>4, <2>5
<1>4. ASSUME files' = [files EXCEPT ![f] = <<>>], L!Noted(f, "cut")
      PROVE  /\ files' \in [1..2 -> Files]
             /\ since' \subseteq {"grown", "cut", "moved"} /\ since \subseteq since'
             /\ step # "idle" /\ since' \subseteq {"grown"} /\ named # 0 => files'[named] = files[named]
  <2>1. <<>> \in Files
    BY BoundsAssumption DEF Files
  <2>2. files' \in [1..2 -> Files] /\ \A g \in 1..2 : g # f => files'[g] = files[g]
    BY <1>4, <2>1 DEF LoadTypes
  <2>3. /\ since' \subseteq {"grown", "cut", "moved"} /\ since \subseteq since'
        /\ step # "idle" /\ since' \subseteq {"grown"} => f # named
    BY <1>4 DEF L!Noted, LoadTypes
  <2> QED BY <1>1, <2>2, <2>3
<1> QED BY <1>1, <1>2, <1>3, <1>4 DEF L!Write

LEMMA OthersTell ==
  ASSUME LoadTypes, L!Others
  PROVE  /\ files' \in [1..2 -> Files] /\ named' \in 0..2
         /\ since' \subseteq {"grown", "cut", "moved"} /\ since \subseteq since'
         /\ step # "idle" /\ since' \subseteq {"grown"} => named' = named
         /\ step # "idle" /\ since' \subseteq {"grown"} /\ named # 0 => Begins(files[named], files'[named])
         /\ step # "idle" /\ since' = {} /\ named # 0 => files'[named] = files[named]
<1>1. ASSUME NEW f \in 0..2, L!Rename(f)
      PROVE  /\ UNCHANGED files /\ named' \in 0..2
             /\ since' \subseteq {"grown", "cut", "moved"} /\ since \subseteq since'
             /\ step # "idle" => ~ (since' \subseteq {"grown"})
  BY <1>1 DEF L!Rename, LoadTypes
<1>2. CASE \E f \in 0..2 : L!Rename(f)
  BY <1>1, <1>2 DEF LoadTypes
<1>3. CASE \E f \in 1..2 : L!Write(f)
  BY <1>3, WriteTells DEF LoadTypes
<1> QED BY <1>2, <1>3 DEF L!Others

LEMMA BeginsBegins ==
  ASSUME NEW Any, NEW s \in Seq(Any), NEW t \in Seq(Any), NEW u \in Seq(Any), Begins(s, t), Begins(t, u)
  PROVE  Begins(s, u)
BY DEF Begins

LEMMA OthersKeep ==
  ASSUME LoadTypes, LoadInv, L!Others
  PROVE  LoadTypes' /\ LoadInv'
<1>1. step # "returned" /\ UNCHANGED <<opened, step, stated, size, data, rc, at, rd, room, text, out>>
  BY DEF L!Others, L!callVars
<1>2. LoadTypes'
  BY <1>1, OthersTell DEF LoadTypes
<1>3. ASSUME since' \subseteq {"grown"}
      PROVE  /\ step = "stat" /\ named' # 0 => Held(files[named])'
             /\ step = "read" => opened = named' /\ Held(files[opened])'
             /\ step = "read" /\ rd = "reading" => Len(text) = at /\ Begins(text, files'[opened])
             /\ rd = "done" => Held(text)'
  <2>1. since \subseteq {"grown"} /\ (since' = {} => since = {})
    BY <1>3, OthersTell
  <2>2. CASE step = "idle"
    BY <2>2 DEF LoadInv
  <2>3. CASE step # "idle"
    <3>1. /\ named' = named
          /\ named # 0 => Begins(files[named], files'[named])
          /\ since' = {} /\ named # 0 => files'[named] = files[named]
      BY <1>3, <2>3, OthersTell
    <3>2. stated \in Seq(Chars) /\ text \in Seq(Chars)
      BY DEF LoadTypes, Files
    <3>3. ASSUME named # 0 PROVE files[named] \in Seq(Chars) /\ files'[named] \in Seq(Chars)
      <4>1. named \in 1..2 /\ files \in [1..2 -> Files] /\ files' \in [1..2 -> Files]
        BY <3>3, OthersTell DEF LoadTypes
      <4>2. \A s \in Files : s \in Seq(Chars)
        BY DEF Files
      <4> QED BY <4>1, <4>2
    <3>4. named # 0 /\ Held(files[named]) => Held(files[named])'
      BY <1>1, <2>1, <3>1, <3>2, <3>3, BeginsBegins DEF Held
    <3>5. named # 0 /\ Begins(text, files[named]) => Begins(text, files'[named])
      BY <3>1, <3>2, <3>3, BeginsBegins
    <3>6. Held(text) => Held(text)'
      BY <1>1, <2>1 DEF Held
    <3>7. /\ step = "stat" /\ named # 0 => Held(files[named])
          /\ step = "read" => opened = named /\ named # 0 /\ Held(files[named])
          /\ step = "read" /\ rd = "reading" => Len(text) = at /\ Begins(text, files[named])
          /\ rd = "done" => Held(text)
      BY <2>1 DEF LoadInv
    <3>8. step = "read" => (Held(files[opened])' <=> Held(files[named])')
      BY <1>1, <3>1, <3>7
    <3> QED BY <3>1, <3>4, <3>5, <3>6, <3>7, <3>8
  <2> QED BY <2>2, <2>3
<1> QED BY <1>1, <1>2, <1>3 DEF LoadInv

(* The file that is open, as FileRead sees it, and the one kahanaIOLoadFile     *)
(* reads. *)
LEMMA OpenedIs ==
  ASSUME LoadTypes
  PROVE  L!Opened \in Seq(Chars) /\ Len(L!Opened) <= MaxFile /\ (opened # 0 => L!Opened = files[opened])
<1>1. opened \in 0..2 /\ files \in [1..2 -> Files]
  BY DEF LoadTypes
<1>2. \A s \in Files : s \in Seq(Chars) /\ Len(s) <= MaxFile
  BY DEF Files
<1>3. CASE opened = 0
  BY <1>3, BoundsAssumption DEF L!Opened
<1>4. CASE opened # 0
  <2>1. opened \in 1..2
    BY <1>1, <1>4
  <2> QED BY <1>1, <1>2, <1>4, <2>1 DEF L!Opened
<1> QED BY <1>3, <1>4

LEMMA StatKeeps ==
  ASSUME LoadTypes, LoadInv, L!Stat
  PROVE  LoadTypes' /\ LoadInv'
<1>1. step = "idle" /\ rd = "idle" /\ UNCHANGED <<opened, at, rd, room, text, out, files, named, since>>
  BY DEF L!Stat, LoadInv
<1>2. CASE named # 0
  <2>1. step' = "stat" /\ stated' = files[named] /\ UNCHANGED <<size, data, rc>>
    BY <1>2 DEF L!Stat
  <2>2. files[named] \in Files
    BY <1>2 DEF LoadTypes
  <2>3. LoadTypes'
    BY <1>1, <2>1, <2>2 DEF LoadTypes
  <2>4. Begins(files[named], files[named])
    BY <2>2 DEF Begins, Files
  <2> QED BY <1>1, <2>1, <2>3, <2>4 DEF LoadInv, Held
<1>3. CASE named = 0
  <2>1. step' = "returned" /\ rc' = "err" /\ UNCHANGED <<size, data, stated>>
    BY <1>3 DEF L!Stat, L!Refuse
  <2>2. LoadTypes'
    BY <1>1, <2>1 DEF LoadTypes
  <2> QED BY <1>1, <2>1, <2>2 DEF LoadInv, Held
<1> QED BY <1>2, <1>3

LEMMA OpenKeeps ==
  ASSUME LoadTypes, LoadInv, L!Open
  PROVE  LoadTypes' /\ LoadInv'
<1>1. step = "stat" /\ rd = "idle" /\ UNCHANGED <<stated, at, rd, room, text, out, files, named, since>>
  BY DEF L!Open, LoadInv
<1>2. CASE step' = "read"
  <2>1. named # 0 /\ opened' = named /\ UNCHANGED <<size, data, rc>>
    BY <1>2 DEF L!Open, L!Refuse
  <2>2. LoadTypes'
    BY <1>1, <1>2, <2>1 DEF LoadTypes
  <2>3. since \subseteq {"grown"} => Held(files[named])' /\ opened' = named'
    BY <1>1, <2>1 DEF LoadInv, Held
  <2> QED BY <1>1, <1>2, <2>1, <2>2, <2>3 DEF LoadInv
<1>3. CASE step' = "returned"
  <2>1. rc' = "err" /\ UNCHANGED <<size, data, opened>>
    BY <1>3 DEF L!Open, L!Refuse
  <2>2. LoadTypes'
    BY <1>1, <1>3, <2>1 DEF LoadTypes
  <2> QED BY <1>1, <1>3, <2>1, <2>2 DEF LoadInv, Held
<1> QED BY <1>2, <1>3 DEF L!Open, L!Refuse

LEMMA FinishKeeps ==
  ASSUME LoadTypes, LoadInv, L!Finish
  PROVE  LoadTypes' /\ LoadInv'
<1>1. /\ step = "read" /\ step' = "returned" /\ opened' = 0
      /\ UNCHANGED <<stated, at, rd, room, text, out, files, named, since>>
      /\ \/ rd = "done" /\ rc' = "ok" /\ size' = Len(stated) /\ data' = out
         \/ rd = "failed" /\ rc' = "err" /\ UNCHANGED <<size, data>>
  BY DEF L!Finish, L!Refuse
<1>2. Len(stated) \in 0..MaxFile
  BY BoundsAssumption DEF LoadTypes, Files
<1>3. LoadTypes'
  BY <1>1, <1>2 DEF LoadTypes
<1>4. LoadInv'
  BY <1>1 DEF LoadInv, Held
<1> QED BY <1>3, <1>4

(* What n bytes make of a text that are read behind a. *)
Appended(s, file, a, n) == s \o SubSeq(file, a + 1, a + n)

LEMMA ReadAppends ==
  ASSUME NEW Any, NEW s \in Seq(Any), NEW file \in Seq(Any), NEW a \in Nat, NEW n \in Nat,
         a + n <= Len(file)
  PROVE  /\ Appended(s, file, a, n) \in Seq(Any) /\ Len(Appended(s, file, a, n)) = Len(s) + n
         /\ Len(s) = a /\ Begins(s, file) => Begins(Appended(s, file, a, n), file)
<1> DEFINE read == SubSeq(file, a + 1, a + n)
           t == Appended(s, file, a, n)
<1>1. read \in Seq(Any) /\ Len(read) = n /\ \A k \in 1..n : read[k] = file[a + k]
  OBVIOUS
<1>2. t = s \o read
  BY DEF Appended
<1> HIDE DEF read, t
<1>3. /\ t \in Seq(Any) /\ Len(t) = Len(s) + n
      /\ \A k \in 1..Len(s) : t[k] = s[k]
      /\ \A k \in 1..n : t[Len(s) + k] = read[k]
  <2>1. /\ s \o read \in Seq(Any) /\ Len(s \o read) = Len(s) + Len(read)
        /\ \A k \in 1..Len(s) : (s \o read)[k] = s[k]
        /\ \A k \in 1..Len(read) : (s \o read)[Len(s) + k] = read[k]
    <3>1. read \in Seq(Any)
      BY <1>1
    <3> QED BY <3>1
  <2>2. /\ t \in Seq(Any) /\ Len(t) = Len(s) + Len(read)
        /\ \A k \in 1..Len(s) : t[k] = s[k]
        /\ \A k \in 1..Len(read) : t[Len(s) + k] = read[k]
    BY <1>2, <2>1, Zenon
  <2> QED BY <1>1, <2>2
<1>4. ASSUME Len(s) = a, Begins(s, file), NEW k \in 1..Len(t) PROVE t[k] = file[k]
  <2>1. CASE k <= a
    <3>1. k \in 1..Len(s)
      BY <1>4, <2>1
    <3> QED BY <1>3, <1>4, <3>1 DEF Begins
  <2>2. CASE ~ (k <= a)
    <3>1. PICK j \in 1..n : k = a + j
      <4>1. k - a \in 1..n /\ k = a + (k - a)
        BY <1>3, <1>4, <2>2
      <4> QED BY <4>1
    <3>2. t[a + j] = read[j] /\ read[j] = file[a + j]
      BY <1>1, <1>3, <1>4
    <3> QED BY <3>1, <3>2
  <2> QED BY <2>1, <2>2
<1> QED BY <1>3, <1>4 DEF Begins, t

LEMMA ReadMoreKeeps ==
  ASSUME LoadTypes, LoadInv, step = "read", L!F!ReadMore,
         UNCHANGED <<files, named, since, opened, step, stated, size, data, rc>>
  PROVE  LoadTypes' /\ LoadInv'
<1> DEFINE file == L!Opened
<1>1. file \in Seq(Chars) /\ Len(file) <= MaxFile /\ file = files[opened] /\ opened # 0
  BY OpenedIs DEF LoadInv
<1>2. /\ rd = "reading" /\ at < Len(file) /\ UNCHANGED out
      /\ \E n \in 1..L!F!Least(room, Len(file) - at) :
            /\ at' = at + n /\ room' = n
            /\ \/ text' = text \o SubSeq(file, at + 1, at + n) /\ rd' = rd
               \/ rd' = "failed" /\ text' = text
  BY DEF L!F!ReadMore
<1> HIDE DEF file
<1>3. PICK n \in 1..L!F!Least(room, Len(file) - at) :
        /\ at' = at + n /\ room' = n
        /\ \/ text' = text \o SubSeq(file, at + 1, at + n) /\ rd' = rd
           \/ rd' = "failed" /\ text' = text
  BY <1>2
<1>4. at \in Nat /\ room \in 0..Chunk /\ text \in Seq(Chars) /\ Len(text) <= at
  BY BoundsAssumption DEF LoadTypes
<1>5. n \in Nat /\ n <= room /\ at + n <= Len(file)
  BY <1>1, <1>2, <1>4, ChunkAssumption DEF L!F!Least
<1>6. /\ text' \in Seq(Chars) /\ Len(text') <= at + n
      /\ rd' = "reading" /\ Len(text) = at /\ Begins(text, file) => Len(text') = at + n /\ Begins(text', file)
  <2>1. CASE text' = text /\ rd' = "failed"
    BY <1>4, <1>5, <2>1
  <2>2. CASE text' = text \o SubSeq(file, at + 1, at + n)
    <3> DEFINE t == Appended(text, file, at, n)
    <3>1. /\ t \in Seq(Chars) /\ Len(t) = Len(text) + n
          /\ Len(text) = at /\ Begins(text, file) => Begins(t, file)
      <4>1. text \in Seq(Chars) /\ file \in Seq(Chars) /\ at \in Nat /\ n \in Nat /\ at + n <= Len(file)
        BY <1>1, <1>4, <1>5
      <4> QED BY <4>1, ReadAppends, Zenon
    <3>2. text' = t
      BY <2>2 DEF Appended
    <3> HIDE DEF t
    <3>3. Len(t) <= at + n
      BY <1>4, <1>5, <3>1
    <3> QED BY <1>4, <1>5, <3>1, <3>2, <3>3
  <2> QED BY <1>3, <2>1, <2>2
<1>7. at + n \in 0..MaxFile /\ n \in 0..Chunk
  <2>1. MaxFile \in Nat /\ Chunk \in Nat /\ Len(file) \in Nat /\ Len(file) <= MaxFile
    BY <1>1, BoundsAssumption, ChunkAssumption
  <2>2. at \in Nat /\ room \in Nat /\ room <= Chunk
    BY <1>4, ChunkAssumption
  <2> QED BY <1>5, <2>1, <2>2
<1>8. LoadTypes'
  BY <1>2, <1>3, <1>6, <1>7 DEF LoadTypes
<1>9. LoadInv'
  BY <1>1, <1>2, <1>3, <1>6 DEF LoadInv, Held
<1> QED BY <1>8, <1>9

LEMMA ReadEndKeeps ==
  ASSUME LoadTypes, LoadInv, step = "read", L!F!ReadEnd,
         UNCHANGED <<files, named, since, opened, step, stated, size, data, rc>>
  PROVE  LoadTypes' /\ LoadInv'
<1> DEFINE file == L!Opened
<1>1. file \in Seq(Chars) /\ Len(file) <= MaxFile /\ file = files[opened]
  BY OpenedIs DEF LoadInv
<1>2. /\ rd = "reading" /\ at >= Len(file) /\ rd' = "done" /\ room' = 0 /\ UNCHANGED <<at, text>>
      /\ out' \in IF text = <<>> THEN {<<>>, <<Stray>>} ELSE {L!F!CString(text)}
  BY DEF L!F!ReadEnd, L!F!Strings
<1> HIDE DEF file
<1>3. /\ at \in Nat /\ at <= MaxFile /\ MaxFile \in Nat /\ text \in Seq(Chars) /\ Len(text) <= at
      /\ stated \in Seq(Chars)
  BY BoundsAssumption DEF LoadTypes, Files
<1>4. /\ UpToNul(text) \in Seq(Chars) /\ Len(UpToNul(text)) <= Len(text)
  BY <1>3, StringEnds DEF EndsAtNul
<1>5. out' \in Seq(Chars \cup {Stray}) /\ Len(out') <= MaxFile + 1
  <2>1. CASE out' = UpToNul(text)
    BY <1>3, <1>4, <2>1
  <2>2. CASE out' = <<>>
    BY <1>3, <2>2
  <2>3. CASE out' = <<Stray>>
    BY <1>3, <2>3
  <2> QED BY <1>2, <2>1, <2>2, <2>3, LoadCString
<1>6. ASSUME since \subseteq {"grown"} PROVE Held(text)
  <2>1. Len(text) = at /\ Begins(text, file) /\ Held(file)
    BY <1>1, <1>2, <1>6 DEF LoadInv
  <2>2. Len(text) = Len(file)
    BY <1>1, <1>2, <1>3, <2>1 DEF Begins
  <2>3. text = file
    BY <1>1, <1>3, <2>1, <2>2, SameSequence DEF Begins
  <2> QED BY <2>1, <2>3
<1>7. LoadTypes'
  BY <1>2, <1>5, ChunkAssumption DEF LoadTypes
<1>8. LoadInv'
  BY <1>2, <1>6 DEF LoadInv, Held
<1> QED BY <1>7, <1>8

LEMMA ReadFileKeeps ==
  ASSUME LoadTypes, LoadInv, L!ReadFile
  PROVE  LoadTypes' /\ LoadInv'
<1>1. step = "read" /\ UNCHANGED <<files, named, since, opened, step, stated, size, data, rc>>
  BY DEF L!ReadFile, L!callVars
<1>2. CASE L!F!ReadBegin
  <2>1. /\ rd = "idle" /\ at = 0 /\ text = <<>> /\ UNCHANGED <<at, text, out>>
        /\ rd' \in {"reading", "failed"} /\ room' \in {Chunk, room}
    BY <1>2 DEF L!F!ReadBegin, LoadInv
  <2>2. LoadTypes'
    BY <1>1, <2>1, ChunkAssumption DEF LoadTypes
  <2>3. L!Opened \in Seq(Chars) /\ L!Opened = files[opened]
    BY <1>1, OpenedIs DEF LoadInv
  <2>4. Len(text) = at /\ Begins(text, files[opened])
    BY <2>1, <2>3 DEF Begins
  <2> QED BY <1>1, <2>1, <2>2, <2>4 DEF LoadInv, Held
<1>3. CASE L!F!ReadMore
  BY <1>1, <1>3, ReadMoreKeeps
<1>4. CASE L!F!ReadEnd
  BY <1>1, <1>4, ReadEndKeeps
<1>5. CASE L!F!ReadFails
  <2>1. rd = "reading" /\ rd' = "failed" /\ UNCHANGED <<at, room, text, out>>
    BY <1>5 DEF L!F!ReadFails
  <2> QED BY <1>1, <2>1 DEF LoadTypes, LoadInv, Held
<1> QED BY <1>2, <1>3, <1>4, <1>5 DEF L!ReadFile, L!F!Read

LoadPartInv == part = "load" => LoadTypes /\ LoadInv

LEMMA LoadPartInitial == Init => LoadPartInv
BY LoadInitial DEF LoadPartInv

LEMMA LoadPartKeeps == LoadPartInv /\ [Next]_vars => LoadPartInv'
<1> SUFFICES ASSUME LoadPartInv, [Next]_vars, part' = "load" PROVE LoadTypes' /\ LoadInv'
  BY DEF LoadPartInv
<1>1. CASE Load(L!LoadFile) \/ Load(L!Others)
  <2>1. LoadTypes /\ LoadInv /\ (L!LoadFile \/ L!Others)
    BY <1>1 DEF Load, LoadPartInv
  <2> QED BY <2>1, OthersKeep, StatKeeps, OpenKeeps, ReadFileKeeps, FinishKeeps DEF L!LoadFile
<1>2. CASE UNCHANGED vars
  <2>1. LoadTypes /\ LoadInv /\ UNCHANGED <<loadOnly, reading>>
    BY <1>2 DEF LoadPartInv, vars
  <2> QED BY <2>1 DEF LoadTypes, LoadInv, Held, loadOnly, reading
<1>3. CASE ~ Load(L!LoadFile) /\ ~ Load(L!Others) /\ ~ UNCHANGED vars
  <2>1. part' # "load"
    BY <1>3 DEF Next, Sock, Cmd, Path, Alone
  <2> QED BY <2>1
<1> QED BY <1>1, <1>2, <1>3

LEMMA LoadDescribes ==
  ASSUME LoadTypes, LoadInv
  PROVE  L!SizeDescribesData
<1> SUFFICES ASSUME step = "returned", rc = "ok", since \subseteq {"grown"}
             PROVE  /\ L!IsPrefix(L!F!CString(stated), data)
                    /\ Nul \notin L!Range(stated) => size <= Len(data)
                    /\ since = {} /\ stated # <<>> => data = L!F!CString(stated)
  BY DEF L!SizeDescribesData
<1> DEFINE c == UpToNul(stated)
<1>1. /\ Held(text) /\ data = out /\ size = Len(stated) /\ stated \in Seq(Chars) /\ text \in Seq(Chars)
      /\ data \in Seq(Chars \cup {Stray})
      /\ text # <<>> => data = UpToNul(text)
  BY LoadCString DEF LoadInv, LoadTypes, Files
<1>2. c \in Seq(Chars) /\ EndsAtNul(c, stated)
  BY <1>1, StringEnds
<1>3. Begins(c, data)
  <2>1. CASE text = <<>>
    <3>1. Len(c) = 0
      BY <1>1, <1>2, <2>1 DEF Held, Begins, EndsAtNul
    <3> QED BY <1>1, <3>1 DEF Begins
  <2>2. CASE text # <<>>
    <3>1. UpToNul(text) \in Seq(Chars) /\ EndsAtNul(UpToNul(text), text)
      BY <1>1, StringEnds
    <3>2. Begins(c, UpToNul(text))
      BY <1>1, <1>2, <3>1, StringsBegin DEF Held
    <3> QED BY <1>1, <2>2, <3>2
  <2> QED BY <2>1, <2>2
<1>4. Nul \notin L!Range(stated) => c = stated
  BY DEF UpToNul, L!Range
<1>5. since = {} /\ stated # <<>> => data = c
  BY <1>1 DEF Held
<1> HIDE DEF c
<1>6. L!IsPrefix(c, data)
  BY <1>1, <1>2, <1>3, Front DEF L!IsPrefix, Begins
<1>7. L!F!CString(stated) = c
  BY LoadCString DEF c
<1> QED BY <1>1, <1>3, <1>4, <1>5, <1>6, <1>7 DEF Begins

-----------------------------------------------------------------------------
(* The command runner. *)
Runs == 1..MaxRuns

Temps == [name : C!Opening, pool : {"sp", "p"}]

CmdTypes ==
  /\ phase \in {"none", "live", "dangling", "gone"} /\ ends \in {"fresh", "used"}
  /\ temps \subseteq Temps /\ run \in 0..MaxRuns
  /\ step \in {"idle", "spawn", "wait", "error", "returned"}
  /\ child \in {"none", "wired", "deaf", "exited"}
  /\ body \in [C!Outputs -> Seq(Runs)] /\ own \in [C!Outputs -> 0..MaxOutput]
  /\ \A f \in C!Outputs : Len(body[f]) <= MaxOutput
  /\ at \in 0..MaxOutput /\ errat \in 0..MaxOutput
  /\ errcode \in {"zero", "exit", "sys"} /\ left \in {0, Chunk}
  /\ errstr \in Seq(Runs \cup {Stray}) /\ old \in Seq(Runs \cup {Stray})
  /\ rd \in {"idle", "reading", "done", "failed"} /\ room \in 0..Chunk /\ text \in Seq(Runs)

(* What the run has written is at the start of the file, before what earlier  *)
(* runs left there. *)
Written(content, n, r) ==
  n <= Len(content) /\ \A k \in 1..Len(content) : content[k] <= r /\ (k <= n <=> content[k] = r)

(* attr->errstr after the first read of the error output. *)
FirstError ==
  LET first == SubSeq(body["err"], 1, C!F!Least(Chunk, Len(body["err"])))
  IN errstr = old \o first \/ (Len(first) = Chunk /\ errstr = old \o first \o <<Stray>>)

CmdInv ==
  /\ child # "none" => step = "wait"
  /\ step # "idle" => run # 0
  /\ step = "spawn" => at = 0 /\ errat = 0 /\ own = [f \in C!Outputs |-> 0]
  /\ child = "wired" => at = own["out"] /\ errat = own["err"]
  /\ Written(body["out"], own["out"], run) /\ Written(body["err"], own["err"], run)
  /\ step \in {"spawn", "wait", "error"} => rd = "idle" /\ errstr = old
  /\ rd = "idle" => text = <<>>
  /\ step = "error" => errcode = "exit" /\ errat = 0
  /\ step \in {"error", "returned"} /\ errcode # "sys" =>
       /\ rd = "idle" => at = 0
       /\ rd = "reading" => Len(text) = at /\ Begins(text, body["out"])
       /\ rd = "done" => text = body["out"] /\ (text # <<>> => out = text)
  /\ step = "returned" /\ errcode = "zero" => errstr = old
  /\ step = "returned" /\ errcode = "exit" /\ left # 0 => FirstError

LEMMA CmdInitial ==
  ASSUME Init, part = "cmd"
  PROVE  CmdTypes /\ CmdInv
<1>1. /\ phase = "none" /\ temps = {} /\ ends = "fresh" /\ step = "idle"
      /\ child = "none" /\ run = 0 /\ body = [f \in C!Outputs |-> <<>>]
      /\ at = 0 /\ errat = 0 /\ own = [f \in C!Outputs |-> 0]
      /\ errcode = "zero" /\ errstr = <<>> /\ old = <<>> /\ left = 0
      /\ rd = "idle" /\ room = 0 /\ text = <<>> /\ out = <<>>
  BY DEF Init, C!CmdInit, C!F!ReadInit
<1>2. body["out"] = <<>> /\ body["err"] = <<>> /\ own["out"] = 0 /\ own["err"] = 0
  BY <1>1 DEF C!Outputs
<1>3. CmdTypes
  BY <1>1, BoundsAssumption, ChunkAssumption DEF CmdTypes
<1>4. Written(<<>>, 0, 0)
  BY DEF Written
<1>5. CmdInv
  BY <1>1, <1>2, <1>4 DEF CmdInv
<1> QED BY <1>3, <1>5

(* The attribute is made or destroyed, or a child ends. *)
LEMMA AttrKeeps ==
  ASSUME CmdTypes, CmdInv, C!NewAttr \/ C!DestroyAttr \/ C!ChildExits
  PROVE  CmdTypes' /\ CmdInv'
<1>1. /\ UNCHANGED <<ends, run, body, own, old, step, at, errat, errcode, errstr, left, rd, room, text, out>>
      /\ child' = child \/ (child # "none" /\ child' = "exited")
      /\ phase' \in {"none", "live", "dangling", "gone"} /\ temps' \subseteq Temps
  <2>1. \A n \in Int : C!OpenedBy(n) \subseteq Temps
    BY DEF C!OpenedBy, C!PoolOf, Temps, C!AttrSteps
  <2>2. \A n \in Int : C!PoolDestroyed(C!OpenedBy(n), "sp") \subseteq Temps
    BY <2>1 DEF C!PoolDestroyed
  <2>3. \A n \in DOMAIN C!AttrSteps : n - 1 \in Int
    BY DEF C!AttrSteps
  <2>4. Len(C!AttrSteps) \in Int
    BY DEF C!AttrSteps
  <2>5. temps \subseteq Temps
    BY DEF CmdTypes
  <2> QED BY <2>1, <2>2, <2>3, <2>4, <2>5
          DEF C!NewAttr, C!DestroyAttr, C!PoolDestroyed, C!ChildExits, C!readVars, C!runVars, CmdTypes
<1>2. CmdTypes'
  BY <1>1 DEF CmdTypes
<1>3. /\ Written(body["out"], own["out"], run)' <=> Written(body["out"], own["out"], run)
      /\ Written(body["err"], own["err"], run)' <=> Written(body["err"], own["err"], run)
      /\ FirstError' <=> FirstError
  BY <1>1 DEF Written, FirstError
<1>4. CmdInv'
  BY <1>1, <1>3 DEF CmdInv
<1> QED BY <1>2, <1>4

LEMMA NoneWritten ==
  ASSUME NEW content \in Seq(Runs), NEW n \in Nat, NEW r \in Nat, Written(content, n, r)
  PROVE  Written(content, 0, r + 1)
<1>1. \A k \in 1..Len(content) : content[k] \in Nat /\ content[k] <= r
  <2>1. \A k \in 1..Len(content) : content[k] \in Runs
    OBVIOUS
  <2>2. Runs \subseteq Nat
    BY BoundsAssumption DEF Runs
  <2> QED BY <2>1, <2>2 DEF Written
<1>2. \A k \in 1..Len(content) : content[k] <= r + 1 /\ content[k] # r + 1 /\ ~ (k <= 0)
  BY <1>1
<1> QED BY <1>2 DEF Written

LEMMA RunProcessKeeps ==
  ASSUME CmdTypes, CmdInv, C!RunProcess
  PROVE  CmdTypes' /\ CmdInv'
<1>1. /\ step \in {"idle", "returned"} /\ run < MaxRuns /\ run' = run + 1 /\ child = "none"
      /\ own' = [f \in C!Outputs |-> 0] /\ old' = errstr /\ rd' = "idle" /\ text' = <<>>
      /\ \/ at' = 0 /\ errat' = 0 /\ step' = "spawn" /\ UNCHANGED <<errcode, errstr>>
         \/ step' = "returned" /\ errcode' = "sys" /\ errstr' = <<Stray>> /\ at' \in {at, 0} /\ UNCHANGED errat
      /\ UNCHANGED <<phase, temps, ends, body, child, left, room>>
  BY DEF C!RunProcess, C!Fail, C!Start, CmdInv
<1>2. run \in Nat /\ run + 1 \in 0..MaxRuns /\ run + 1 # 0
  BY <1>1, BoundsAssumption DEF CmdTypes
<1>3. CmdTypes'
  <2>1. /\ own' \in [C!Outputs -> 0..MaxOutput] /\ at' \in 0..MaxOutput /\ errat' \in 0..MaxOutput
        /\ <<Stray>> \in Seq(Runs \cup {Stray})
    BY <1>1, BoundsAssumption DEF CmdTypes
  <2>2. errstr \in Seq(Runs \cup {Stray}) /\ <<>> \in Seq(Runs)
    BY DEF CmdTypes
  <2>3. errstr' \in Seq(Runs \cup {Stray}) /\ old' \in Seq(Runs \cup {Stray}) /\ text' \in Seq(Runs)
    BY <1>1, <2>1, <2>2
  <2>4. rd' = "idle" /\ step' \in {"spawn", "returned"} /\ errcode' \in {errcode, "sys"}
    BY <1>1
  <2> QED BY <1>1, <1>2, <2>1, <2>3, <2>4 DEF CmdTypes
<1>4. ASSUME NEW f \in C!Outputs, Written(body[f], own[f], run) PROVE Written(body[f], 0, run + 1)
  <2>1. body[f] \in Seq(Runs) /\ own[f] \in Nat
    BY BoundsAssumption DEF CmdTypes
  <2> QED BY <1>2, <1>4, <2>1, NoneWritten
<1>5. Written(body["out"], 0, run + 1) /\ Written(body["err"], 0, run + 1)
  BY <1>4 DEF CmdInv, C!Outputs
<1>6. own'["out"] = 0 /\ own'["err"] = 0
  BY <1>1 DEF C!Outputs
<1>7. CmdInv'
  BY <1>1, <1>2, <1>5, <1>6 DEF CmdInv
<1> QED BY <1>3, <1>7

LEMMA SpawnKeeps ==
  ASSUME CmdTypes, CmdInv, C!Spawn
  PROVE  CmdTypes' /\ CmdInv'
<1>1. /\ step = "spawn" /\ child = "none" /\ UNCHANGED <<phase, temps, run, body, own, old, at, errat, left, rd, room, text, out>>
      /\ \/ child' \in {"wired", "deaf"} /\ ends' = "used" /\ step' = "wait" /\ errcode' = "zero" /\ UNCHANGED errstr
         \/ step' = "returned" /\ errcode' = "sys" /\ errstr' = <<Stray>> /\ UNCHANGED <<child, ends>>
  BY DEF C!Spawn, C!Fail, C!readVars, CmdInv
<1>2. CmdTypes'
  <2>1. <<Stray>> \in Seq(Runs \cup {Stray})
    OBVIOUS
  <2>2. /\ errstr' \in Seq(Runs \cup {Stray}) /\ step' \in {"wait", "returned"}
        /\ errcode' \in {"zero", "sys"} /\ ends' \in {"fresh", "used"}
        /\ child' \in {"none", "wired", "deaf", "exited"}
    BY <1>1, <2>1 DEF CmdTypes
  <2> QED BY <1>1, <2>2 DEF CmdTypes
<1>3. at = 0 /\ errat = 0 /\ own["out"] = 0 /\ own["err"] = 0 /\ rd = "idle" /\ text = <<>> /\ errstr = old
  BY <1>1 DEF CmdInv, C!Outputs
<1>4. Written(body["out"], own["out"], run) /\ Written(body["err"], own["err"], run)
  BY DEF CmdInv
<1>5. CmdInv'
  BY <1>1, <1>3, <1>4 DEF CmdInv
<1> QED BY <1>2, <1>5

(* The byte of run r that follows the n it has written. *)
LEMMA PutWrites ==
  ASSUME NEW s \in Seq(Runs), NEW n \in Nat, NEW r \in Runs, Written(s, n, r)
  PROVE  /\ C!Put(s, n, r) \in Seq(Runs) /\ Written(C!Put(s, n, r), n + 1, r)
         /\ Len(C!Put(s, n, r)) = IF n < Len(s) THEN Len(s) ELSE n + 1
<1>1. n <= Len(s) /\ r \in Nat /\ Len(s) \in Nat
  BY BoundsAssumption DEF Written, Runs
<1>2. CASE n < Len(s)
  <2> DEFINE t == [s EXCEPT ![n + 1] = r]
  <2>1. C!Put(s, n, r) = t
    BY <1>2 DEF C!Put
  <2>2. /\ t \in Seq(Runs) /\ Len(t) = Len(s)
        /\ \A k \in 1..Len(s) : t[k] = IF k = n + 1 THEN r ELSE s[k]
    BY <1>1, <1>2
  <2> HIDE DEF t
  <2>3. Written(t, n + 1, r)
    BY <1>1, <1>2, <2>2 DEF Written
  <2> QED BY <1>2, <2>1, <2>2, <2>3
<1>3. CASE ~ (n < Len(s))
  <2> DEFINE t == Append(s, r)
  <2>1. C!Put(s, n, r) = t /\ n = Len(s)
    BY <1>1, <1>3 DEF C!Put
  <2>2. /\ t \in Seq(Runs) /\ Len(t) = n + 1
        /\ \A k \in 1..n : t[k] = s[k]
        /\ t[n + 1] = r
    BY <2>1
  <2> HIDE DEF t
  <2>3. Written(t, n + 1, r)
    BY <1>1, <2>1, <2>2 DEF Written
  <2> QED BY <1>3, <2>1, <2>2, <2>3
<1> QED BY <1>2, <1>3

LEMMA ChildWritesKeeps ==
  ASSUME CmdTypes, CmdInv, C!ChildWrites
  PROVE  CmdTypes' /\ CmdInv'
<1>1. /\ child = "wired" /\ step = "wait"
      /\ UNCHANGED <<phase, temps, ends, run, old, step, child, errcode, errstr, left, rd, room, text, out>>
      /\ at = own["out"] /\ errat = own["err"]
      /\ Written(body["out"], own["out"], run) /\ Written(body["err"], own["err"], run)
      /\ rd = "idle" /\ text = <<>> /\ errstr = old
  BY DEF C!ChildWrites, C!readVars, CmdInv
<1>2. ASSUME NEW f \in C!Outputs
      PROVE  body[f] \in Seq(Runs) /\ own[f] \in 0..MaxOutput /\ Len(body[f]) <= MaxOutput /\ own[f] \in Nat
  BY BoundsAssumption DEF CmdTypes
<1>3. run \in Runs
  BY <1>1, BoundsAssumption DEF CmdTypes, CmdInv, Runs
<1>4. \E f \in C!Outputs :
        /\ own[f] < MaxOutput /\ body' = [body EXCEPT ![f] = C!Put(@, own[f], run)]
        /\ own' = [own EXCEPT ![f] = @ + 1]
        /\ at' = own'["out"] /\ errat' = own'["err"]
  <2>1. CASE own["out"] < MaxOutput /\ body' = [body EXCEPT !["out"] = C!Put(@, at, run)]
             /\ own' = [own EXCEPT !["out"] = @ + 1] /\ at' = at + 1 /\ UNCHANGED errat
    BY <1>1, <2>1 DEF CmdTypes, C!Outputs
  <2>2. CASE own["err"] < MaxOutput /\ body' = [body EXCEPT !["err"] = C!Put(@, errat, run)]
             /\ own' = [own EXCEPT !["err"] = @ + 1] /\ errat' = errat + 1 /\ UNCHANGED at
    BY <1>1, <2>2 DEF CmdTypes, C!Outputs
  <2> QED BY <2>1, <2>2 DEF C!ChildWrites
<1>5. PICK f \in C!Outputs :
        /\ own[f] < MaxOutput /\ body' = [body EXCEPT ![f] = C!Put(@, own[f], run)]
        /\ own' = [own EXCEPT ![f] = @ + 1]
        /\ at' = own'["out"] /\ errat' = own'["err"]
  BY <1>4
<1> DEFINE s == C!Put(body[f], own[f], run)
<1>6. /\ s \in Seq(Runs) /\ Written(s, own[f] + 1, run) /\ Len(s) <= MaxOutput
      /\ own[f] + 1 \in 0..MaxOutput
  <2>1. Written(body[f], own[f], run)
    BY <1>1 DEF C!Outputs
  <2>2. /\ s \in Seq(Runs) /\ Written(s, own[f] + 1, run)
        /\ Len(s) = IF own[f] < Len(body[f]) THEN Len(body[f]) ELSE own[f] + 1
    BY <1>2, <1>3, <2>1, PutWrites
  <2>3. own[f] + 1 \in 0..MaxOutput
    BY <1>2, <1>5, BoundsAssumption
  <2> HIDE DEF s
  <2> QED BY <1>2, <2>2, <2>3, BoundsAssumption
<1>7. /\ body' = [body EXCEPT ![f] = s] /\ own' = [own EXCEPT ![f] = own[f] + 1]
  BY <1>5
<1> HIDE DEF s
<1>8. \A g \in C!Outputs :
        /\ body'[g] = IF g = f THEN s ELSE body[g]
        /\ own'[g] = IF g = f THEN own[f] + 1 ELSE own[g]
  BY <1>7 DEF CmdTypes
<1>9. /\ body' \in [C!Outputs -> Seq(Runs)] /\ own' \in [C!Outputs -> 0..MaxOutput]
      /\ \A g \in C!Outputs : Len(body'[g]) <= MaxOutput
      /\ \A g \in C!Outputs : Written(body'[g], own'[g], run)
  <2>1. \A g \in C!Outputs : body'[g] \in Seq(Runs) /\ own'[g] \in 0..MaxOutput /\ Len(body'[g]) <= MaxOutput
    BY <1>2, <1>6, <1>8
  <2>2. \A g \in C!Outputs : Written(body[g], own[g], run)
    BY <1>1 DEF C!Outputs
  <2>3. \A g \in C!Outputs : Written(body'[g], own'[g], run)
    BY <1>6, <1>8, <2>2
  <2>4. body' \in [C!Outputs -> Seq(Runs)] /\ own' \in [C!Outputs -> 0..MaxOutput]
    BY <1>2, <1>6, <1>7 DEF CmdTypes
  <2> QED BY <2>1, <2>3, <2>4
<1>10. at' \in 0..MaxOutput /\ errat' \in 0..MaxOutput
  BY <1>5, <1>9 DEF C!Outputs
<1>11. CmdTypes'
  BY <1>1, <1>9, <1>10 DEF CmdTypes
<1>12. CmdInv'
  BY <1>1, <1>3, <1>5, <1>9 DEF CmdInv, C!Outputs, Runs
<1> QED BY <1>11, <1>12

LEMMA WaitKeeps ==
  ASSUME CmdTypes, CmdInv, C!Wait
  PROVE  CmdTypes' /\ CmdInv'
<1>1. /\ step = "wait" /\ child = "exited" /\ child' = "none" /\ run # 0
      /\ UNCHANGED <<phase, temps, ends, run, body, own, old, rd, room, text, out>>
      /\ \/ /\ at' = 0 /\ errat' = 0 /\ UNCHANGED errstr
            /\ \/ errcode' = "zero" /\ step' = "returned" /\ UNCHANGED left
               \/ errcode' = "exit" /\ step' = "error" /\ left' = Chunk
         \/ /\ step' = "returned" /\ errcode' = "sys" /\ errstr' = <<Stray>>
            /\ at' \in {at, 0} /\ UNCHANGED <<errat, left>>
      /\ rd = "idle" /\ text = <<>> /\ errstr = old
      /\ Written(body["out"], own["out"], run) /\ Written(body["err"], own["err"], run)
  BY DEF C!Wait, C!Fail, C!Start, C!readVars, C!runVars, CmdInv
<1>2. CmdTypes'
  <2>1. <<Stray>> \in Seq(Runs \cup {Stray}) /\ 0 \in 0..MaxOutput /\ errstr \in Seq(Runs \cup {Stray})
    BY BoundsAssumption DEF CmdTypes
  <2>2. /\ errstr' \in Seq(Runs \cup {Stray}) /\ step' \in {"error", "returned"}
        /\ at' \in {at, 0} /\ errat' \in {errat, 0} /\ left' \in {left, Chunk}
        /\ errcode' \in {"zero", "exit", "sys"}
    BY <1>1, <2>1
  <2> QED BY <1>1, <2>1, <2>2 DEF CmdTypes
<1>3. CmdInv'
  BY <1>1 DEF CmdInv
<1> QED BY <1>2, <1>3

LEMMA ReadErrorKeeps ==
  ASSUME CmdTypes, CmdInv, C!ReadError
  PROVE  CmdTypes' /\ CmdInv'
<1>1. /\ step = "error" /\ child # "wired" /\ child = "none" /\ run # 0 /\ errcode = "exit" /\ errat = 0
      /\ rd = "idle" /\ text = <<>> /\ errstr = old /\ at = 0
      /\ Written(body["out"], own["out"], run) /\ Written(body["err"], own["err"], run)
      /\ UNCHANGED <<phase, temps, ends, run, body, own, old, child, at, errcode, rd, room, text, out>>
  BY DEF C!ReadError, C!readVars, C!runVars, CmdInv
<1>2. CASE left' = C!LeftAtEnd /\ UNCHANGED <<step, errat, errstr>>
  BY <1>1, <1>2 DEF C!LeftAtEnd, CmdTypes, CmdInv
<1>3. CASE step' # "error"
  <2> DEFINE length == Len(body["err"])
             n == C!F!Least(left, length - errat)
             first == SubSeq(body["err"], errat + 1, errat + n)
  <2>1. /\ step' = "returned" /\ UNCHANGED left /\ errat' = errat + n
        /\ errstr' = errstr \o first \o <<>> \/ (n = Chunk /\ errstr' = errstr \o first \o <<Stray>>)
    BY <1>1, <1>3 DEF C!ReadError
  <2>2. /\ body["err"] \in Seq(Runs) /\ length \in 0..MaxOutput /\ left \in {0, Chunk}
        /\ errstr \in Seq(Runs \cup {Stray})
    BY BoundsAssumption DEF CmdTypes, C!Outputs
  <2>3. n \in 0..length /\ n = C!F!Least(left, length) /\ errat + n = n /\ errat + 1 = 1
    BY <1>1, <2>2, ChunkAssumption DEF C!F!Least
  <2>4. first = SubSeq(body["err"], 1, n)
    BY <2>3
  <2>5. first \in Seq(Runs) /\ Len(first) = n
    BY <2>2, <2>3, <2>4, Front
  <2> HIDE DEF n, first
  <2>6. errstr \o first \in Seq(Runs \cup {Stray})
    BY <2>2, <2>5
  <2>7. /\ errstr' = errstr \o first \/ (n = Chunk /\ errstr' = errstr \o first \o <<Stray>>)
        /\ errstr' \in Seq(Runs \cup {Stray})
    <3> DEFINE t == errstr \o first
    <3>1. t \in Seq(Runs \cup {Stray})
      BY <2>6
    <3>2. errstr' = t \o <<>> \/ (n = Chunk /\ errstr' = t \o <<Stray>>)
      BY <2>1
    <3> HIDE DEF t
    <3>3. errstr' = t \/ (n = Chunk /\ errstr' = t \o <<Stray>>)
      BY <3>1, <3>2
    <3>4. t \o <<Stray>> \in Seq(Runs \cup {Stray})
      BY <3>1
    <3> QED BY <3>1, <3>3, <3>4 DEF t
  <2>8. left # 0 => FirstError'
    <3> SUFFICES ASSUME left # 0 PROVE FirstError'
      OBVIOUS
    <3>1. left = Chunk /\ n = C!F!Least(Chunk, length)
      BY <2>2, <2>3
    <3>2. first = SubSeq(body["err"], 1, C!F!Least(Chunk, length))
      BY <2>4, <3>1
    <3>3. errstr' = old \o first \/ (Len(first) = Chunk /\ errstr' = old \o first \o <<Stray>>)
      BY <1>1, <2>5, <2>7
    <3> QED BY <1>1, <3>2, <3>3 DEF FirstError, C!F!Least
  <2>9. n \in 0..MaxOutput
    BY <2>2, <2>3, BoundsAssumption
  <2>10. CmdTypes'
    BY <1>1, <2>1, <2>3, <2>7, <2>9 DEF CmdTypes
  <2>11. CmdInv'
    BY <1>1, <2>1, <2>8 DEF CmdInv
  <2> QED BY <2>10, <2>11
<1> QED BY <1>2, <1>3 DEF C!ReadError

(* A run's output has no NUL. *)
LEMMA OutputIsString ==
  ASSUME NEW s \in Seq(Runs)
  PROVE  C!F!CString(s) = s
<1>1. \A k \in DOMAIN s : s[k] # Nul
  <2>1. \A k \in DOMAIN s : s[k] \in Runs
    OBVIOUS
  <2>2. Nul \notin Runs
    BY RunsAssumption DEF Runs
  <2> QED BY <2>1, <2>2
<1> QED BY <1>1 DEF C!F!CString

(* The application reads the output. *)
LEMMA ReadOutputKeeps ==
  ASSUME CmdTypes, CmdInv, C!ReadOutput
  PROVE  CmdTypes' /\ CmdInv'
<1> DEFINE file == body["out"]
<1>1. /\ step = "returned" /\ C!F!Read
      /\ UNCHANGED <<phase, temps, ends, run, body, own, old, step, child, errat, errcode, errstr, left>>
      /\ child = "none" /\ run # 0
      /\ Written(body["out"], own["out"], run) /\ Written(body["err"], own["err"], run)
  BY DEF C!ReadOutput, C!runVars, CmdInv
<1>2. /\ file \in Seq(Runs) /\ Len(file) <= MaxOutput /\ at \in Nat /\ at <= MaxOutput
      /\ room \in 0..Chunk /\ Chunk \in Nat /\ text \in Seq(Runs) /\ MaxOutput \in Nat
  BY BoundsAssumption, ChunkAssumption DEF CmdTypes, C!Outputs
<1>3. FirstError' <=> FirstError
  BY <1>1 DEF FirstError
<1>4. CASE C!F!ReadBegin
  <2>1. /\ rd = "idle" /\ text = <<>> /\ UNCHANGED <<at, text, out>>
        /\ rd' \in {"reading", "failed"} /\ room' \in {Chunk, room}
        /\ errcode # "sys" => at = 0
    BY <1>1, <1>4 DEF C!F!ReadBegin, CmdInv
  <2>2. CmdTypes'
    BY <1>1, <1>2, <2>1 DEF CmdTypes
  <2>3. Begins(<<>>, file)
    BY <1>2 DEF Begins
  <2>4. CmdInv'
    BY <1>1, <1>3, <2>1, <2>3 DEF CmdInv
  <2> QED BY <2>2, <2>4
<1>5. CASE C!F!ReadMore
  <2>1. /\ rd = "reading" /\ at < Len(file) /\ UNCHANGED out
        /\ \E n \in 1..C!F!Least(room, Len(file) - at) :
            /\ at' = at + n /\ room' = n
            /\ \/ text' = text \o SubSeq(file, at + 1, at + n) /\ rd' = rd
               \/ rd' = "failed" /\ text' = text
    BY <1>5 DEF C!F!ReadMore
  <2> HIDE DEF file
  <2>2. PICK n \in 1..C!F!Least(room, Len(file) - at) :
          /\ at' = at + n /\ room' = n
          /\ \/ text' = text \o SubSeq(file, at + 1, at + n) /\ rd' = rd
             \/ rd' = "failed" /\ text' = text
    BY <2>1
  <2>3. n \in Nat /\ n <= room /\ at + n <= Len(file)
    BY <1>2, <2>1 DEF C!F!Least
  <2>4. /\ text' \in Seq(Runs)
        /\ rd' = "reading" /\ Len(text) = at /\ Begins(text, file) => Len(text') = at + n /\ Begins(text', file)
    <3>1. CASE text' = text /\ rd' = "failed"
      BY <1>2, <3>1
    <3>2. CASE text' = text \o SubSeq(file, at + 1, at + n)
      <4> DEFINE t == Appended(text, file, at, n)
      <4>1. /\ t \in Seq(Runs) /\ Len(t) = Len(text) + n
            /\ Len(text) = at /\ Begins(text, file) => Begins(t, file)
        <5>1. text \in Seq(Runs) /\ file \in Seq(Runs) /\ at \in Nat /\ n \in Nat /\ at + n <= Len(file)
          BY <1>2, <2>3
        <5> QED BY <5>1, ReadAppends, Zenon
      <4>2. text' = t
        BY <3>2 DEF Appended
      <4> HIDE DEF t
      <4> QED BY <4>1, <4>2
    <3> QED BY <2>2, <3>1, <3>2
  <2>5. at + n \in 0..MaxOutput /\ n \in 0..Chunk
    <3>1. Len(file) \in Nat /\ room \in Nat /\ room <= Chunk
      BY <1>2
    <3> QED BY <1>2, <2>3, <3>1
  <2>6. CmdTypes'
    BY <1>1, <2>1, <2>2, <2>4, <2>5 DEF CmdTypes
  <2>7. errcode # "sys" => Len(text) = at /\ Begins(text, file)
    BY <1>1, <2>1 DEF CmdInv, file
  <2>8. /\ errcode # "sys" /\ rd' = "reading" => Len(text') = at' /\ Begins(text', body["out"])
        /\ rd' \in {"reading", "failed"}
    BY <2>1, <2>2, <2>4, <2>7 DEF file
  <2>9. CmdInv'
    BY <1>1, <1>3, <2>1, <2>8 DEF CmdInv
  <2> QED BY <2>6, <2>9
<1>6. CASE C!F!ReadEnd
  <2>1. /\ rd = "reading" /\ at >= Len(file) /\ rd' = "done" /\ room' = 0 /\ UNCHANGED <<at, text>>
        /\ text # <<>> => out' = C!F!CString(text)
    BY <1>6 DEF C!F!ReadEnd, C!F!Strings
  <2> HIDE DEF file
  <2>2. CmdTypes'
    BY <1>1, <1>2, <2>1 DEF CmdTypes
  <2>3. ASSUME errcode # "sys" PROVE text = file
    <3>1. Len(text) = at /\ Begins(text, file)
      BY <1>1, <2>1, <2>3 DEF CmdInv, file
    <3>2. Len(text) = Len(file)
      BY <1>2, <2>1, <3>1 DEF Begins
    <3> QED BY <1>2, <3>1, <3>2, SameSequence DEF Begins
  <2>4. text # <<>> => out' = text
    BY <1>2, <2>1, OutputIsString
  <2>5. CmdInv'
    BY <1>1, <1>3, <2>1, <2>3, <2>4 DEF CmdInv, file
  <2> QED BY <2>2, <2>5
<1>7. CASE C!F!ReadFails
  <2>1. rd = "reading" /\ rd' = "failed" /\ UNCHANGED <<at, room, text, out>>
    BY <1>7 DEF C!F!ReadFails
  <2>2. CmdTypes'
    BY <1>1, <2>1 DEF CmdTypes
  <2>3. CmdInv'
    BY <1>1, <1>3, <2>1 DEF CmdInv
  <2> QED BY <2>2, <2>3
<1> QED BY <1>1, <1>4, <1>5, <1>6, <1>7 DEF C!F!Read

CmdPartInv == part = "cmd" => CmdTypes /\ CmdInv

LEMMA CmdPartKeeps == CmdPartInv /\ [Next]_vars => CmdPartInv'
<1> SUFFICES ASSUME CmdPartInv, [Next]_vars, part' = "cmd" PROVE CmdTypes' /\ CmdInv'
  BY DEF CmdPartInv
<1>1. CASE Cmd(C!CmdNext)
  <2>1. CmdTypes /\ CmdInv /\ C!CmdNext
    BY <1>1 DEF Cmd, CmdPartInv
  <2> QED BY <2>1, AttrKeeps, RunProcessKeeps, SpawnKeeps, WaitKeeps, ReadErrorKeeps, ReadOutputKeeps,
             ChildWritesKeeps DEF C!CmdNext, C!CmdStep
<1>2. CASE UNCHANGED vars
  <2>1. CmdTypes /\ CmdInv /\ UNCHANGED <<cmdOnly, phase, reading>>
    BY <1>2 DEF CmdPartInv, vars
  <2>2. CmdTypes'
    BY <2>1 DEF CmdTypes, cmdOnly, reading
  <2>3. FirstError' <=> FirstError
    BY <2>1 DEF FirstError, cmdOnly
  <2>4. CmdInv'
    BY <2>1, <2>3 DEF CmdInv, cmdOnly, reading
  <2> QED BY <2>2, <2>4
<1>3. CASE ~ Cmd(C!CmdNext) /\ ~ UNCHANGED vars
  <2>1. part' # "cmd"
    BY <1>3 DEF Next, Sock, Load, Path, Alone
  <2> QED BY <2>1
<1> QED BY <1>1, <1>2, <1>3

LEMMA OutputIsOfRun ==
  ASSUME CmdTypes, CmdInv
  PROVE  C!OutputOfRun
<1> SUFFICES ASSUME step = "returned", errcode # "sys"
             PROVE  /\ \A f \in C!Outputs : /\ own[f] <= Len(body[f])
                                            /\ \A k \in DOMAIN body[f] : k <= own[f] <=> body[f][k] = run
                    /\ rd = "done" /\ body["out"] # <<>> => out = body["out"]
                    /\ errcode = "zero" => errstr = old
                    /\ errcode = "exit" /\ left # 0 => FirstError
  BY DEF C!OutputOfRun, FirstError
<1>1. ASSUME NEW f \in C!Outputs
      PROVE own[f] <= Len(body[f]) /\ \A k \in DOMAIN body[f] : k <= own[f] <=> body[f][k] = run
  <2>1. Written(body[f], own[f], run) /\ body[f] \in Seq(Runs)
    BY DEF CmdInv, CmdTypes, C!Outputs
  <2> QED BY <2>1 DEF Written
<1> QED BY <1>1 DEF CmdInv

(* What kahanaIOLoadFile returns describes the file as it was or has become,    *)
(* whatever other processes do meanwhile; what the application reads of a run   *)
(* is what the child of that run wrote, and so is attr->errstr.               *)
THEOREM DataIsAsWritten == Spec => []DataAsWritten
<1>1. Init => LoadPartInv /\ CmdPartInv
  BY LoadInitial, CmdInitial DEF LoadPartInv, CmdPartInv
<1>2. LoadPartInv /\ CmdPartInv /\ [Next]_vars => LoadPartInv' /\ CmdPartInv'
  BY LoadPartKeeps, CmdPartKeeps
<1>3. LoadPartInv /\ CmdPartInv => DataAsWritten
  BY LoadDescribes, OutputIsOfRun DEF LoadPartInv, CmdPartInv, DataAsWritten
<1> QED BY <1>1, <1>2, <1>3, PTL DEF Spec

-----------------------------------------------------------------------------
(* Types.  Those of a loading, a run and a call that makes paths are part of   *)
(* what was proved of them.                                                  *)
SockTypes == part = "sock" => S!TypeOK

LEMMA SockTypesKept == SockTypes /\ [Next]_vars => SockTypes'
<1> SUFFICES ASSUME SockTypes, [Next]_vars, part' = "sock" PROVE S!TypeOK'
  BY DEF SockTypes
<1>1. CASE UNCHANGED vars
  BY <1>1 DEF vars, sockOnly, SockTypes, S!TypeOK
<1>2. CASE Sock(S!Next)
  <2>1. S!TypeOK
    BY <1>2 DEF Sock, SockTypes
  <2>2. CASE S!Create
    <3>1. \A n \in 0..4 : S!Copied(n) \in [S!Options -> Sizes \cup {0}]
      BY <2>1 DEF S!Copied, S!TypeOK
    <3>2. CASE S!Malloc \/ S!EventBaseNew \/ S!Getaddrinfo \/ S!Socket
      BY <2>1, <3>2 DEF S!TypeOK, S!Malloc, S!EventBaseNew, S!Getaddrinfo, S!Socket, S!CleanUp, S!settings
    <3>3. ASSUME NEW at0, NEW next \in {"bind", "fcntl", "listen", "getsockopt"}, S!Configure(at0, next)
          PROVE  S!TypeOK'
      BY <2>1, <3>3 DEF S!TypeOK, S!Configure, S!CleanUp, S!settings
    <3>4. CASE S!ReadDefaults
      BY <2>1, <3>1, <3>4 DEF S!TypeOK, S!ReadDefaults
    <3> QED BY <2>2, <3>2, <3>3, <3>4 DEF S!Create
  <2>3. ASSUME NEW v \in Sizes, S!OptSetRcvBuf(v) \/ S!OptSetRcvTimeout(v) \/ S!OptSetSndTimeout(v)
        PROVE  S!TypeOK'
    <3>1. PICK opt \in S!Options, field \in S!Options : S!SetOpt(opt, field, v)
      BY <2>3 DEF S!OptSetRcvBuf, S!OptSetRcvTimeout, S!OptSetSndTimeout, S!Options
    <3> QED BY <2>1, <3>1 DEF S!TypeOK, S!SetOpt
  <2>4. ASSUME NEW s \in Signals, S!SetOnSignal(s) PROVE S!TypeOK'
    BY <2>1, <2>4 DEF S!TypeOK, S!SetOnSignal
  <2>5. CASE S!Destroy
    BY <2>1, <2>5 DEF S!TypeOK, S!Destroy
  <2> QED BY <1>2, <2>2, <2>3, <2>4, <2>5 DEF Sock, S!Next
<1>3. part' = part => Sock(S!Next) \/ UNCHANGED vars
  BY DEF Next, Load, Cmd, Path
<1>4. part' = part
  BY DEF Next, Sock, Load, Cmd, Path, Alone, vars
<1> QED BY <1>1, <1>2, <1>3, <1>4

LEMMA LoadTypesOK == LoadTypes => L!LoadTypeOK
<1> SUFFICES ASSUME LoadTypes PROVE L!LoadTypeOK
  OBVIOUS
<1>1. Files \subseteq L!Contents
  <2> SUFFICES ASSUME NEW s \in Files PROVE s \in L!Contents
    OBVIOUS
  <2>1. Len(s) \in 0..MaxFile /\ s \in [1..Len(s) -> Letters \cup {Nul}]
    BY BoundsAssumption DEF Files, Chars
  <2> QED BY <2>1 DEF L!Contents
<1>2. MaxFile \in Nat /\ Len(text) \in Nat /\ Len(data) \in Nat
  BY BoundsAssumption DEF LoadTypes
<1>3. Len(data) <= 2 * MaxFile + 1 /\ Len(text) <= 2 * MaxFile
  BY <1>2 DEF LoadTypes
<1> QED BY <1>1, <1>3 DEF LoadTypes, L!LoadTypeOK

LEMMA CmdTypesOK == CmdTypes => C!CmdTypeOK
BY DEF CmdTypes, Temps, C!CmdTypeOK

LEMMA PathTypesOK == PathTypes => P!PathTypeOK
<1> SUFFICES ASSUME PathTypes PROVE P!PathTypeOK
  OBVIOUS
<1>1. Len(args) <= MaxArgs /\ i \in 1..MaxArgs
  <2>1. CASE pstep = "idle"
    BY <2>1, BoundsAssumption DEF PathTypes
  <2>2. CASE pstep # "idle"
    <3>1. PICK n \in 1..MaxArgs : \E T : args \in [1..n -> T]
      BY <2>2 DEF PathTypes, P!Lists
    <3>2. Len(args) = n /\ DOMAIN args = 1..n
      BY <3>1, BoundsAssumption
    <3> QED BY <2>2, <3>2, BoundsAssumption DEF PathTypes
  <2> QED BY <2>1, <2>2
<1> QED BY <1>1 DEF PathTypes, P!PathTypeOK, Trees

-----------------------------------------------------------------------------
(* Every variable of every part stays in its range. *)
THEOREM TypeCorrect == Spec => []TypeOK
<1> DEFINE Inv == SockTypes /\ LoadPartInv /\ CmdPartInv /\ PathInv /\ GeoPartInv /\ CipherPartInv
<1>1. Init => Inv
  <2>1. Init => SockTypes
    BY SizesAssumption DEF Init, SockTypes, S!Init, S!TypeOK
  <2>2. Init => GeoPartInv
    BY DEF Init, G!GeoInit, GeoPartInv, GeoInv
  <2>3. Init => CmdPartInv /\ CipherPartInv
    BY CmdInitial, CipherInitial DEF CmdPartInv, CipherPartInv
  <2> QED BY <2>1, <2>2, <2>3, LoadPartInitial, PathInitial
<1>2. Inv /\ [Next]_vars => Inv'
  BY SockTypesKept, LoadPartKeeps, CmdPartKeeps, PathKeeps, GeoInvKept, CipherKeeps
<1>3. Inv => TypeOK
  <2>1. CipherTypes => E!CipherTypeOK
    BY DEF CipherTypes, E!CipherTypeOK
  <2> QED BY <2>1, LoadTypesOK, CmdTypesOK, PathTypesOK, GeoTypesOK
      DEF TypeOK, SockTypes, LoadPartInv, CmdPartInv, PathInv, GeoPartInv, CipherPartInv
<1> QED BY <1>1, <1>2, <1>3, PTL DEF Spec
================================================================================
