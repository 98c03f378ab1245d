---------------------------- MODULE StreamProofs ----------------------------
(***************************************************************************)
(* What goes over connections.  Two streams of bytes come in cut at any    *)
(* place: the requests in the buffer of a connection's parser              *)
(* (ParserBuffer), and the replies to a connection of the MrQ client       *)
(* (MrqProtocol).  The first for every sequence of requests and every size *)
(* of the scanner's blocks and of the buffer, the second for every         *)
(* sequence of requests, lengths of replies and sizes of the ring and of   *)
(* rbuf.  Then the functions that read and write headers, replies and      *)
(* commands (WireFormats), for every input.                                *)
(*                                                                         *)
(* What the client sends, the sizes of the buffers, numbers and the loops  *)
(* over headers, replies and commands are recursive functions.  The first  *)
(* lemmas show that such functions exist, by induction in the form of a    *)
(* least counterexample.                                                   *)
(***************************************************************************)
EXTENDS ParserBuffer, MrqProtocol, WireFormats,
        SequenceTheorems, WellFoundedInduction, TLAPS

LEMMA LeastNat ==
    ASSUME NEW T \in SUBSET Nat, T # {}
    PROVE  \E k \in T : \A j \in T : k <= j
<1> DEFINE R == {xy \in Nat \X Nat : xy[1] < xy[2]}
<1>1. IsWellFoundedOn(R, Nat)
  BY NatLessThanWellFounded DEF OpToRel
<1>2. \A x, y \in Nat : <<y, x>> \in R <=> y < x
  OBVIOUS
<1> HIDE DEF R
<1>3. PICK x \in T : \A y \in T : <<y, x>> \notin R
  BY <1>1, WFMin
<1>4. \A y \in T : x \in Nat /\ y \in Nat /\ ~(y < x)
  BY <1>2, <1>3
<1> QED
  BY <1>4

LEMMA Induction ==
    ASSUME NEW T, 0 \in T, \A k \in Nat : k \in T => k + 1 \in T
    PROVE  Nat \subseteq T
<1> SUFFICES ASSUME Nat \ T # {} PROVE FALSE
  OBVIOUS
<1>1. PICK k \in Nat \ T : \A j \in Nat \ T : k <= j
  BY LeastNat
<1>2. k # 0 /\ k - 1 \in Nat /\ ~(k <= k - 1)
  BY <1>1
<1>3. k - 1 \in T /\ (k - 1) + 1 = k
  BY <1>1, <1>2
<1> QED
  BY <1>1, <1>2, <1>3

(* A function from D, an initial part of Nat, that starts with a and whose *)
(* value at k is step of k and the value at k - 1.  Begun(k) are those up  *)
(* to k; there is one, each continues the ones before.                     *)
Begun(k, S, a, step) ==
    {g \in [0 .. k -> S] : g[0] = a /\ \A i \in 1 .. k : g[i] = step[i][g[i - 1]]}

IsStart(D) == D \subseteq Nat /\ \A k \in D : k # 0 => k - 1 \in D

Follows(f, D, a, step) == \A k \in D : f[k] = IF k = 0 THEN a ELSE step[k][f[k - 1]]

LEMMA BegunExists ==
    ASSUME NEW D, IsStart(D),
           NEW S, NEW a \in S, NEW step \in [D -> [S -> S]]
    PROVE  \A k \in D : Begun(k, S, a, step) # {}
<1> DEFINE T == {k \in Nat : k \in D => Begun(k, S, a, step) # {}}
<1>1. 0 \in T
  <2>1. [i \in 0 .. 0 |-> a] \in Begun(0, S, a, step)
    BY DEF Begun
  <2> QED
    BY <2>1
<1>2. ASSUME NEW k \in Nat, k \in T PROVE k + 1 \in T
  <2> SUFFICES ASSUME k + 1 \in D PROVE Begun(k + 1, S, a, step) # {}
    OBVIOUS
  <2>1. k \in D
    <3>1. (k + 1) # 0 /\ (k + 1) - 1 = k
      OBVIOUS
    <3> QED
      BY <3>1 DEF IsStart
  <2>2. PICK g : g \in Begun(k, S, a, step)
    BY <1>2, <2>1
  <2>3. g \in [0 .. k -> S] /\ g[0] = a /\ \A i \in 1 .. k : g[i] = step[i][g[i - 1]]
    BY <2>2 DEF Begun
  <2> DEFINE next == step[k + 1][g[k]]
             h == [i \in 0 .. k + 1 |-> IF i <= k THEN g[i] ELSE next]
  <2>4. next \in S
    <3>1. g[k] \in S
      BY <2>3
    <3> QED
      BY <3>1
  <2>5. h \in [0 .. k + 1 -> S] /\ h[0] = a
    <3> HIDE DEF next
    <3> QED
      BY <2>3, <2>4
  <2>6. ASSUME NEW i \in 1 .. k + 1 PROVE h[i] = step[i][h[i - 1]]
    <3> HIDE DEF next
    <3>1. CASE i <= k
      <4>1. h[i] = g[i] /\ h[i - 1] = g[i - 1] /\ i \in 1 .. k
        BY <3>1
      <4> QED
        BY <2>3, <4>1
    <3>2. CASE i = k + 1
      <4>1. h[i] = next /\ h[i - 1] = g[k]
        BY <3>2
      <4> QED
        BY <3>2, <4>1 DEF next
    <3> QED
      BY <3>1, <3>2
  <2>7. h \in Begun(k + 1, S, a, step)
    <3> HIDE DEF h
    <3> QED
      BY <2>5, <2>6 DEF Begun
  <2> QED
    BY <2>7
<1>3. Nat \subseteq T
  <2> HIDE DEF T
  <2> QED
    BY <1>1, <1>2, Induction
<1> QED
  BY <1>3 DEF IsStart

LEMMA BegunUnique ==
    ASSUME NEW k \in Nat, NEW l \in Nat, NEW S, NEW a, NEW step,
           NEW g \in Begun(k, S, a, step), NEW h \in Begun(l, S, a, step)
    PROVE  \A i \in 0 .. k : i <= l => g[i] = h[i]
<1> DEFINE T == {i \in Nat : i <= k /\ i <= l => g[i] = h[i]}
<1>1. /\ g[0] = a /\ \A i \in 1 .. k : g[i] = step[i][g[i - 1]]
      /\ h[0] = a /\ \A i \in 1 .. l : h[i] = step[i][h[i - 1]]
  BY DEF Begun
<1>2. 0 \in T
  BY <1>1
<1>3. ASSUME NEW i \in Nat, i \in T PROVE i + 1 \in T
  <2> SUFFICES ASSUME i + 1 <= k, i + 1 <= l PROVE g[i + 1] = h[i + 1]
    OBVIOUS
  <2>1. g[i] = h[i] /\ i + 1 \in 1 .. k /\ i + 1 \in 1 .. l /\ (i + 1) - 1 = i
    BY <1>3
  <2>2. g[i + 1] = step[i + 1][g[i]] /\ h[i + 1] = step[i + 1][h[i]]
    BY <1>1, <2>1
  <2> QED
    BY <2>1, <2>2
<1>4. Nat \subseteq T
  <2> HIDE DEF T
  <2> QED
    BY <1>2, <1>3, Induction
<1> QED
  BY <1>4

LEMMA Recursion ==
    ASSUME NEW D, IsStart(D), NEW S, NEW a \in S, NEW step \in [D -> [S -> S]]
    PROVE  \E f \in [D -> S] : Follows(f, D, a, step)
<1> DEFINE part(k) == CHOOSE g : g \in Begun(k, S, a, step)
           f == [k \in D |-> part(k)[k]]
<1>1. \A k \in D : part(k) \in Begun(k, S, a, step)
  BY BegunExists
<1> HIDE DEF part
<1>2. f \in [D -> S]
  <2>1. ASSUME NEW k \in D PROVE part(k)[k] \in S
    BY <1>1 DEF Begun, IsStart
  <2> QED
    BY <2>1
<1>3. ASSUME NEW k \in D PROVE f[k] = IF k = 0 THEN a ELSE step[k][f[k - 1]]
  <2>1. f[k] = part(k)[k]
    OBVIOUS
  <2>2. CASE k = 0
    BY <1>1, <2>1, <2>2 DEF Begun
  <2>3. CASE k # 0
    <3>1. k - 1 \in D /\ k - 1 \in Nat /\ k \in Nat /\ k - 1 \in 0 .. k /\ k \in 1 .. k
      BY <2>3 DEF IsStart
    <3>2. f[k - 1] = part(k - 1)[k - 1]
      BY <3>1
    <3>3. part(k)[k - 1] = part(k - 1)[k - 1]
      <4>1. part(k) \in Begun(k, S, a, step) /\ part(k - 1) \in Begun(k - 1, S, a, step)
        BY <1>1, <3>1
      <4>2. \A i \in 0 .. k : i <= k - 1 => part(k)[i] = part(k - 1)[i]
        BY <3>1, <4>1, BegunUnique
      <4> QED
        BY <3>1, <4>2
    <3>4. part(k)[k] = step[k][part(k)[k - 1]]
      BY <1>1, <3>1 DEF Begun
    <3> QED
      BY <2>1, <2>3, <3>2, <3>3, <3>4
  <2> QED
    BY <2>2, <2>3
<1> HIDE DEF f
<1> QED
  BY <1>2, <1>3 DEF Follows

Along(f, n, a, step) == f[0] = a /\ \A i \in 1 .. n : f[i] = step[i][f[i - 1]]

LEMMA RecursionTo ==
    ASSUME NEW n \in Nat, NEW S, NEW a \in S, NEW step \in [1 .. n -> [S -> S]]
    PROVE  \E f \in [0 .. n -> S] : Along(f, n, a, step)
<1> DEFINE full == [i \in 0 .. n |-> IF i = 0 THEN [s \in S |-> s] ELSE step[i]]
<1>1. full \in [0 .. n -> [S -> S]] /\ \A i \in 1 .. n : full[i] = step[i]
  OBVIOUS
<1>2. IsStart(0 .. n)
  BY DEF IsStart
<1> HIDE DEF full
<1>3. PICK f \in [0 .. n -> S] : Follows(f, 0 .. n, a, full)
  BY <1>1, <1>2, Recursion
<1>4. f[0] = a /\ \A i \in 1 .. n : f[i] = full[i][f[i - 1]]
  BY <1>3 DEF Follows
<1> QED
  BY <1>1, <1>4 DEF Along

-----------------------------------------------------------------------------
(* The sizes of the buffer.                                                *)
LEMMA TwoToIs ==
    /\ TwoTo \in [Nat -> Nat]
    /\ \A k \in Nat : TwoTo[k] = IF k = 0 THEN 1 ELSE 2 * TwoTo[k - 1]
<1> DEFINE step == [k \in Nat |-> [v \in Nat |-> 2 * v]]
<1>1. step \in [Nat -> [Nat -> Nat]] /\ \A k, v \in Nat : step[k][v] = 2 * v
  OBVIOUS
<1> HIDE DEF step
<1>2. PICK f \in [Nat -> Nat] : \A k \in Nat : f[k] = IF k = 0 THEN 1 ELSE step[k][f[k - 1]]
  <2>1. IsStart(Nat) /\ 1 \in Nat
    BY DEF IsStart
  <2>2. \E f \in [Nat -> Nat] : Follows(f, Nat, 1, step)
    BY <1>1, <2>1, Recursion
  <2> QED
    BY <2>2 DEF Follows
<1>3. f = [k \in Nat |-> IF k = 0 THEN 1 ELSE 2 * f[k - 1]]
  <2>1. ASSUME NEW k \in Nat PROVE f[k] = IF k = 0 THEN 1 ELSE 2 * f[k - 1]
    <3>1. CASE k = 0
      BY <1>2, <3>1
    <3>2. CASE k # 0
      <4>1. k - 1 \in Nat
        BY <3>2
      <4>2. step[k][f[k - 1]] = 2 * f[k - 1]
        BY <1>1, <4>1
      <4> QED
        BY <1>2, <3>2, <4>2
    <3> QED
      BY <3>1, <3>2
  <2> QED
    BY <2>1
<1>4. TwoTo = [k \in Nat |-> IF k = 0 THEN 1 ELSE 2 * TwoTo[k - 1]]
  BY <1>3 DEF TwoTo
<1>5. \A k \in Nat : TwoTo[k] = IF k = 0 THEN 1 ELSE 2 * TwoTo[k - 1]
  BY <1>4
<1> DEFINE T == {k \in Nat : TwoTo[k] \in Nat}
<1>6. 0 \in T
  BY <1>5
<1>7. ASSUME NEW k \in Nat, k \in T PROVE k + 1 \in T
  <2>1. TwoTo[k + 1] = 2 * TwoTo[k]
    <3>1. k + 1 \in Nat /\ k + 1 # 0 /\ (k + 1) - 1 = k
      OBVIOUS
    <3> QED
      BY <1>5, <3>1
  <2> QED
    BY <1>7, <2>1
<1>8. Nat \subseteq T
  <2> HIDE DEF T
  <2> QED
    BY <1>6, <1>7, Induction
<1>9. \A k \in Nat : TwoTo[k] \in Nat
  BY <1>8
<1>10. TwoTo \in [Nat -> Nat]
  BY <1>4, <1>9
<1> QED
  BY <1>5, <1>10

LEMMA TwoToGrows == \A k \in Nat : TwoTo[k] \in Nat /\ TwoTo[k] > k
<1> DEFINE T == {k \in Nat : TwoTo[k] > k}
<1>1. 0 \in T
  BY TwoToIs
<1>2. ASSUME NEW k \in Nat, k \in T PROVE k + 1 \in T
  <2>1. k + 1 \in Nat /\ k + 1 # 0 /\ (k + 1) - 1 = k /\ TwoTo[k] \in Nat /\ TwoTo[k + 1] \in Nat
    BY TwoToIs
  <2>2. TwoTo[k + 1] = 2 * TwoTo[k]
    BY TwoToIs, <2>1
  <2> QED
    BY <1>2, <2>1, <2>2
<1>3. Nat \subseteq T
  <2> HIDE DEF T
  <2> QED
    BY <1>1, <1>2, Induction
<1> QED
  BY <1>3, TwoToIs

LEMMA AtLeastOne ==
    ASSUME NEW s \in Nat \ {0}, NEW x \in Nat
    PROVE  s * x \in Nat /\ s * x >= x /\ (x >= 1 => s * x >= s)
  BY SMT

(* The loop ends with room for n, and never less than there was.           *)
LEMMA DoubledFits ==
    ASSUME NEW s \in Nat \ {0}, NEW n \in Nat
    PROVE  Doubled(s, n) \in Nat /\ Doubled(s, n) >= n /\ Doubled(s, n) >= s
<1> DEFINE fits(k) == s * TwoTo[k] >= n
           T == {k \in Nat : fits(k)}
           stops(k) == fits(k) /\ (k = 0 \/ s * TwoTo[k - 1] < n)
<1>1. \A k \in Nat : s * TwoTo[k] \in Nat /\ s * TwoTo[k] >= TwoTo[k] /\ s * TwoTo[k] >= s
  BY TwoToGrows, AtLeastOne
<1>2. n \in T
  BY <1>1, TwoToGrows
<1>3. PICK k \in T : \A j \in T : k <= j
  BY <1>2, LeastNat
<1>4. k \in 0 .. n /\ k \in Nat /\ fits(k)
  BY <1>2, <1>3
<1>5. k = 0 \/ s * TwoTo[k - 1] < n
  <2> SUFFICES ASSUME k # 0 PROVE s * TwoTo[k - 1] < n
    OBVIOUS
  <2>1. k - 1 \in Nat /\ k - 1 \notin T
    BY <1>3, <1>4
  <2> QED
    BY <1>1, <2>1
<1> DEFINE chosen == CHOOSE j \in 0 .. n : stops(j)
<1>6. chosen \in 0 .. n /\ stops(chosen)
  <2>1. \E j \in 0 .. n : stops(j)
    BY <1>4, <1>5
  <2> HIDE DEF stops
  <2> QED
    BY <2>1
<1>7. Doubled(s, n) = s * TwoTo[chosen]
  BY DEF Doubled
<1> HIDE DEF chosen
<1> QED
  BY <1>1, <1>6, <1>7

-----------------------------------------------------------------------------
(* The requests a client sends.  HeadOf(k) is where the blank line is.     *)
PartNames == {"method", "path", "version", "length", "header", "blank", "body"}
Cell == [request : DOMAIN Requests, part : PartNames]

LengthOf(r) == IF r.length = "none" THEN 0 ELSE 1
HeadOf(k) == 4 + LengthOf(Requests[k]) + Requests[k].headers

Shape(k) ==
    /\ Cells(k) \in Seq(Cell)
    /\ HeadOf(k) \in Nat /\ HeadOf(k) >= 4
    /\ Len(Cells(k)) = HeadOf(k) + Requests[k].body
    /\ Requests[k].body \in Nat
    /\ \A i \in 1 .. Len(Cells(k)) : Cells(k)[i].request = k
    /\ Cells(k)[1].part = "method" /\ Cells(k)[2].part = "path" /\ Cells(k)[3].part = "version"
    /\ \A i \in 1 .. Len(Cells(k)) :
          /\ Cells(k)[i].part = "blank" <=> i = HeadOf(k)
          /\ Cells(k)[i].part = "length" <=> i = 4 /\ Requests[k].length # "none"

IsJoined(u, s, t, m, n, S) ==
    u \in Seq(S) /\ Len(u) = m + n /\ \A i \in 1 .. m + n : u[i] = IF i <= m THEN s[i] ELSE t[i - m]

LEMMA Joined ==
    ASSUME NEW S, NEW s, NEW t, s \in Seq(S), t \in Seq(S), NEW m, NEW n, Len(s) = m, Len(t) = n
    PROVE  IsJoined(s \o t, s, t, m, n, S)
  BY ConcatProperties DEF IsJoined

LEMMA CellsShape == \A k \in DOMAIN Requests : Shape(k)
<1> SUFFICES ASSUME NEW k \in DOMAIN Requests PROVE Shape(k)
  OBVIOUS
<1> DEFINE r == Requests[k]
           a == <<"method", "path", "version">>
           b == IF r.length = "none" THEN <<>> ELSE <<"length">>
           h == [i \in 1 .. r.headers |-> "header"]
           d == [i \in 1 .. r.body |-> "body"]
           ab == a \o b
           abh == ab \o h
           abhb == abh \o <<"blank">>
           all == abhb \o d
           l == LengthOf(r)
           n == r.headers
<1>0. r \in [length : {"none", "good", "bad"}, headers : Nat, body : Nat, packed : BOOLEAN]
  <2>1. Requests \in Seq([length : {"none", "good", "bad"}, headers : Nat, body : Nat, packed : BOOLEAN])
    BY ParserAssumption
  <2>2. DOMAIN Requests = 1 .. Len(Requests)
    BY <2>1, LenProperties
  <2> QED
    BY <2>1, <2>2, ElementOfSeq
<1>1. n \in Nat /\ r.body \in Nat /\ l \in {0, 1} /\ (r.length = "none" <=> l = 0)
  BY <1>0 DEF LengthOf
<1>2. Parts(r) = all
  BY DEF Parts
<1>3. a \in Seq(PartNames) /\ Len(a) = 3 /\ a[1] = "method" /\ a[2] = "path" /\ a[3] = "version"
  BY DEF PartNames
<1>4. b \in Seq(PartNames) /\ Len(b) = l /\ (l = 1 => b[1] = "length")
  <2>1. CASE r.length = "none"
    BY <2>1 DEF LengthOf
  <2>2. CASE r.length # "none"
    BY <2>2 DEF LengthOf, PartNames
  <2> QED
    BY <2>1, <2>2
<1> HIDE DEF l
<1>5. h \in Seq(PartNames) /\ Len(h) = n /\ \A i \in 1 .. n : h[i] = "header"
  <2>1. h \in [1 .. n -> PartNames] /\ n \in Nat
    BY <1>1 DEF PartNames
  <2> QED
    BY <2>1
<1>6. d \in Seq(PartNames) /\ Len(d) = r.body /\ \A i \in 1 .. r.body : d[i] = "body"
  <2>1. d \in [1 .. r.body -> PartNames]
    BY <1>1 DEF PartNames
  <2> QED
    BY <1>1, <2>1
<1> HIDE DEF n
<1> HIDE DEF a, b, h, d
<1>7. ab \in Seq(PartNames) /\ Len(ab) = 3 + l
      /\ \A i \in 1 .. 3 + l : ab[i] = IF i <= 3 THEN a[i] ELSE b[i - 3]
  <2>1. IsJoined(ab, a, b, 3, l, PartNames)
    BY <1>3, <1>4, Joined
  <2> QED
    BY <2>1 DEF IsJoined
<1> HIDE DEF ab
<1>8. abh \in Seq(PartNames) /\ Len(abh) = 3 + l + n
      /\ \A i \in 1 .. 3 + l + n : abh[i] = IF i <= 3 + l THEN ab[i] ELSE h[i - (3 + l)]
  <2>1. IsJoined(abh, ab, h, 3 + l, n, PartNames)
    BY <1>5, <1>7, Joined
  <2> QED
    BY <1>1, <2>1 DEF IsJoined
<1> HIDE DEF abh
<1>9. abhb \in Seq(PartNames) /\ Len(abhb) = 4 + l + n
      /\ \A i \in 1 .. 4 + l + n : abhb[i] = IF i <= 3 + l + n THEN abh[i] ELSE "blank"
  <2>1. <<"blank">> \in Seq(PartNames) /\ Len(<<"blank">>) = 1 /\ <<"blank">>[1] = "blank"
    BY DEF PartNames
  <2> QED
    <3>1. IsJoined(abhb, abh, <<"blank">>, 3 + l + n, 1, PartNames)
      BY <1>8, <2>1, Joined
    <3> QED
      BY <1>1, <2>1, <3>1 DEF IsJoined
<1> HIDE DEF abhb
<1>10. all \in Seq(PartNames) /\ Len(all) = 4 + l + n + r.body
       /\ \A i \in 1 .. 4 + l + n + r.body : all[i] = IF i <= 4 + l + n THEN abhb[i] ELSE d[i - (4 + l + n)]
  <2>1. IsJoined(all, abhb, d, 4 + l + n, r.body, PartNames)
    BY <1>6, <1>9, Joined
  <2> QED
    BY <1>1, <2>1 DEF IsJoined
<1> HIDE DEF all
<1>11. ASSUME NEW i \in 1 .. 4 + l + n + r.body
       PROVE  all[i] = IF i <= 3 THEN a[i] ELSE IF i = 4 /\ l = 1 THEN "length"
                       ELSE IF i = 4 + l + n THEN "blank"
                       ELSE IF i > 4 + l + n THEN "body" ELSE "header"
  <2>1. CASE i <= 3
    <3>1. /\ i \in 1 .. 3 + l /\ i \in 1 .. 3 + l + n /\ i \in 1 .. 4 + l + n
          /\ i <= 3 + l /\ i <= 3 + l + n /\ i <= 4 + l + n
      BY <1>1, <2>1
    <3>2. all[i] = abhb[i]
      BY <1>10, <3>1
    <3>3. abhb[i] = abh[i]
      BY <1>9, <3>1
    <3>4. abh[i] = ab[i]
      BY <1>8, <3>1
    <3>5. ab[i] = a[i]
      BY <1>7, <2>1, <3>1
    <3> QED
      BY <2>1, <3>2, <3>3, <3>4, <3>5
  <2>2. CASE i = 4 /\ l = 1
    <3>1. /\ i \in 1 .. 3 + l /\ i \in 1 .. 3 + l + n /\ i \in 1 .. 4 + l + n
          /\ i <= 3 + l /\ i <= 3 + l + n /\ i <= 4 + l + n /\ ~(i <= 3) /\ i - 3 = 1
      BY <1>1, <2>2
    <3>2. all[i] = abhb[i]
      BY <1>10, <3>1
    <3>3. abhb[i] = abh[i]
      BY <1>9, <3>1
    <3>4. abh[i] = ab[i]
      BY <1>8, <3>1
    <3>5. ab[i] = b[1]
      BY <1>7, <3>1
    <3> QED
      BY <1>4, <2>2, <3>2, <3>3, <3>4, <3>5
  <2>3. CASE i > 3 + l /\ i <= 3 + l + n
    <3>1. all[i] = abhb[i] /\ abhb[i] = abh[i] /\ abh[i] = h[i - (3 + l)]
      <4>1. /\ i \in 1 .. 3 + l + n /\ i \in 1 .. 4 + l + n
            /\ ~(i <= 3 + l) /\ i <= 3 + l + n /\ i <= 4 + l + n
        BY <1>1, <2>3
      <4>2. all[i] = abhb[i]
        BY <1>10, <4>1
      <4>3. abhb[i] = abh[i]
        BY <1>9, <4>1
      <4>4. abh[i] = h[i - (3 + l)]
        BY <1>8, <4>1
      <4> QED
        BY <4>2, <4>3, <4>4
    <3>2. i - (3 + l) \in 1 .. n
      BY <1>1, <2>3
    <3> QED
      BY <1>1, <1>5, <2>3, <3>1, <3>2
  <2>4. CASE i = 4 + l + n
    <3>1. all[i] = abhb[i] /\ abhb[i] = "blank"
      BY <1>1, <1>9, <1>10, <2>4
    <3> QED
      BY <1>1, <2>4, <3>1
  <2>5. CASE i > 4 + l + n
    <3>1. all[i] = d[i - (4 + l + n)] /\ i - (4 + l + n) \in 1 .. r.body
      BY <1>1, <1>10, <2>5
    <3> QED
      BY <1>1, <1>6, <2>5, <3>1
  <2> QED
    BY <1>1, <2>1, <2>2, <2>3, <2>4, <2>5
<1>12. Cells(k) = [i \in 1 .. Len(all) |-> [request |-> k, part |-> all[i]]] /\ Len(all) \in Nat
  BY <1>1, <1>2, <1>10 DEF Cells
<1>13. Cells(k) \in [1 .. Len(all) -> Cell]
  <2>1. \A i \in 1 .. Len(all) : [request |-> k, part |-> all[i]] \in Cell
    BY <1>10 DEF Cell
  <2> QED
    BY <1>12, <2>1
<1>14. Cells(k) \in Seq(Cell) /\ Len(Cells(k)) = Len(all)
  BY <1>12, <1>13
<1>15. \A i \in 1 .. Len(all) : Cells(k)[i].request = k /\ Cells(k)[i].part = all[i]
  BY <1>12
<1>16. HeadOf(k) = 4 + l + n
  BY DEF HeadOf, l, n
<1> HIDE DEF r
<1>17. Cells(k)[1].part = "method" /\ Cells(k)[2].part = "path" /\ Cells(k)[3].part = "version"
  <2>1. {1, 2, 3} \subseteq 1 .. 4 + l + n + r.body /\ {1, 2, 3} \subseteq 1 .. Len(all)
    BY <1>1, <1>10
  <2>2. all[1] = a[1] /\ all[2] = a[2] /\ all[3] = a[3]
    BY <1>11, <2>1
  <2> QED
    BY <1>3, <1>15, <2>1, <2>2
<1>18. ASSUME NEW i \in 1 .. Len(all)
       PROVE  /\ all[i] = "blank" <=> i = 4 + l + n
              /\ all[i] = "length" <=> i = 4 /\ l = 1
  <2>1. i \in 1 .. 4 + l + n + r.body /\ (i <= 3 => i = 1 \/ i = 2 \/ i = 3)
    BY <1>10
  <2> QED
    BY <1>1, <1>3, <1>11, <2>1
<1> QED
  BY <1>1, <1>10, <1>14, <1>15, <1>16, <1>17, <1>18 DEF Shape, r

(* What was sent with the first k requests, and that it is the start of    *)
(* all that is sent.                                                       *)
Count == Len(Requests)

LEMMA OpeningIs ==
    /\ Count \in Nat
    /\ \A k \in 0 .. Count : Opening[k] \in Seq(Cell)
    /\ Opening[0] = <<>>
    /\ \A k \in 1 .. Count : Opening[k] = Opening[k - 1] \o Cells(k)
<1> DEFINE D == 0 .. Count
           step == [k \in D |-> [v \in Seq(Cell) |-> IF k = 0 THEN <<>> ELSE v \o Cells(k)]]
<1>1. Count \in Nat /\ DOMAIN Requests = 1 .. Count
  BY ParserAssumption, LenProperties DEF Count
<1>2. ASSUME NEW k \in 1 .. Count, NEW v \in Seq(Cell) PROVE v \o Cells(k) \in Seq(Cell)
  BY <1>1, CellsShape, ConcatProperties DEF Shape
<1>3. <<>> \in Seq(Cell)
  OBVIOUS
<1>4. step \in [D -> [Seq(Cell) -> Seq(Cell)]]
  <2>1. ASSUME NEW k \in D, NEW v \in Seq(Cell)
        PROVE  (IF k = 0 THEN <<>> ELSE v \o Cells(k)) \in Seq(Cell)
    <3>1. CASE k = 0
      BY <1>3, <3>1
    <3>2. CASE k # 0
      BY <1>1, <1>2, <3>2
    <3> QED
      BY <3>1, <3>2
  <2> QED
    BY <2>1
<1>5. \A k \in 1 .. Count, v \in Seq(Cell) : step[k][v] = v \o Cells(k)
  BY <1>1
<1> HIDE DEF step
<1>6. IsStart(D)
  BY <1>1 DEF IsStart
<1>7. PICK f \in [D -> Seq(Cell)] : Follows(f, D, <<>>, step)
  BY <1>3, <1>4, <1>6, Recursion
<1>8. ASSUME NEW k \in D PROVE f[k] = IF k = 0 THEN <<>> ELSE f[k - 1] \o Cells(k)
  <2>1. CASE k = 0
    BY <1>7, <2>1 DEF Follows
  <2>2. CASE k # 0
    <3>1. k \in 1 .. Count /\ k - 1 \in D
      BY <1>1, <2>2
    <3>2. f[k - 1] \in Seq(Cell)
      BY <1>7, <3>1
    <3>3. f[k] = step[k][f[k - 1]]
      BY <1>7, <2>2 DEF Follows
    <3> QED
      BY <1>5, <2>2, <3>1, <3>2, <3>3
  <2> QED
    BY <2>1, <2>2
<1>9. f = [k \in 0 .. Count |-> IF k = 0 THEN <<>> ELSE f[k - 1] \o Cells(k)]
  BY <1>8, <1>7
<1>10. Opening = [k \in 0 .. Count |-> IF k = 0 THEN <<>> ELSE Opening[k - 1] \o Cells(k)]
  BY <1>9 DEF Opening, Count
<1>11. Opening[0] = <<>> /\ \A k \in 1 .. Count : Opening[k] = Opening[k - 1] \o Cells(k)
  <2>1. ASSUME NEW k \in 0 .. Count PROVE Opening[k] = IF k = 0 THEN <<>> ELSE Opening[k - 1] \o Cells(k)
    BY <1>10, Zenon
  <2>2. 0 \in 0 .. Count /\ \A k \in 1 .. Count : k \in 0 .. Count /\ k # 0
    BY <1>1
  <2> QED
    BY <2>1, <2>2, Zenon
<1> DEFINE T == {k \in Nat : k \in D => Opening[k] \in Seq(Cell)}
<1>12. 0 \in T
  BY <1>3, <1>11
<1>13. ASSUME NEW k \in Nat, k \in T PROVE k + 1 \in T
  <2> SUFFICES ASSUME k + 1 \in D PROVE Opening[k + 1] \in Seq(Cell)
    OBVIOUS
  <2>1. k \in D /\ k + 1 \in 1 .. Count /\ (k + 1) - 1 = k
    BY <1>1
  <2> QED
    BY <1>2, <1>11, <1>13, <2>1
<1>14. Nat \subseteq T
  <2> HIDE DEF T
  <2> QED
    BY <1>12, <1>13, Induction
<1>15. \A k \in 0 .. Count : Opening[k] \in Seq(Cell)
  <2>1. ASSUME NEW k \in 0 .. Count PROVE Opening[k] \in Seq(Cell)
    <3>1. k \in Nat /\ k \in D
      BY <1>1
    <3> QED
      BY <1>14, <3>1, Zenon
  <2> QED
    BY <2>1
<1> HIDE DEF T, D
<1> QED
  BY <1>1, <1>11, <1>15

IsPrefixOf(s, t) == Len(s) <= Len(t) /\ \A i \in 1 .. Len(s) : t[i] = s[i]

LEMMA PrefixOfPrefix ==
    ASSUME NEW s, NEW t, NEW u, Len(s) \in Nat, Len(t) \in Nat, Len(u) \in Nat,
           IsPrefixOf(s, t), IsPrefixOf(t, u)
    PROVE  IsPrefixOf(s, u)
  BY DEF IsPrefixOf

LEMMA OpeningsAreStarts ==
    \A m \in 0 .. Count : \A k \in 0 .. m : IsPrefixOf(Opening[k], Opening[m])
<1> DEFINE T == {m \in Nat : m <= Count => \A k \in 0 .. m : IsPrefixOf(Opening[k], Opening[m])}
<1>1. 0 \in T
  <2>1. \A k \in 0 .. 0 : Opening[k] = Opening[0] /\ Len(Opening[0]) \in Nat
    BY OpeningIs, LenProperties
  <2> QED
    BY <2>1 DEF IsPrefixOf
<1>2. ASSUME NEW m \in Nat, m \in T PROVE m + 1 \in T
  <2> SUFFICES ASSUME m + 1 <= Count, NEW k \in 0 .. m + 1 PROVE IsPrefixOf(Opening[k], Opening[m + 1])
    OBVIOUS
  <2> DEFINE a == Opening[m]
             b == Cells(m + 1)
             c == Opening[m + 1]
  <2>1. c = a \o b /\ a \in Seq(Cell) /\ b \in Seq(Cell) /\ Opening[k] \in Seq(Cell)
    <3>1. m + 1 \in 1 .. Count /\ m \in 0 .. Count /\ (m + 1) - 1 = m /\ k \in 0 .. Count
      BY OpeningIs
    <3>2. m + 1 \in DOMAIN Requests
      BY <3>1, ParserAssumption, LenProperties DEF Count
    <3> QED
      BY <3>1, <3>2, OpeningIs, CellsShape DEF Shape
  <2>2. IsPrefixOf(a, c)
    <3> HIDE DEF a, b, c
    <3>1. /\ Len(a) \in Nat /\ Len(b) \in Nat /\ Len(c) = Len(a) + Len(b)
          /\ \A i \in 1 .. Len(a) + Len(b) : c[i] = IF i <= Len(a) THEN a[i] ELSE b[i - Len(a)]
      BY <2>1, ConcatProperties, LenProperties
    <3> QED
      BY <3>1 DEF IsPrefixOf
  <2>3. CASE k \in 0 .. m
    <3>1. IsPrefixOf(Opening[k], a)
      BY <1>2, <2>3, OpeningIs
    <3>2. Len(Opening[k]) \in Nat /\ Len(a) \in Nat /\ Len(c) \in Nat
      <4>1. c \in Seq(Cell)
        BY <2>1, ConcatProperties
      <4> HIDE DEF a, b, c
      <4> QED
        BY <2>1, <4>1, LenProperties
    <3>3. IsPrefixOf(Opening[k], c)
      <4> HIDE DEF a, b, c
      <4> QED
        BY <2>2, <3>1, <3>2, PrefixOfPrefix
    <3> QED
      BY <3>3
  <2>4. CASE k = m + 1
    <3>1. Len(c) \in Nat
      BY <2>1, ConcatProperties, LenProperties
    <3> QED
      BY <2>4, <3>1 DEF IsPrefixOf
  <2> QED
    BY <2>3, <2>4
<1>3. Nat \subseteq T
  <2> HIDE DEF T
  <2> QED
    BY <1>1, <1>2, Induction
<1> QED
  BY <1>3, OpeningIs

Comes(k) ==
    /\ SentWith(k) = SentWith(k - 1) + Len(Cells(k))
    /\ SentWith(k) <= Len(Stream)
    /\ \A i \in 1 .. Len(Cells(k)) : Stream[SentWith(k - 1) + i] = Cells(k)[i]

LEMMA StreamShape ==
    /\ Count \in Nat /\ Stream \in Seq(Cell) /\ Len(Stream) \in Nat
    /\ SentWith(0) = 0 /\ SentWith(Count) = Len(Stream)
    /\ \A k \in 0 .. Count : SentWith(k) \in Nat
    /\ \A k \in 1 .. Count : Comes(k)
<1>1. Count \in Nat /\ Stream \in Seq(Cell) /\ SentWith(0) = 0 /\ SentWith(Count) = Len(Stream)
  BY OpeningIs DEF Stream, SentWith, Count
<1>2. Len(Stream) \in Nat /\ \A k \in 0 .. Count : SentWith(k) \in Nat
  BY <1>1, OpeningIs, LenProperties DEF SentWith
<1>3. ASSUME NEW k \in 1 .. Count PROVE Comes(k)
  <2> DEFINE a == Opening[k - 1]
             b == Cells(k)
             c == Opening[k]
             d == Stream
  <2>1. c = a \o b /\ a \in Seq(Cell) /\ b \in Seq(Cell)
    <3>1. k \in DOMAIN Requests /\ k - 1 \in 0 .. Count
      BY <1>1, ParserAssumption, LenProperties DEF Count
    <3> QED
      BY <3>1, OpeningIs, CellsShape DEF Shape
  <2>2. IsPrefixOf(c, d)
    BY <1>1, OpeningsAreStarts DEF Stream, Count
  <2>3. SentWith(k - 1) = Len(a) /\ SentWith(k) = Len(c)
    BY DEF SentWith
  <2> HIDE DEF a, b, c, d
  <2>4. /\ Len(a) \in Nat /\ Len(b) \in Nat /\ Len(c) = Len(a) + Len(b)
        /\ \A i \in 1 .. Len(a) + Len(b) : c[i] = IF i <= Len(a) THEN a[i] ELSE b[i - Len(a)]
    BY <2>1, ConcatProperties, LenProperties
  <2>5. ASSUME NEW i \in 1 .. Len(b) PROVE d[Len(a) + i] = b[i]
    <3>1. Len(a) + i \in 1 .. Len(c) /\ ~(Len(a) + i <= Len(a)) /\ (Len(a) + i) - Len(a) = i
      BY <2>4
    <3>2. d[Len(a) + i] = c[Len(a) + i]
      BY <2>2, <3>1 DEF IsPrefixOf
    <3> QED
      BY <2>4, <3>1, <3>2
  <2> QED
    BY <2>2, <2>3, <2>4, <2>5 DEF Comes, IsPrefixOf, b, d
<1> QED
  BY <1>1, <1>2, <1>3

-----------------------------------------------------------------------------
(* What the parser finds in the buffer.                                    *)
Types ==
    /\ DOMAIN mem = 0 .. MaxSize + Block + 3
    /\ \A i \in 0 .. MaxSize + Block + 3 : mem[i] \in Cell \cup {Junk}
    /\ size \in Nat \ {0} /\ start \in Nat /\ end \in 0 .. MaxSize
    /\ body_length \in Nat
    /\ busy \in BOOLEAN
    /\ sent \in 0 .. Len(Stream)

LEMMA MinIs ==
    ASSUME NEW T \in SUBSET Nat, T # {}
    PROVE  Min(T) \in T /\ \A i \in T : Min(T) <= i
  BY LeastNat DEF Min

LEMMA MaxIs ==
    ASSUME NEW b \in Nat, NEW T \in SUBSET (0 .. b), T # {}
    PROVE  Max(T) \in T /\ \A i \in T : i <= Max(T)
<1> DEFINE U == {b - i : i \in T}
<1>1. U \in SUBSET Nat /\ U # {}
  <2>1. ASSUME NEW i \in T PROVE b - i \in Nat
    OBVIOUS
  <2> QED
    BY <2>1
<1>2. PICK k \in U : \A j \in U : k <= j
  BY <1>1, LeastNat
<1>3. PICK i \in T : k = b - i
  BY <1>2
<1>4. ASSUME NEW j \in T PROVE j <= i
  <2>1. k <= b - j /\ i \in Int /\ j \in Int
    BY <1>2
  <2> QED
    BY <1>3, <2>1
<1>5. \E x \in T : \A y \in T : x >= y
  BY <1>3, <1>4
<1> QED
  BY <1>5 DEF Max

LEMMA WholeBlocks ==
    ASSUME NEW n \in Nat \ {0}
    PROVE  /\ Block * ((n + Block - 1) \div Block) \in Nat
           /\ n <= Block * ((n + Block - 1) \div Block)
           /\ Block * ((n + Block - 1) \div Block) <= n + Block - 1
<1>1. Block \in Nat \ {0}
  BY ParserAssumption
<1> QED
  BY <1>1

(* The scanner stops behind the first blank line from h on, or behind a    *)
(* block that reaches the end of the data, with no blank line before.      *)
Blank(i) == Part(i) = "blank"

Scanned(e) ==
    /\ e \in Nat /\ start + 4 <= e /\ e <= end + Block
    /\ \/ Blank(e - 1) /\ \A i \in start + 3 .. e - 2 : ~Blank(i)
       \/ e >= end /\ \A i \in start + 3 .. e - 1 : ~Blank(i)

LEMMA Scanning ==
    ASSUME Types, start + 3 <= end
    PROVE  Scanned(HeadersEnd(start + 3))
<1> DEFINE h == start + 3
           blocks == IF end <= h THEN 1 ELSE (end - h + Block - 1) \div Block
           limit == h + Block * blocks
           blanks == {i \in h .. limit - 1 : Part(i) = "blank"}
<1>1. Block \in Nat \ {0} /\ start \in Nat /\ end \in Nat /\ h \in Nat
  BY ParserAssumption DEF Types
<1>2. limit \in Nat /\ h + 1 <= limit /\ limit <= end + Block /\ end <= limit
  <2>1. CASE end <= h
    BY <1>1, <2>1
  <2>2. CASE ~(end <= h)
    <3>1. end - h \in Nat \ {0}
      BY <1>1, <2>2
    <3>2. limit = h + Block * (((end - h) + Block - 1) \div Block)
      BY <2>2
    <3> HIDE DEF limit, h
    <3> DEFINE all == Block * (((end - h) + Block - 1) \div Block)
    <3>3. all \in Nat /\ end - h <= all /\ all <= (end - h) + Block - 1
      BY <3>1, WholeBlocks
    <3> HIDE DEF all
    <3>4. limit = h + all
      BY <3>2 DEF all
    <3> QED
      BY <1>1, <3>1, <3>3, <3>4
  <2> QED
    BY <2>1, <2>2
<1>3. HeadersEnd(h) = IF blanks = {} THEN limit ELSE Min(blanks) + 1
  BY DEF HeadersEnd
<1> HIDE DEF limit
<1>4. CASE blanks = {}
  <2>1. \A i \in h .. limit - 1 : ~Blank(i)
    BY <1>4 DEF Blank
  <2> QED
    BY <1>1, <1>2, <1>3, <1>4, <2>1 DEF Scanned
<1>5. CASE blanks # {}
  <2>1. blanks \in SUBSET Nat
    BY <1>1, <1>2
  <2> DEFINE m == Min(blanks)
  <2>2. m \in blanks /\ \A i \in blanks : m <= i
    BY <1>5, <2>1, MinIs
  <2>3. m \in h .. limit - 1 /\ Blank(m) /\ \A i \in h .. m - 1 : ~Blank(i)
    BY <1>1, <1>2, <2>2 DEF Blank
  <2>4. HeadersEnd(h) = m + 1
    BY <1>3, <1>5
  <2> HIDE DEF m, blanks
  <2>5. (m + 1) - 1 = m /\ (m + 1) - 2 = m - 1 /\ m \in Nat
    BY <1>1, <1>2, <2>3
  <2> QED
    BY <1>1, <1>2, <2>3, <2>4, <2>5 DEF Scanned
<1> QED
  BY <1>4, <1>5

(* A Content-Length found is one that was sent, perhaps earlier.           *)
LEMMA LengthIsNumber ==
    ASSUME Types, NEW e \in Nat, e <= end + Block
    PROVE  /\ BodyLength(e) \in Nat
           /\ Lengths(e) # {} => Max(Lengths(e)) \in Lengths(e)
<1>1. Block \in Nat \ {0} /\ MaxSize \in Nat /\ start \in Nat /\ end \in 0 .. MaxSize
  BY ParserAssumption DEF Types
<1>2. Lengths(e) \in SUBSET (0 .. e)
  BY <1>1 DEF Lengths
<1>3. CASE Lengths(e) = {}
  BY <1>3 DEF BodyLength, Types
<1>4. CASE Lengths(e) # {}
  <2> DEFINE m == Max(Lengths(e))
  <2>1. m \in Lengths(e)
    BY <1>2, <1>4, MaxIs
  <2>2. m \in start .. e - 1 /\ mem[m].part = "length"
    BY <2>1 DEF Lengths, Part
  <2>3. mem[m] \in Cell
    <3>1. m \in 0 .. MaxSize + Block + 3
      BY <1>1, <2>2
    <3>2. mem[m] # Junk
      BY <2>2 DEF Junk
    <3> QED
      BY <3>1, <3>2 DEF Types
  <2>4. Requests[mem[m].request].body \in Nat
    BY <2>3, CellsShape DEF Cell, Shape
  <2> QED
    BY <1>4, <2>1, <2>4 DEF BodyLength
<1> QED
  BY <1>3, <1>4

(* One round of the loop: what it does and what it found.                  *)
Waits == ParserIncomplete /\ (start = end \/ PathMissing \/ Part(start + 2) # "version")
GivesUp == ParserError /\ (Part(start) # "method" \/ PathMissing \/ start + 3 > end)

Reads(e) ==
    \/ BadLength(e) /\ ParserBadLength(e)
    \/ ~BadLength(e) /\ BodyLength(e) > end - e /\ ParserNeedsBody(e, BodyLength(e))
    \/ ~BadLength(e) /\ BodyLength(e) <= end - e /\ ParserUnpackFails(e, BodyLength(e))
    \/ ~BadLength(e) /\ BodyLength(e) <= end - e /\ ParserHandles(e, BodyLength(e))
    \/ ~BadLength(e) /\ BodyLength(e) <= end - e /\ ParserHandlerFails(e, BodyLength(e))

LEMMA Rounds ==
    ASSUME Types, ParseOne
    PROVE  busy /\ (Waits \/ GivesUp \/ (start + 3 <= end /\ \E e : Scanned(e) /\ Reads(e)))
<1>1. start \in Nat /\ end \in Nat
  BY DEF Types
<1>2. PICK rc \in ParseRequest :
          \/ rc = -2 /\ ParserIncomplete
          \/ rc = -1 /\ ParserError
          \/ rc > 0 /\ Reads(rc)
  BY DEF ParseOne, Reads
<1> busy
  BY DEF ParseOne
<1>3. CASE start = end \/ Part(start) # "method" \/ PathMissing \/ Part(start + 2) # "version" \/ start + 3 > end
  <2>1. \/ rc = -2 /\ (start = end \/ PathMissing \/ Part(start + 2) # "version")
        \/ rc = -1 /\ (Part(start) # "method" \/ PathMissing \/ start + 3 > end)
    BY <1>2, <1>3 DEF ParseRequest
  <2> QED
    <3>1. CASE rc = -2
      <4>1. ParserIncomplete
        BY <1>2, <3>1
      <4>2. start = end \/ PathMissing \/ Part(start + 2) # "version"
        BY <2>1, <3>1
      <4> QED
        BY <4>1, <4>2, Zenon DEF Waits
    <3>2. CASE rc = -1
      <4>1. ParserError
        BY <1>2, <3>2
      <4>2. Part(start) # "method" \/ PathMissing \/ start + 3 > end
        BY <2>1, <3>2
      <4> QED
        BY <4>1, <4>2, Zenon DEF GivesUp
    <3> QED
      BY <2>1, <3>1, <3>2
<1>4. CASE ~(start = end \/ Part(start) # "method" \/ PathMissing \/ Part(start + 2) # "version" \/ start + 3 > end)
  <2>1. rc = HeadersEnd(start + 3) /\ start + 3 <= end
    BY <1>1, <1>2, <1>4 DEF ParseRequest
  <2>2. Scanned(rc)
    BY <2>1, Scanning
  <2>3. Reads(rc)
    BY <1>2, <2>2 DEF Scanned
  <2> QED
    BY <2>1, <2>2, <2>3
<1> QED
  BY <1>3, <1>4

-----------------------------------------------------------------------------
(* The buffer is never smaller than its data, as long as none came while   *)
(* start was behind its beginning: the test counts from start.             *)
FitsInv == Types /\ ("offset" \notin causes => end <= size)

LEMMA InitFits == Init => FitsInv
<1> SUFFICES ASSUME Init PROVE FitsInv
  OBVIOUS
<1>1. DOMAIN mem = 0 .. MaxSize + Block + 3 /\ \A i \in 0 .. MaxSize + Block + 3 : mem[i] = Junk
  BY DEF Init
<1>2. /\ size = InitialSize /\ start = 0 /\ end = 0 /\ body_length = 0 /\ busy = FALSE /\ sent = 0
  BY DEF Init
<1>3. MaxSize \in Nat /\ InitialSize \in Nat \ {0}
  BY ParserAssumption
<1>4. 0 \in 0 .. Len(Stream) /\ 0 \in 0 .. MaxSize
  BY <1>3, StreamShape
<1>5. \A i \in 0 .. MaxSize + Block + 3 : mem[i] \in Cell \cup {Junk}
  BY <1>1
<1>6. end <= size
  BY <1>2, <1>3
<1> QED
  BY <1>1, <1>2, <1>3, <1>4, <1>5, <1>6 DEF FitsInv, Types

Numbers ==
    /\ size \in Nat \ {0} /\ start \in Nat /\ end \in Nat /\ end <= MaxSize
    /\ body_length \in Nat /\ busy \in BOOLEAN
    /\ sent \in Nat /\ sent <= Len(Stream)
    /\ ("offset" \notin causes => end <= size)
    /\ Len(Stream) \in Nat /\ Block \in Nat /\ MaxSize \in Nat

LEMMA FitsNumbers == FitsInv => Numbers
  BY StreamShape, ParserAssumption DEF FitsInv, Types, Numbers

LEMMA ReceiveFits ==
    ASSUME FitsInv, NEW n \in 1 .. Len(Stream), Receive(n)
    PROVE  FitsInv'
<1>1. Numbers /\ n \in Nat /\ end + n <= MaxSize /\ n <= Len(Stream) - sent
  <2>1. Numbers /\ n \in 1 .. Len(Stream) - sent /\ end + n <= MaxSize
    BY FitsNumbers DEF Receive
  <2> QED
    BY <2>1 DEF Numbers
<1>2. /\ DOMAIN mem' = 0 .. MaxSize + Block + 3
      /\ \A i \in 0 .. MaxSize + Block + 3 :
             mem'[i] = IF i \in end .. end + n - 1 THEN Stream[sent + i - end + 1] ELSE mem[i]
  BY DEF FitsInv, Types, Receive
<1>3. ASSUME NEW i \in 0 .. MaxSize + Block + 3 PROVE mem'[i] \in Cell \cup {Junk}
  <2>1. CASE i \in end .. end + n - 1
    <3>1. sent + i - end + 1 \in 1 .. Len(Stream)
      BY <1>1, <2>1 DEF Numbers
    <3> QED
      BY <1>2, <2>1, <3>1, StreamShape, ElementOfSeq
  <2> QED
    BY <1>2, <2>1 DEF FitsInv, Types
<1>4. end' = end + n /\ sent' = sent + n /\ busy' = TRUE /\ body_length' = body_length
  BY DEF Receive
<1>5. "offset" \notin causes' => start = 0
  <2> SUFFICES ASSUME start # 0 PROVE "offset" \in causes'
    OBVIOUS
  <2>1. start > 0
    BY <1>1 DEF Numbers
  <2> QED
    BY <2>1 DEF Receive
<1>6. /\ start' \in Nat /\ size' \in Nat \ {0}
      /\ start = 0 => end + n <= size'
  <2>1. CASE NeedsRoom(n)
    <3>1. n + end - start > size /\ size' = Doubled(size, n + end - start) /\ start' = 0
      BY <2>1 DEF NeedsRoom, Receive, ReceiveStart
    <3>2. n + end - start \in Nat /\ size \in Nat \ {0}
      BY <1>1, <3>1 DEF Numbers
    <3>3. size' \in Nat /\ size' >= n + end - start /\ size' >= size
      BY <3>1, <3>2, DoubledFits
    <3> QED
      BY <1>1, <3>1, <3>3 DEF Numbers
  <2>2. CASE ~NeedsRoom(n)
    <3>1. ~(n + end - start > size) /\ size' = size /\ start' = start
      BY <2>2 DEF NeedsRoom, Receive, ReceiveStart
    <3> QED
      BY <1>1, <3>1 DEF Numbers
  <2> QED
    BY <2>1, <2>2
<1>7. end' \in 0 .. MaxSize /\ sent' \in 0 .. Len(Stream)
  BY <1>1, <1>4 DEF Numbers
<1> QED
  BY <1>1, <1>2, <1>3, <1>4, <1>5, <1>6, <1>7 DEF FitsInv, Types, Numbers

(* A round leaves the memory alone and takes nothing in.                   *)
LEMMA RoundFits ==
    ASSUME FitsInv, mem' = mem, sent' = sent, end' = end \/ end' = 0, size' \in Nat, size' >= size,
           start' \in Nat, body_length' \in Nat, busy' \in BOOLEAN, causes \subseteq causes'
    PROVE  FitsInv'
<1>1. Numbers
  BY FitsNumbers
<1>2. size' \in Nat \ {0} /\ end' \in 0 .. MaxSize /\ (end <= size => end' <= size')
  BY <1>1 DEF Numbers
<1> QED
  BY <1>2 DEF FitsInv, Types

LEMMA ParseFits ==
    ASSUME FitsInv, ParseOne
    PROVE  FitsInv'
<1>1. Numbers /\ Types /\ size \in Nat /\ size >= size
  BY FitsNumbers DEF FitsInv, Numbers
<1>2. CASE Waits \/ GivesUp
  <2>1. /\ mem' = mem /\ sent' = sent /\ end' = end /\ size' = size /\ start' = start
        /\ body_length' = body_length /\ busy' = FALSE /\ causes' = causes
    BY <1>2 DEF Waits, GivesUp, ParserIncomplete, ParserError
  <2> QED
    BY <1>1, <2>1, RoundFits DEF Numbers
<1>3. ASSUME NEW e, Scanned(e), Reads(e) PROVE FitsInv'
  <2> DEFINE b == BodyLength(e)
  <2>1. e \in Nat /\ e <= end + Block
    BY <1>3 DEF Scanned
  <2>2. b \in Nat
    BY <1>1, <2>1, LengthIsNumber
  <2> HIDE DEF b
  <2>3. CASE ParserBadLength(e) \/ ParserUnpackFails(e, b) \/ ParserHandlerFails(e, b)
    <3>1. /\ mem' = mem /\ sent' = sent /\ end' = end /\ size' = size /\ start' = e
          /\ body_length' \in {0, b} /\ busy' = FALSE /\ causes \subseteq causes'
      BY <2>3 DEF ParserBadLength, ParserUnpackFails, ParserHandlerFails
    <3>2. body_length' \in Nat /\ size' \in Nat /\ size' >= size /\ busy' \in BOOLEAN
      <4>1. body_length' \in Nat
        BY <2>2, <3>1
      <4>2. busy' \in BOOLEAN
        BY <3>1
      <4> QED
        BY <1>1, <3>1, <4>1, <4>2
    <3> QED
      BY <2>1, <3>1, <3>2, RoundFits
  <2>4. CASE b > end - e /\ ParserNeedsBody(e, b)
    <3>1. size' = IF b + end - e > size THEN Doubled(size, b + end - e) ELSE size
      BY <2>4 DEF ParserNeedsBody
    <3>2. size' \in Nat /\ size' >= size
      <4>1. CASE b + end - e > size
        <5>1. b + end - e \in Nat /\ size \in Nat \ {0}
          BY <1>1, <2>1, <2>2, <4>1 DEF Numbers
        <5> QED
          BY <3>1, <4>1, <5>1, DoubledFits
      <4>2. CASE ~(b + end - e > size)
        BY <1>1, <3>1, <4>2
      <4> QED
        BY <4>1, <4>2
    <3>3. /\ mem' = mem /\ sent' = sent /\ end' = end /\ start' = 0
          /\ body_length' = b /\ busy' = FALSE /\ causes \subseteq causes'
      BY <2>4 DEF ParserNeedsBody, StartOver
    <3> QED
      BY <2>2, <3>2, <3>3, RoundFits
  <2>5. CASE b <= end - e /\ ParserHandles(e, b)
    <3>1. /\ start' = Reset(e + b).start /\ end' = Reset(e + b).end
          /\ mem' = mem /\ sent' = sent /\ size' = size
          /\ body_length' = 0 /\ busy' \in BOOLEAN /\ causes \subseteq causes'
      <4>1. busy' = (e + b < end)
        BY <2>5 DEF ParserHandles
      <4>2. busy' \in BOOLEAN
        BY <4>1
      <4> QED
        BY <2>5, <4>2 DEF ParserHandles, NextBodyLength
    <3>2. start' \in Nat /\ (end' = end \/ end' = 0)
      BY <2>1, <2>2, <3>1 DEF Reset
    <3> QED
      BY <1>1, <3>1, <3>2, RoundFits
  <2> QED
    BY <1>3, <2>3, <2>4, <2>5 DEF Reads, b
<1> QED
  BY <1>1, <1>2, <1>3, Rounds

LEMMA FitsInvariance == Spec => []FitsInv
<1>1. FitsInv /\ [Next]_vars => FitsInv'
  <2> SUFFICES ASSUME FitsInv, [Next]_vars PROVE FitsInv'
    OBVIOUS
  <2>1. CASE UNCHANGED vars
    BY <2>1 DEF vars, FitsInv, Types
  <2> QED
    BY <2>1, ReceiveFits, ParseFits DEF Next
<1> QED
  BY <1>1, InitFits, PTL DEF Spec

(* "If we need more space increase the size of the buffer": the data is    *)
(* always inside the memory, as long as none came while requests handled   *)
(* before were still in front of start, for every cut of every requests.   *)
THEOREM BufferFitsAlways == Spec => []BufferFits
<1>1. FitsInv => BufferFits
  BY DEF FitsInv, BufferFits
<1> QED
  BY <1>1, FitsInvariance, PTL

-----------------------------------------------------------------------------
(* As long as nothing went wrong, the buffer holds what was sent after the *)
(* requests handled, and a length kept from an earlier call is that of the *)
(* request at start.                                                       *)
Done == Len(handled)

HandledSoFar ==
    /\ handled \in Seq(Seq(Cell)) /\ Done \in 0 .. Count
    /\ \A k \in 1 .. Done : handled[k] = Cells(k)

HoldsTheRest ==
    /\ start <= end
    /\ sent = SentWith(Done) + (end - start)
    /\ \A i \in 1 .. end - start : mem[start + i - 1] = Stream[SentWith(Done) + i]

LengthKept == body_length # 0 => Done < Count /\ Requests[Done + 1].length # "none"

NoneForgotten == ~busy => Done = Count \/ sent < SentWith(Done + 1)

SoundInv == Sound => HandledSoFar /\ HoldsTheRest /\ LengthKept /\ NoneForgotten

(* Every request is at least a method, a path, a version and a blank line. *)
LEMMA EachAddsCells ==
    ASSUME NEW k \in 0 .. Count, k # Count
    PROVE  /\ SentWith(k) \in Nat /\ SentWith(k + 1) \in Nat
           /\ SentWith(k) < SentWith(k + 1)
<1>1. Count \in Nat /\ DOMAIN Requests = 1 .. Count
  BY ParserAssumption, LenProperties DEF Count
<1>2. k + 1 \in 1 .. Count /\ k + 1 \in 0 .. Count /\ k + 1 \in DOMAIN Requests /\ (k + 1) - 1 = k
  BY <1>1
<1>3. Shape(k + 1) /\ Comes(k + 1)
  BY <1>2, CellsShape, StreamShape
<1>4. HeadOf(k + 1) \in Nat /\ HeadOf(k + 1) >= 4 /\ Requests[k + 1].body \in Nat
      /\ Len(Cells(k + 1)) = HeadOf(k + 1) + Requests[k + 1].body
  BY <1>3 DEF Shape
<1>5. SentWith(k + 1) = SentWith(k) + Len(Cells(k + 1))
  BY <1>2, <1>3 DEF Comes
<1>6. SentWith(k) \in Nat /\ SentWith(k + 1) \in Nat
  BY <1>2, StreamShape
<1> QED
  BY <1>4, <1>5, <1>6

LEMMA NextComes ==
    ASSUME HandledSoFar, Done # Count
    PROVE  /\ Done + 1 \in 1 .. Count /\ Done + 1 \in DOMAIN Requests
           /\ Shape(Done + 1) /\ Comes(Done + 1)
           /\ SentWith(Done) \in Nat /\ SentWith(Done + 1) \in Nat
           /\ SentWith(Done + 1) = SentWith(Done) + Len(Cells(Done + 1))
           /\ Len(Cells(Done + 1)) \in Nat /\ Len(Cells(Done + 1)) >= 4
<1>1. Count \in Nat /\ DOMAIN Requests = 1 .. Count /\ Done \in 0 .. Count
  BY ParserAssumption, LenProperties DEF Count, HandledSoFar
<1>2. Done + 1 \in 1 .. Count /\ Done + 1 \in 0 .. Count /\ Done + 1 \in DOMAIN Requests
      /\ (Done + 1) - 1 = Done
  BY <1>1
<1>3. Shape(Done + 1) /\ Comes(Done + 1)
  BY <1>2, CellsShape, StreamShape
<1>4. HeadOf(Done + 1) \in Nat /\ HeadOf(Done + 1) >= 4 /\ Requests[Done + 1].body \in Nat
      /\ Len(Cells(Done + 1)) = HeadOf(Done + 1) + Requests[Done + 1].body
  BY <1>3 DEF Shape
<1>5. SentWith(Done + 1) = SentWith(Done) + Len(Cells(Done + 1))
  BY <1>2, <1>3 DEF Comes
<1>6. SentWith(Done) \in Nat /\ SentWith(Done + 1) \in Nat
  BY <1>1, <1>2, StreamShape
<1> QED
  BY <1>2, <1>3, <1>4, <1>5, <1>6

AtFront(k) ==
    /\ k = Done + 1 /\ k \in 1 .. Count /\ k \in DOMAIN Requests
    /\ Shape(k) /\ Comes(k)
    /\ \A i \in 1 .. Len(Cells(k)) : i <= end - start => mem[start + i - 1] = Cells(k)[i]

LEMMA FrontIs ==
    ASSUME Types, HandledSoFar, HoldsTheRest, start # end
    PROVE  AtFront(Done + 1)
<1> DEFINE k == Done + 1
<1>1. /\ Count \in Nat /\ Done \in 0 .. Count /\ SentWith(Done) \in Nat
      /\ SentWith(Count) = Len(Stream) /\ Len(Stream) \in Nat /\ sent \in 0 .. Len(Stream)
      /\ start \in Nat /\ end \in Nat /\ end - start \in Nat /\ end - start # 0
  BY StreamShape DEF HandledSoFar, HoldsTheRest, Types
<1>2. Done # Count
  BY <1>1 DEF HoldsTheRest
<1>3. k - 1 = Done
  BY <1>1
<1>4. k \in 1 .. Count /\ k \in DOMAIN Requests /\ Shape(k) /\ Comes(k) /\ Len(Cells(k)) \in Nat
  BY <1>2, NextComes
<1>5. ASSUME NEW i \in 1 .. Len(Cells(k)), i <= end - start PROVE mem[start + i - 1] = Cells(k)[i]
  <2>1. Stream[SentWith(Done) + i] = Cells(k)[i]
    BY <1>3, <1>4 DEF Comes
  <2>2. i \in 1 .. end - start
    BY <1>1, <1>4, <1>5
  <2> QED
    BY <2>1, <2>2 DEF HoldsTheRest
<1> QED
  BY <1>4, <1>5 DEF AtFront

Places(k, e) ==
    /\ start \in Nat /\ end \in Nat /\ e \in Nat /\ start + 4 <= e
    /\ HeadOf(k) \in Nat /\ HeadOf(k) >= 4
    /\ Len(Cells(k)) \in Nat /\ HeadOf(k) <= Len(Cells(k))

LEMMA PlacesAre ==
    ASSUME Types, NEW k, AtFront(k), NEW e, Scanned(e)
    PROVE  Places(k, e)
<1>1. start \in Nat /\ end \in Nat /\ e \in Nat /\ start + 4 <= e
  BY DEF Types, Scanned
<1>2. Shape(k)
  BY DEF AtFront
<1>3. HeadOf(k) \in Nat /\ HeadOf(k) >= 4 /\ Len(Cells(k)) = HeadOf(k) + Requests[k].body /\ Requests[k].body \in Nat
  BY <1>2 DEF Shape
<1> QED
  BY <1>1, <1>3 DEF Places

(* The end of its headers is found if it has come, otherwise nothing that  *)
(* looks like one before the end of the data.                              *)
LEMMA HeadFound ==
    ASSUME Types, NEW k, AtFront(k), start + 3 <= end, NEW e, Scanned(e)
    PROVE  /\ HeadOf(k) <= end - start => e = start + HeadOf(k)
           /\ HeadOf(k) > end - start => e >= end /\ (e <= end => ~Blank(e - 1))
<1> DEFINE p == start + HeadOf(k) - 1
<1>1. /\ start \in Nat /\ end \in Nat /\ e \in Nat /\ start + 4 <= e
      /\ HeadOf(k) \in Nat /\ HeadOf(k) >= 4 /\ p \in Nat
      /\ Len(Cells(k)) \in Nat /\ HeadOf(k) <= Len(Cells(k))
  BY PlacesAre DEF Places
<1>2. ASSUME NEW j \in Nat, start <= j, j <= p, j < end PROVE Blank(j) <=> j = p
  <2> DEFINE i == j - start + 1
  <2>1. i \in 1 .. Len(Cells(k)) /\ i <= end - start /\ start + i - 1 = j
    BY <1>1, <1>2
  <2>2. mem[j] = Cells(k)[i]
    BY <2>1 DEF AtFront
  <2>3. Cells(k)[i].part = "blank" <=> i = HeadOf(k)
    BY <2>1 DEF AtFront, Shape
  <2>4. i = HeadOf(k) <=> j = p
    BY <1>1, <1>2
  <2>5. Blank(j) <=> Cells(k)[i].part = "blank"
    BY <2>2 DEF Blank, Part
  <2> QED
    BY ONLY <2>3, <2>4, <2>5, Zenon
<1>3. CASE HeadOf(k) <= end - start
  <2>1. p < end /\ start + 3 <= p
    BY <1>1, <1>3
  <2>2. Blank(p)
    BY <1>1, <1>2, <2>1
  <2>3. CASE Blank(e - 1) /\ \A i \in start + 3 .. e - 2 : ~Blank(i)
    <3>1. ~(p <= e - 2)
      BY <1>1, <2>1, <2>2, <2>3
    <3>2. ~(e - 1 < p)
      BY <1>1, <1>2, <2>1, <2>3
    <3> QED
      BY <1>1, <1>3, <3>1, <3>2
  <2>4. CASE e >= end /\ \A i \in start + 3 .. e - 1 : ~Blank(i)
    BY <1>1, <2>1, <2>2, <2>4
  <2> QED
    BY <1>1, <1>3, <2>3, <2>4 DEF Scanned
<1>4. CASE HeadOf(k) > end - start
  <2>1. end <= p
    BY <1>1, <1>4
  <2>2. e <= end => ~Blank(e - 1)
    BY <1>1, <1>2, <2>1
  <2>3. e >= end
    BY <1>1, <2>2 DEF Scanned
  <2> QED
    BY <1>1, <1>4, <2>2, <2>3
<1> QED
  BY <1>1, <1>3, <1>4

(* A Content-Length before the end of the data is that of the request.     *)
LEMMA LengthFound ==
    ASSUME Types, NEW k, AtFront(k), start + 3 <= end, NEW e, Scanned(e),
           NEW j \in Lengths(e), j < end
    PROVE  j = start + 3 /\ Requests[k].length # "none" /\ mem[j].request = k
<1> DEFINE i == j - start + 1
<1>1. /\ start \in Nat /\ end \in Nat /\ e \in Nat /\ start + 4 <= e
      /\ HeadOf(k) \in Nat /\ HeadOf(k) >= 4
      /\ Len(Cells(k)) \in Nat /\ HeadOf(k) <= Len(Cells(k))
  BY PlacesAre DEF Places
<1>2. j \in start .. e - 1 /\ mem[j].part = "length"
  BY DEF Lengths, Part
<1>3. i <= HeadOf(k)
  BY <1>1, <1>2, HeadFound
<1>4. i \in 1 .. Len(Cells(k)) /\ i <= end - start /\ start + i - 1 = j
  BY <1>1, <1>2, <1>3
<1>5. mem[j] = Cells(k)[i]
  BY <1>4 DEF AtFront
<1> HIDE DEF i
<1>6. i = 4 /\ Requests[k].length # "none" /\ mem[j].request = k
  BY <1>2, <1>4, <1>5 DEF AtFront, Shape
<1> QED
  BY <1>1, <1>2, <1>6 DEF i

(* When the headers have come, so has the length.                          *)
LEMMA BodyFound ==
    ASSUME Types, NEW k, AtFront(k), start + 3 <= end, NEW e, Scanned(e), e = start + HeadOf(k), e <= end,
           LengthKept, ~BadLength(e)
    PROVE  BodyLength(e) = Requests[k].body
<1>1. /\ start \in Nat /\ end \in Nat /\ e \in Nat /\ start + 4 <= e
      /\ HeadOf(k) \in Nat /\ HeadOf(k) >= 4 /\ k \in DOMAIN Requests
      /\ Len(Cells(k)) \in Nat /\ HeadOf(k) <= Len(Cells(k))
  BY PlacesAre DEF Places, AtFront
<1>2. ASSUME NEW j \in Lengths(e) PROVE j = start + 3 /\ Requests[k].length # "none" /\ mem[j].request = k
  <2>1. j \in start .. e - 1
    BY DEF Lengths
  <2>2. j < end
    BY <1>1, <2>1
  <2> QED
    BY <2>2, LengthFound
<1>3. CASE Requests[k].length = "none"
  <2>1. Lengths(e) = {}
    BY <1>2, <1>3
  <2>2. body_length = 0
    BY <1>3 DEF LengthKept, AtFront
  <2>3. Requests[k].body = 0
    BY <1>1, <1>3, ParserAssumption
  <2> QED
    BY <2>1, <2>2, <2>3 DEF BodyLength
<1>4. CASE Requests[k].length # "none"
  <2>1. 4 \in 1 .. Len(Cells(k)) /\ 4 <= end - start /\ start + 4 - 1 = start + 3
    BY <1>1
  <2>2. mem[start + 3] = Cells(k)[4] /\ Cells(k)[4].part = "length"
    BY <1>4, <2>1 DEF AtFront, Shape
  <2>3. start + 3 \in Lengths(e)
    BY <1>1, <2>2 DEF Lengths, Part
  <2>4. Max(Lengths(e)) \in Lengths(e)
    BY <1>1, <2>3, LengthIsNumber DEF Scanned
  <2>5. mem[Max(Lengths(e))].request = k
    BY <1>2, <2>4
  <2> QED
    BY <2>3, <2>5 DEF BodyLength
<1> QED
  BY <1>3, <1>4

LEMMA InitSound == Init => SoundInv
<1> SUFFICES ASSUME Init PROVE SoundInv
  OBVIOUS
<1>1. handled = <<>> /\ start = 0 /\ end = 0 /\ sent = 0 /\ body_length = 0
  BY DEF Init
<1>2. Done = 0 /\ handled \in Seq(Seq(Cell))
  BY <1>1 DEF Done
<1>3. HandledSoFar
  BY <1>2, StreamShape DEF HandledSoFar
<1>4. HoldsTheRest /\ LengthKept
  BY <1>1, <1>2, StreamShape DEF HoldsTheRest, LengthKept
<1>5. Done = Count \/ sent < SentWith(Done + 1)
  <2>1. Done # Count => sent < SentWith(Done + 1)
    BY <1>1, <1>2, <1>3, NextComes, StreamShape
  <2> QED
    BY <2>1
<1> QED
  BY <1>3, <1>4, <1>5 DEF SoundInv, NoneForgotten

LEMMA ReceiveSound ==
    ASSUME Types, SoundInv, NEW n \in 1 .. Len(Stream), Receive(n)
    PROVE  SoundInv'
<1> SUFFICES ASSUME Sound'
             PROVE  (HandledSoFar /\ HoldsTheRest /\ LengthKept /\ NoneForgotten)'
  BY DEF SoundInv
<1>1. Sound /\ ~(NeedsRoom(n) /\ start > 0)
  BY DEF Sound, Receive
<1>2. HandledSoFar /\ HoldsTheRest /\ LengthKept
  BY <1>1 DEF SoundInv
<1>3. /\ end' = end + n /\ sent' = sent + n /\ busy' = TRUE
      /\ handled' = handled /\ body_length' = body_length /\ n \in 1 .. Len(Stream) - sent
      /\ end + n <= MaxSize /\ start' = ReceiveStart(n)
  BY DEF Receive
<1>4. /\ start \in Nat /\ end \in Nat /\ n \in Nat /\ sent \in Nat /\ start <= end
      /\ sent = SentWith(Done) + (end - start) /\ SentWith(Done) \in Nat
      /\ MaxSize \in Nat /\ Block \in Nat
  BY <1>2, StreamShape, ParserAssumption DEF Types, HandledSoFar, HoldsTheRest
<1>5. start' = start
  BY <1>1, <1>3, <1>4 DEF ReceiveStart
<1>6. Done' = Done
  BY <1>3 DEF Done
<1>7. HandledSoFar' /\ LengthKept' /\ NoneForgotten'
  BY <1>2, <1>3, <1>6 DEF HandledSoFar, LengthKept, NoneForgotten
<1>8. ASSUME NEW i \in 1 .. end' - start' PROVE mem'[start' + i - 1] = Stream[SentWith(Done') + i]
  <2> DEFINE j == start + i - 1
  <2>1. i \in Nat /\ i >= 1 /\ i <= end + n - start /\ j \in Nat /\ j <= end + n - 1 /\ j >= start
    BY <1>3, <1>4, <1>5
  <2>2. j \in 0 .. MaxSize + Block + 3
    BY <1>3, <1>4, <2>1
  <2>3. mem'[j] = IF j \in end .. end + n - 1 THEN Stream[sent + j - end + 1] ELSE mem[j]
    BY <2>2 DEF Receive, Types
  <2>4. CASE j \in end .. end + n - 1
    <3>1. sent + j - end + 1 = SentWith(Done) + i
      BY <1>4, <2>1
    <3> QED
      BY <1>5, <1>6, <2>3, <2>4, <3>1
  <2>5. CASE j \notin end .. end + n - 1
    <3>1. i \in 1 .. end - start
      BY <1>4, <2>1, <2>5
    <3> QED
      BY <1>2, <1>5, <1>6, <2>3, <2>5, <3>1 DEF HoldsTheRest
  <2> QED
    BY <2>4, <2>5
<1>9. HoldsTheRest'
  <2>1. start' <= end' /\ sent' = SentWith(Done') + (end' - start')
    BY <1>3, <1>4, <1>5, <1>6
  <2> QED
    BY <1>8, <2>1 DEF HoldsTheRest
<1> QED
  BY <1>7, <1>9

(* If the scanner wants more, or gives up, the request has not come whole. *)
LEMMA StopsSound ==
    ASSUME Types, SoundInv, Waits \/ GivesUp
    PROVE  SoundInv'
<1> SUFFICES ASSUME Sound'
             PROVE  (HandledSoFar /\ HoldsTheRest /\ LengthKept /\ NoneForgotten)'
  BY DEF SoundInv
<1>1. /\ mem' = mem /\ sent' = sent /\ end' = end /\ start' = start /\ handled' = handled
      /\ body_length' = body_length /\ busy' = FALSE /\ causes' = causes
  BY DEF Waits, GivesUp, ParserIncomplete, ParserError
<1>2. HandledSoFar /\ HoldsTheRest /\ LengthKept
  BY <1>1 DEF SoundInv, Sound
<1>3. (HandledSoFar /\ HoldsTheRest /\ LengthKept)' /\ Done' = Done
  BY <1>1, <1>2 DEF HandledSoFar, HoldsTheRest, LengthKept, Done
<1>4. start \in Nat /\ end \in Nat /\ start <= end /\ sent = SentWith(Done) + (end - start)
      /\ SentWith(Done) \in Nat /\ Done \in 0 .. Count /\ Count \in Nat
  BY <1>2, StreamShape DEF Types, HandledSoFar, HoldsTheRest
<1>5. CASE start = end /\ Done = Count
  BY <1>1, <1>3, <1>5 DEF NoneForgotten
<1>6. CASE start = end /\ Done # Count
  <2>1. /\ SentWith(Done + 1) = SentWith(Done) + Len(Cells(Done + 1))
        /\ Len(Cells(Done + 1)) \in Nat /\ Len(Cells(Done + 1)) >= 4
    BY <1>2, <1>6, NextComes
  <2>5. sent < SentWith(Done + 1)
    BY <1>4, <1>6, <2>1
  <2> QED
    BY <1>1, <1>3, <2>5 DEF NoneForgotten
<1>7. CASE start # end
  <2> DEFINE k == Done + 1
  <2>1. AtFront(k)
    BY <1>2, <1>7, FrontIs
  <2>2. Len(Cells(k)) \in Nat /\ Len(Cells(k)) >= 4
    BY <2>1 DEF AtFront, Shape
  <2>3. /\ Cells(k)[1].part = "method" /\ Cells(k)[2].part = "path" /\ Cells(k)[3].part = "version"
    BY <2>1 DEF AtFront, Shape
  <2>4. \A i \in 1 .. 3 : i <= end - start => Part(start + i - 1) = Cells(k)[i].part
    BY <2>1, <2>2 DEF AtFront, Part
  <2>5. Part(start) = "method"
    BY <1>4, <1>7, <2>3, <2>4
  <2>6. 2 <= end - start => ~PathMissing
    <3>1. start + 2 - 1 = start + 1
      BY <1>4
    <3> QED
      BY <2>3, <2>4, <3>1 DEF PathMissing
  <2>7. 3 <= end - start => Part(start + 2) = "version"
    <3>1. start + 3 - 1 = start + 2
      BY <1>4
    <3> QED
      BY <2>3, <2>4, <3>1
  <2>8. end - start < 3
    BY <1>4, <1>7, <2>5, <2>6, <2>7 DEF Waits, GivesUp
  <2>9. SentWith(k) = SentWith(Done) + Len(Cells(k))
    BY <1>4, <2>1 DEF AtFront, Comes
  <2>10. sent < SentWith(k)
    BY <1>4, <2>2, <2>8, <2>9
  <2> QED
    BY <1>1, <1>3, <2>10 DEF NoneForgotten
<1> QED
  BY <1>5, <1>6, <1>7

(* If the body has not come, its request has not come whole either.        *)
LEMMA NeedsBodySound ==
    ASSUME Types, SoundInv, start + 3 <= end, NEW e, Scanned(e), ~BadLength(e),
           BodyLength(e) > end - e, ParserNeedsBody(e, BodyLength(e))
    PROVE  SoundInv'
<1> SUFFICES ASSUME Sound'
             PROVE  (HandledSoFar /\ HoldsTheRest /\ LengthKept /\ NoneForgotten)'
  BY DEF SoundInv
<1> DEFINE b == BodyLength(e)
           k == Done + 1
<1>1. /\ mem' = mem /\ sent' = sent /\ end' = end /\ start' = 0 /\ handled' = handled
      /\ body_length' = b /\ busy' = FALSE
  BY DEF ParserNeedsBody, StartOver
<1>2. Sound /\ ~(start > 0) /\ \A i \in Lengths(e) : ~(i >= end)
  BY DEF ParserNeedsBody, Sound
<1>3. HandledSoFar /\ HoldsTheRest /\ LengthKept
  BY <1>2 DEF SoundInv
<1>4. /\ start \in Nat /\ end \in Nat /\ start = 0 /\ e \in Nat /\ e <= end + Block
      /\ sent = SentWith(Done) + (end - start) /\ start # end
  BY <1>2, <1>3 DEF Types, Scanned, HoldsTheRest
<1>5. Done' = Done /\ start' = start
  BY <1>1, <1>4 DEF Done
<1>6. HandledSoFar' /\ HoldsTheRest'
  BY <1>1, <1>3, <1>5 DEF HandledSoFar, HoldsTheRest
<1>7. AtFront(k) /\ Places(k, e)
  BY <1>3, <1>4, FrontIs, PlacesAre
<1>8. b \in Nat
  BY <1>4, LengthIsNumber
<1>9. b # 0 => Done < Count /\ Requests[k].length # "none"
  <2>1. Done < Count
    BY <1>3, <1>7, StreamShape DEF AtFront, HandledSoFar
  <2>2. CASE Lengths(e) = {}
    BY <1>3, <2>1, <2>2 DEF BodyLength, LengthKept
  <2>3. CASE Lengths(e) # {}
    <3>1. PICK j \in Lengths(e) : TRUE
      BY <2>3
    <3>2. j < end
      <4>1. j \in Int
        BY <1>4, <3>1 DEF Lengths
      <4> QED
        BY <1>2, <1>4, <3>1, <4>1
    <3> QED
      BY <1>7, <2>1, <3>1, <3>2, LengthFound
  <2> QED
    BY <2>2, <2>3
<1>10. LengthKept'
  BY <1>1, <1>5, <1>9 DEF LengthKept
<1>11. sent < SentWith(k)
  <2> SUFFICES ASSUME sent >= SentWith(k) PROVE FALSE
    BY <1>3, <1>4, <1>7, NextComes, StreamShape DEF HandledSoFar, AtFront
  <2>1. /\ SentWith(k) = SentWith(Done) + Len(Cells(k)) /\ SentWith(Done) \in Nat
        /\ Len(Cells(k)) = HeadOf(k) + Requests[k].body /\ Requests[k].body \in Nat
        /\ HeadOf(k) \in Nat
    BY <1>3, <1>7, <1>9, NextComes, StreamShape DEF HandledSoFar, AtFront, Shape
  <2>2. HeadOf(k) + Requests[k].body <= end - start /\ HeadOf(k) <= end - start
    <3> DEFINE H == HeadOf(k)
               B == Requests[k].body
               before == SentWith(Done)
               after == SentWith(k)
    <3>1. after = before + (H + B) /\ before \in Nat /\ H \in Nat /\ B \in Nat
      BY <2>1
    <3>2. sent >= after /\ sent = before + (end - start) /\ start \in Nat /\ end \in Nat
      BY <1>4
    <3> HIDE DEF H, B, before, after
    <3>3. H + B <= end - start /\ H <= end - start
      BY <3>1, <3>2
    <3> QED
      BY <3>3 DEF H, B
  <2>4. e = start + HeadOf(k)
    BY <1>7, <2>2, HeadFound
  <2>5. e <= end
    BY <1>4, <2>1, <2>2, <2>4
  <2>6. b = Requests[k].body
    BY <1>3, <1>7, <2>4, <2>5, BodyFound
  <2> QED
    BY <1>4, <2>1, <2>2, <2>4, <2>6
<1>12. NoneForgotten'
  BY <1>1, <1>5, <1>11 DEF NoneForgotten
<1> QED
  BY <1>6, <1>10, <1>12

(* A request is handled with its own headers and body.                     *)
LEMMA HandlesSound ==
    ASSUME Types, SoundInv, start + 3 <= end, NEW e, Scanned(e), ~BadLength(e),
           BodyLength(e) <= end - e, ParserHandles(e, BodyLength(e))
    PROVE  SoundInv'
<1> SUFFICES ASSUME Sound'
             PROVE  (HandledSoFar /\ HoldsTheRest /\ LengthKept /\ NoneForgotten)'
  BY DEF SoundInv
<1> DEFINE b == BodyLength(e)
           k == Done + 1
           cells == [i \in 1 .. e + b - start |-> mem[start + i - 1]]
<1>1. /\ mem' = mem /\ sent' = sent /\ handled' = Append(handled, cells) /\ body_length' = 0
      /\ busy' = (e + b < end) /\ start' = Reset(e + b).start /\ end' = Reset(e + b).end
  BY DEF ParserHandles, NextBodyLength, OnBodyCells
<1>2. Sound /\ ~(e > start + 3 /\ ~Blank(e - 1))
  BY DEF ParserHandles, CutAtBlock, Sound, Blank
<1>3. HandledSoFar /\ HoldsTheRest /\ LengthKept
  BY <1>2 DEF SoundInv
<1>4. /\ start \in Nat /\ end \in Nat /\ e \in Nat /\ e <= end + Block /\ start + 4 <= e
      /\ sent = SentWith(Done) + (end - start) /\ start # end
  BY <1>3 DEF Types, Scanned, HoldsTheRest
<1>5. AtFront(k) /\ Places(k, e)
  BY <1>3, <1>4, FrontIs, PlacesAre
<1>6. b \in Nat /\ e <= end /\ Blank(e - 1)
  <2>1. b \in Nat
    BY <1>4, LengthIsNumber
  <2> HIDE DEF b
  <2> QED
    BY <1>2, <1>4, <2>1 DEF b
<1>7. e = start + HeadOf(k)
  <2>1. HeadOf(k) <= end - start \/ HeadOf(k) > end - start
    BY <1>4, <1>5 DEF Places
  <2> QED
    BY <1>5, <1>6, <2>1, HeadFound
<1>8. b = Requests[k].body
  BY <1>3, <1>5, <1>6, <1>7, BodyFound
<1>9. /\ SentWith(k) = SentWith(Done) + Len(Cells(k)) /\ SentWith(Done) \in Nat
      /\ Len(Cells(k)) = HeadOf(k) + Requests[k].body /\ Requests[k].body \in Nat
      /\ HeadOf(k) \in Nat /\ Cells(k) \in Seq(Cell) /\ k - 1 = Done /\ k \in 1 .. Count /\ Count \in Nat
      /\ Done \in Nat
  <2>1. Shape(k) /\ Comes(k) /\ k \in 1 .. Count
    BY <1>5 DEF AtFront
  <2>2. Done \in 0 .. Count /\ Count \in Nat /\ SentWith(Done) \in Nat
    BY <1>3, StreamShape DEF HandledSoFar
  <2>3. k - 1 = Done
    BY <2>2
  <2> QED
    BY <2>1, <2>2, <2>3 DEF Shape, Comes
<1>10. e + b - start = Len(Cells(k)) /\ Len(Cells(k)) <= end - start /\ Len(Cells(k)) \in Nat
  <2>1. b <= end - e
    OBVIOUS
  <2>2. /\ start \in Nat /\ end \in Nat /\ b \in Nat /\ e = start + HeadOf(k) /\ b = Requests[k].body
        /\ Len(Cells(k)) = HeadOf(k) + Requests[k].body /\ HeadOf(k) \in Nat
    BY <1>4, <1>6, <1>7, <1>8, <1>9
  <2> DEFINE L == Len(Cells(k))
             H == HeadOf(k)
  <2>3. start \in Nat /\ end \in Nat /\ b \in Nat /\ e = start + H /\ L = H + b /\ H \in Nat
    BY <2>2
  <2> HIDE DEF b, k, L, H
  <2>4. e + b - start = L /\ L <= end - start /\ L \in Nat
    BY <2>1, <2>3
  <2> QED
    BY <2>4 DEF L
<1>11. cells = Cells(k)
  <2>1. ASSUME NEW i \in 1 .. Len(Cells(k)) PROVE mem[start + i - 1] = Cells(k)[i]
    <3>1. i <= end - start
      BY <1>4, <1>10
    <3> QED
      BY <1>5, <3>1 DEF AtFront
  <2>2. Cells(k) = [i \in 1 .. Len(Cells(k)) |-> Cells(k)[i]]
    <3>1. Cells(k) \in Seq(Cell)
      BY <1>9
    <3>2. Cells(k) = [i \in DOMAIN Cells(k) |-> Cells(k)[i]] /\ DOMAIN Cells(k) = 1 .. Len(Cells(k))
      BY <3>1, LenProperties DEF Cells
    <3> QED
      BY <3>2
  <2> QED
    BY <1>10, <2>1, <2>2
<1> HIDE DEF cells
<1>12. handled' \in Seq(Seq(Cell)) /\ Done' = k /\ handled'[k] = Cells(k)
       /\ \A j \in 1 .. Done : handled'[j] = handled[j]
  BY <1>1, <1>3, <1>9, <1>11, AppendProperties DEF HandledSoFar, Done
<1>13. HandledSoFar'
  <2>1. ASSUME NEW j \in 1 .. k PROVE handled'[j] = Cells(j)
    <3>1. j \in 1 .. Done \/ j = k
      BY <1>9
    <3> QED
      BY <1>3, <1>12, <3>1 DEF HandledSoFar
  <2> QED
    BY <1>9, <1>12, <2>1 DEF HandledSoFar
<1> DEFINE s == e + b
<1>14. s \in Nat /\ s <= end /\ s = start + Len(Cells(k))
  <2>1. b <= end - e
    OBVIOUS
  <2>2. b \in Nat /\ e \in Nat /\ start \in Nat /\ end \in Nat /\ e + b - start = Len(Cells(k))
    BY <1>4, <1>6, <1>10
  <2> HIDE DEF b, k
  <2> QED
    BY <2>1, <2>2
<1>15. sent' = SentWith(k) + (end - s)
  <2> DEFINE L == Len(Cells(k))
             before == SentWith(Done)
             after == SentWith(k)
  <2>1. /\ sent' = before + (end - start) /\ after = before + L /\ s = start + L
        /\ start \in Nat /\ end \in Nat /\ before \in Nat /\ L \in Nat
    BY <1>1, <1>4, <1>9, <1>10, <1>14
  <2> HIDE DEF s, L, before, after
  <2>2. sent' = after + (end - s)
    BY <2>1
  <2> QED
    BY <2>2 DEF after
<1> HIDE DEF s
<1>16. CASE s < end
  <2>1. start' = s /\ end' = end /\ busy' = TRUE
    BY <1>1, <1>16 DEF Reset, s
  <2>2. ASSUME NEW i \in 1 .. end - s PROVE mem[s + i - 1] = Stream[SentWith(k) + i]
    <3>1. Len(Cells(k)) + i \in 1 .. end - start
      BY <1>4, <1>10, <1>14
    <3>2. mem[start + (Len(Cells(k)) + i) - 1] = Stream[SentWith(Done) + (Len(Cells(k)) + i)]
      BY <1>3, <3>1 DEF HoldsTheRest
    <3>3. start + (Len(Cells(k)) + i) - 1 = s + i - 1 /\ SentWith(Done) + (Len(Cells(k)) + i) = SentWith(k) + i
      <4> DEFINE L == Len(Cells(k))
                 before == SentWith(Done)
                 after == SentWith(k)
      <4>1. i \in Nat /\ start \in Nat /\ L \in Nat /\ s = start + L
        BY <1>4, <1>10, <1>14
      <4>2. before \in Nat /\ after = before + L
        BY <1>9
      <4> HIDE DEF L, before, after
      <4>3. start + (L + i) - 1 = s + i - 1 /\ before + (L + i) = after + i
        BY <4>1, <4>2
      <4> QED
        BY <4>3 DEF L, before, after
    <3> QED
      BY <3>2, <3>3
  <2>3. HoldsTheRest'
    BY <1>1, <1>12, <1>14, <1>15, <1>16, <2>1, <2>2 DEF HoldsTheRest
  <2>4. LengthKept' /\ NoneForgotten'
    BY <1>1, <2>1 DEF LengthKept, NoneForgotten
  <2> QED
    BY <1>13, <2>3, <2>4
<1>17. CASE ~(s < end)
  <2>0. s = end /\ SentWith(k) \in Nat
    <3>1. s = end
      BY <1>4, <1>14, <1>17
    <3>2. SentWith(k) \in Nat
      BY <1>9, <1>10
    <3> QED
      BY <3>1, <3>2
  <2>1. start' = 0 /\ end' = 0 /\ busy' = FALSE /\ sent' = SentWith(k) /\ SentWith(k) \in Nat
    <3>1. start' = 0 /\ end' = 0
      <4>1. Reset(s) = [start |-> 0, end |-> 0]
        BY <1>17 DEF Reset
      <4>2. start' = Reset(s).start /\ end' = Reset(s).end
        BY <1>1 DEF s
      <4> QED
        BY <4>1, <4>2
    <3>2. busy' = FALSE
      <4> DEFINE more == e + b < end
      <4>1. ~more
        BY <1>17 DEF s
      <4>2. busy' = more
        BY <1>1
      <4> HIDE DEF more
      <4> QED
        BY <4>1, <4>2
    <3>3. sent' = SentWith(k)
      BY <1>4, <1>15, <2>0
    <3> QED
      BY <2>0, <3>1, <3>2, <3>3
  <2>2. HoldsTheRest' /\ LengthKept'
    BY <1>1, <1>12, <2>1 DEF HoldsTheRest, LengthKept
  <2>3. Done' # Count => sent' < SentWith(Done' + 1)
    <3>1. k # Count => SentWith(k) < SentWith(k + 1)
      BY <1>9, EachAddsCells
    <3> QED
      BY <1>12, <2>1, <3>1
  <2>4. NoneForgotten'
    BY <2>3 DEF NoneForgotten
  <2> QED
    BY <1>13, <2>2, <2>4
<1> QED
  BY <1>16, <1>17

(* A round that ends on a bad length, on a body that mrpacker cannot read, *)
(* or on a page that fails, is no longer sound.                            *)
Refuses(e) == ParserBadLength(e) \/ ParserUnpackFails(e, BodyLength(e)) \/ ParserHandlerFails(e, BodyLength(e))

LEMMA RefusesSound ==
    ASSUME NEW e, Refuses(e)
    PROVE  SoundInv'
<1>1. \E c \in causes' : c # "offset"
  <2>1. CASE ParserBadLength(e)
    <3>1. "bad length" \in causes' /\ "bad length" # "offset"
      BY <2>1 DEF ParserBadLength
    <3> QED
      BY <3>1
  <2>2. CASE ParserUnpackFails(e, BodyLength(e))
    <3>1. "bad body" \in causes' \/ "stale type" \in causes'
      BY <2>2 DEF ParserUnpackFails
    <3> QED
      BY <3>1
  <2>3. CASE ParserHandlerFails(e, BodyLength(e))
    <3>1. "handler failed" \in causes' /\ "handler failed" # "offset"
      BY <2>3 DEF ParserHandlerFails
    <3> QED
      BY <3>1
  <2> QED
    BY <2>1, <2>2, <2>3 DEF Refuses
<1>2. ~Sound'
  BY <1>1 DEF Sound
<1> QED
  BY <1>2 DEF SoundInv

LEMMA NextSound ==
    ASSUME Types, SoundInv, [Next]_vars
    PROVE  SoundInv'
<1>1. CASE UNCHANGED vars
  BY <1>1 DEF vars, SoundInv, Sound, HandledSoFar, HoldsTheRest, LengthKept, NoneForgotten, Done
<1>2. ASSUME NEW n \in 1 .. Len(Stream), Receive(n) PROVE SoundInv'
  BY <1>2, ReceiveSound
<1>3. CASE ParseOne
  <2>1. CASE Waits \/ GivesUp
    BY <2>1, StopsSound
  <2>2. ASSUME start + 3 <= end, NEW e, Scanned(e), Reads(e) PROVE SoundInv'
    <3>1. CASE Refuses(e)
      BY <3>1, RefusesSound
    <3>2. CASE ~BadLength(e) /\ BodyLength(e) > end - e /\ ParserNeedsBody(e, BodyLength(e))
      BY <2>2, <3>2, NeedsBodySound
    <3>3. CASE ~BadLength(e) /\ BodyLength(e) <= end - e /\ ParserHandles(e, BodyLength(e))
      BY <2>2, <3>3, HandlesSound
    <3> QED
      BY <2>2, <3>1, <3>2, <3>3 DEF Reads, Refuses
  <2> QED
    BY <1>3, <2>1, <2>2, Rounds
<1> QED
  BY <1>1, <1>2, <1>3 DEF Next

LEMMA SoundInvariance == Spec => [](FitsInv /\ SoundInv)
<1>1. FitsInv /\ SoundInv /\ [Next]_vars => SoundInv'
  BY NextSound DEF FitsInv
<1> QED
  BY <1>1, InitSound, FitsInvariance, PTL DEF Spec

(* However the client's data is cut, the requests are handled in order,    *)
(* each once, each with its own headers and body, as long as nothing of    *)
(* the list in ParserBuffer went wrong: for every sequence of requests,    *)
(* every block and every size of the buffer.                               *)
THEOREM HandledRightAlways == Spec => []HandledRight
<1>1. SoundInv => HandledRight
  <2> SUFFICES ASSUME SoundInv, Sound, NEW k \in DOMAIN handled
               PROVE  k \in DOMAIN Requests /\ handled[k] = Cells(k)
    BY DEF HandledRight
  <2>1. HandledSoFar
    BY DEF SoundInv
  <2>2. handled \in Seq(Seq(Cell)) /\ Done \in 0 .. Count /\ Count \in Nat
    BY <2>1, StreamShape DEF HandledSoFar
  <2>3. k \in 1 .. Done
    BY <2>2, LenProperties DEF Done
  <2>4. DOMAIN Requests = 1 .. Count
    BY ParserAssumption, LenProperties DEF Count
  <2> QED
    BY <2>1, <2>2, <2>3, <2>4 DEF HandledSoFar
<1> QED
  BY <1>1, SoundInvariance, PTL

(* When parser_data_received returns, every request that has arrived whole *)
(* is handled: for every cut of every requests, as long as nothing of the  *)
(* list went wrong.                                                        *)
THEOREM NothingForgottenAlways == Spec => []NothingForgotten
<1>1. SoundInv => NothingForgotten
  BY DEF SoundInv, NothingForgotten, NoneForgotten, Done, Count
<1> QED
  BY <1>1, SoundInvariance, PTL

-----------------------------------------------------------------------------
(* A connection of the MrQ client.                                         *)
Place(n) == n % RingSize

LEMMA PlaceIs ==
    ASSUME NEW n \in Nat
    PROVE  Place(n) \in 0 .. RingSize - 1 /\ Place(n + 1) = (Place(n) + 1) % RingSize
<1> DEFINE d == n \div RingSize
           m == n % RingSize
<1>1. RingSize \in Nat /\ RingSize > 0
  BY RingAssumption, MrqProtocolAssumption
<1>2. m \in 0 .. RingSize - 1 /\ d \in Int /\ n = RingSize * d + m
  BY <1>1
<1>3. (n + 1) % RingSize = (m + 1) % RingSize
  <2> HIDE DEF d, m
  <2>1. CASE m + 1 < RingSize
    BY <1>1, <1>2, <2>1, SMTT(30)
  <2>2. CASE m + 1 = RingSize
    BY <1>1, <1>2, <2>2, SMTT(30)
  <2> QED
    BY <1>1, <1>2, <2>1, <2>2
<1> QED
  BY <1>1, <1>2, <1>3 DEF Place

(* What the loop of data_received works with.                              *)
Rings == [slot : [0 .. RingSize - 1 -> Nat], start : 0 .. RingSize - 1, end : 0 .. RingSize - 1]
Outs == [to : Nat, n : Nat, size : Int]
LoopStates == [at : Int, left : Int, keep : Nat, kept : Nat, ring : Rings, out : Seq(Outs),
               up : BOOLEAN, short : BOOLEAN]

StreamTypes == lens \in Seq(Nat) /\ begins \in Seq(Nat) /\ Len(begins) = Len(lens)
Stales == {"right", "large", "negative"}

NextState(s, n) ==
    [s EXCEPT !.at = @ + Header + lens[n],
              !.left = @ - (Header + lens[n]),
              !.short = @ \/ s.left < Header + lens[n]]

SizeOf(s, n) == Least(lens[n], Greatest(0, s.left - Header))

(* The outcomes of a round.                                                *)
LEMMA RoundCases ==
    ASSUME NEW s \in LoopStates, s.left > 0, NEW stale \in Stales
    PROVE  \/ /\ Round(s, stale) = Keep(s)
              /\ s.left < 4 \/ \E n \in BeginsAt(s.at) : s.left = 4 \/ s.left < lens[n]
           \/ /\ Round(s, stale) = Drop(s)
              /\ BeginsAt(s.at) = {} /\ s.left >= 4
           \/ Round(s, stale) = [Drop(s) EXCEPT !.up = FALSE]
           \/ \E n \in BeginsAt(s.at) :
                 Round(s, stale) = HandOver(NextState(s, n), n, SizeOf(s, n))
<1> DEFINE r == Round(s, stale)
<1>1. s.left \in Int
  BY DEF LoopStates
<1>2. r = OneReply(s, stale)
  BY <1>1 DEF Round
<1>3. CASE s.left < 4
  BY <1>2, <1>3 DEF OneReply
<1>4. CASE ~(s.left < 4) /\ BeginsAt(s.at) = {}
  <2>1. s.left >= 4
    BY <1>1, <1>4
  <2> QED
    BY <1>2, <1>4, <2>1 DEF OneReply
<1>5. CASE ~(s.left < 4) /\ BeginsAt(s.at) # {}
  <2> DEFINE n == CHOOSE m \in BeginsAt(s.at) : TRUE
             len == lens[n]
             handed == HandOver(NextState(s, n), n, SizeOf(s, n))
             one == CASE LengthCut(s) /\ stale = "negative" -> [Drop(s) EXCEPT !.up = FALSE]
                      [] LengthCut(s) /\ stale = "large" -> Keep(s)
                      [] ~LengthCut(s) \/ stale = "right" ->
                             IF NotAllYet(s.left, len) THEN Keep(s) ELSE handed
  <2>1. n \in BeginsAt(s.at)
    BY <1>5
  <2>2. r = one
    BY <1>2, <1>5 DEF OneReply, NextState, SizeOf
  <2> HIDE DEF n, one, r
  <2>3. CASE LengthCut(s) /\ stale = "negative"
    <3>1. one = [Drop(s) EXCEPT !.up = FALSE]
      BY <2>3 DEF one
    <3> QED
      BY <2>2, <3>1 DEF r
  <2>4. CASE LengthCut(s) /\ stale = "large"
    <3>1. one = Keep(s)
      BY <2>4 DEF one
    <3>2. s.left = 4
      BY <2>4 DEF LengthCut
    <3> QED
      BY <2>1, <2>2, <3>1, <3>2 DEF r
  <2>5. CASE ~LengthCut(s) \/ stale = "right"
    <3>1. one = IF NotAllYet(s.left, len) THEN Keep(s) ELSE handed
      BY <2>5 DEF one
    <3>2. CASE NotAllYet(s.left, len)
      <4>1. one = Keep(s) /\ s.left < lens[n]
        BY <3>1, <3>2 DEF NotAllYet
      <4> QED
        BY <2>1, <2>2, <4>1 DEF r
    <3>3. CASE ~NotAllYet(s.left, len)
      <4>1. one = handed
        BY <3>1, <3>3
      <4> QED
        BY <2>1, <2>2, <4>1 DEF r
    <3> QED
      BY <3>2, <3>3
  <2> QED
    BY <2>3, <2>4, <2>5 DEF Stales
<1> QED
  BY <1>3, <1>4, <1>5

(* What HandOver makes of a state.                                         *)
Given(s, n, bytes) == [to |-> NextCallback(s.ring), n |-> n, size |-> bytes]

RingAfter(r) == IF NextCallback(r) = Nobody THEN r ELSE PopCallback(r)

LEMMA RingAfterIs ==
    ASSUME NEW r \in Rings
    PROVE  /\ RingAfter(r) \in Rings /\ NextCallback(r) \in Nat
           /\ RingAfter(r).slot = r.slot /\ RingAfter(r).end = r.end
           /\ RingAfter(r).start = IF NextCallback(r) = Nobody THEN r.start
                                   ELSE (r.start + 1) % RingSize
<1>1. RingSize \in Nat /\ RingSize > 0
  BY RingAssumption, MrqProtocolAssumption
<1>2. r.start \in 0 .. RingSize - 1 /\ r.start + 1 \in Nat
  BY DEF Rings
<1>3. (r.start + 1) % RingSize \in 0 .. RingSize - 1
  BY <1>1, <1>2
<1> DEFINE en == (r.start + 1) % RingSize
<1>4. PopCallback(r) = [r EXCEPT !.start = en]
  BY DEF PopCallback
<1> HIDE DEF en
<1> QED
  BY <1>1, <1>3, <1>4 DEF Rings, RingAfter, NextCallback, en

HandedOver(s, t, n, bytes) ==
    /\ t.at = s.at + Header + lens[n]
    /\ t.left = s.left - (Header + lens[n])
    /\ t.short = (s.short \/ s.left < Header + lens[n])
    /\ t.keep = s.keep /\ t.kept = s.kept /\ t.up = s.up
    /\ t.ring = RingAfter(s.ring)
    /\ t.out = Append(s.out, Given(s, n, bytes))

LEMMA HandOverIs ==
    ASSUME StreamTypes, NEW s \in LoopStates, NEW n \in 1 .. Len(begins),
           NEW bytes \in Int
    PROVE  LET t == HandOver(NextState(s, n), n, bytes)
           IN  t \in LoopStates /\ HandedOver(s, t, n, bytes)
<1> DEFINE a == NextState(s, n)
           t == HandOver(a, n, bytes)
           pushed == Append(s.out, Given(s, n, bytes))
<1>1. lens[n] \in Nat /\ n \in Nat /\ Header = 5
  BY DEF StreamTypes, Header
<1>2. s.left \in Int /\ s.at \in Int /\ s.short \in BOOLEAN /\ s.ring \in Rings /\ s.out \in Seq(Outs)
  BY DEF LoopStates
<1>3. (s.short \/ s.left < Header + lens[n]) \in BOOLEAN
  BY <1>1, <1>2
<1> DEFINE at == s.at + Header + lens[n]
           left == s.left - (Header + lens[n])
           cut == s.short \/ s.left < Header + lens[n]
<1>0. a = [s EXCEPT !.at = at, !.left = left, !.short = cut] /\ at \in Int /\ left \in Int /\ cut \in BOOLEAN
  BY <1>1, <1>2, <1>3 DEF NextState
<1>4. /\ a \in LoopStates /\ a.at = s.at + Header + lens[n]
      /\ a.left = s.left - (Header + lens[n])
      /\ a.short = (s.short \/ s.left < Header + lens[n])
      /\ a.keep = s.keep /\ a.kept = s.kept /\ a.up = s.up /\ a.ring = s.ring /\ a.out = s.out
  <2> HIDE DEF a, at, left, cut
  <2>1. a \in LoopStates /\ a.at = at /\ a.left = left /\ a.keep = s.keep /\ a.kept = s.kept /\ a.ring = s.ring /\ a.out = s.out
    BY <1>0 DEF LoopStates
  <2>2. a.short = cut
    BY <1>0 DEF LoopStates
  <2>3. a.up = s.up
    BY <1>0 DEF LoopStates
  <2> QED
    BY <2>1, <2>2, <2>3 DEF at, left, cut
<1>5. Given(s, n, bytes) \in Outs
  BY <1>1, <1>2, RingAfterIs DEF Outs, Given
<1>6. pushed \in Seq(Outs)
  BY <1>2, <1>5
<1>7. t = [a EXCEPT !.out = pushed, !.ring = RingAfter(s.ring)]
  BY <1>4 DEF HandOver, RingAfter, Given
<1>8. RingAfter(s.ring) \in Rings
  BY <1>2, RingAfterIs
<1> HIDE DEF a, pushed
<1>9. t \in LoopStates /\ t.at = a.at /\ t.left = a.left /\ t.short = a.short /\ t.keep = a.keep
      /\ t.kept = a.kept /\ t.up = a.up /\ t.ring = RingAfter(s.ring) /\ t.out = pushed
  BY <1>4, <1>6, <1>7, <1>8 DEF LoopStates
<1> QED
  BY <1>4, <1>9 DEF HandedOver, pushed, a

LEMMA KeepIs ==
    ASSUME NEW s \in LoopStates, s.left > 0
    PROVE  LET t == Keep(s)
           IN  /\ t \in LoopStates /\ t.at = s.at /\ t.left = 0 /\ t.keep = s.left /\ t.kept = s.kept
               /\ t.ring = s.ring /\ t.out = s.out /\ t.up = s.up /\ t.short = s.short
<1>1. s.left \in Nat
  BY DEF LoopStates
<1> DEFINE t == Keep(s)
<1>2. t \in LoopStates
  <2> DEFINE k == s.left
  <2>1. t = [s EXCEPT !.left = 0, !.keep = k] /\ k \in Nat /\ 0 \in Int
    BY <1>1 DEF Keep
  <2> HIDE DEF k, t
  <2> QED
    BY <2>1 DEF LoopStates
<1>3. t.at = s.at /\ t.left = 0 /\ t.keep = s.left /\ t.kept = s.kept /\ t.ring = s.ring /\ t.out = s.out
  BY <1>1 DEF LoopStates, Keep
<1>4. t.up = s.up
  BY <1>1 DEF LoopStates, Keep
<1>5. t.short = s.short
  BY <1>1 DEF LoopStates, Keep
<1> HIDE DEF t
<1>6. /\ t \in LoopStates /\ t.at = s.at /\ t.left = 0 /\ t.keep = s.left /\ t.kept = s.kept
      /\ t.ring = s.ring /\ t.out = s.out /\ t.up = s.up /\ t.short = s.short
  BY <1>2, <1>3, <1>4, <1>5
<1> QED
  BY <1>6 DEF t

LEMMA DropIs ==
    ASSUME NEW s \in LoopStates
    PROVE  LET t == Drop(s)
           IN  /\ t \in LoopStates /\ t.at = s.at /\ t.left = 0 /\ t.keep = s.keep
               /\ t.ring = s.ring /\ t.out = s.out /\ t.up = s.up /\ t.short = s.short
<1> DEFINE t == Drop(s)
<1>1. t = [s EXCEPT !.left = 0] /\ 0 \in Int
  BY DEF Drop
<1> HIDE DEF t
<1>2. t \in LoopStates
  BY <1>1 DEF LoopStates
<1>3. t.at = s.at /\ t.left = 0 /\ t.keep = s.keep /\ t.ring = s.ring /\ t.out = s.out
  BY <1>1 DEF LoopStates
<1>4. t.up = s.up
  BY <1>1 DEF LoopStates
<1>5. t.short = s.short
  BY <1>1 DEF LoopStates
<1>6. /\ t \in LoopStates /\ t.at = s.at /\ t.left = 0 /\ t.keep = s.keep
      /\ t.ring = s.ring /\ t.out = s.out /\ t.up = s.up /\ t.short = s.short
  BY <1>2, <1>3, <1>4, <1>5
<1> QED
  BY <1>6 DEF t

LEMMA BrokenIs ==
    ASSUME NEW s \in LoopStates
    PROVE  LET t == [Drop(s) EXCEPT !.up = FALSE]
           IN  /\ t \in LoopStates /\ t.left = 0 /\ t.keep = s.keep
               /\ t.ring = s.ring /\ t.out = s.out /\ t.up = FALSE /\ t.short = s.short
<1> DEFINE d == Drop(s)
           t == [d EXCEPT !.up = FALSE]
<1>1. /\ d \in LoopStates /\ d.left = 0 /\ d.keep = s.keep
      /\ d.ring = s.ring /\ d.out = s.out /\ d.short = s.short
  BY DropIs
<1> HIDE DEF d
<1>2. t \in LoopStates
  BY <1>1 DEF LoopStates
<1>3. t.left = d.left /\ t.keep = d.keep /\ t.ring = d.ring /\ t.out = d.out
  BY <1>1 DEF LoopStates
<1>4. t.up = FALSE
  BY <1>1 DEF LoopStates
<1>5. t.short = d.short
  BY <1>1 DEF LoopStates
<1> HIDE DEF t
<1>6. /\ t \in LoopStates /\ t.left = 0 /\ t.keep = s.keep
      /\ t.ring = s.ring /\ t.out = s.out /\ t.up = FALSE /\ t.short = s.short
  BY <1>1, <1>2, <1>3, <1>4, <1>5
<1> QED
  BY <1>6 DEF d, t

LEMMA RoundTyped ==
    ASSUME StreamTypes, NEW s \in LoopStates, NEW stale \in Stales
    PROVE  Round(s, stale) \in LoopStates
<1>1. s.left \in Int
  BY DEF LoopStates
<1>2. CASE s.left <= 0
  BY <1>2 DEF Round
<1>3. CASE s.left > 0
  <2>1. ASSUME NEW n \in BeginsAt(s.at)
        PROVE  HandOver(NextState(s, n), n, SizeOf(s, n)) \in LoopStates
    <3>1. n \in 1 .. Len(begins) /\ SizeOf(s, n) \in Int
      BY <1>1 DEF BeginsAt, StreamTypes, SizeOf, Least, Greatest, Header
    <3> QED
      BY <3>1, HandOverIs
  <2>2. Keep(s) \in LoopStates
    BY <1>3, KeepIs
  <2>3. Drop(s) \in LoopStates /\ [Drop(s) EXCEPT !.up = FALSE] \in LoopStates
    BY DropIs, BrokenIs
  <2>4. \/ Round(s, stale) = Keep(s)
        \/ Round(s, stale) = Drop(s)
        \/ Round(s, stale) = [Drop(s) EXCEPT !.up = FALSE]
        \/ \E n \in BeginsAt(s.at) :
              Round(s, stale) = HandOver(NextState(s, n), n, SizeOf(s, n))
    BY <1>3, RoundCases
  <2> QED
    BY ONLY <2>1, <2>2, <2>3, <2>4
<1> QED
  BY <1>1, <1>2, <1>3

(* The loop is a row of rounds, one for every byte at most.                *)
LEMMA LoopIs ==
    ASSUME StreamTypes, NEW s \in LoopStates, s.left \in Nat, NEW stale \in Stales
    PROVE  \E f \in [0 .. s.left -> LoopStates] :
              /\ f[0] = s
              /\ \A r \in 1 .. s.left : f[r] = Round(f[r - 1], stale)
              /\ Replies(s, stale) = f[s.left]
<1> DEFINE D == 0 .. s.left
           step == [k \in D |-> [v \in LoopStates |-> Round(v, stale)]]
           isLoop(f) == f = [r \in D |-> IF r = 0 THEN s ELSE Round(f[r - 1], stale)]
           after == CHOOSE f : isLoop(f)
<1>1. step \in [D -> [LoopStates -> LoopStates]]
  BY RoundTyped
<1>2. \A k \in D, v \in LoopStates : step[k][v] = Round(v, stale)
  OBVIOUS
<1>3. IsStart(D)
  BY DEF IsStart
<1> HIDE DEF step
<1>4. PICK f \in [D -> LoopStates] : Follows(f, D, s, step)
  BY <1>1, <1>3, Recursion
<1>5. \A k \in D : f[k] = IF k = 0 THEN s ELSE Round(f[k - 1], stale)
  <2>1. \A k \in D : k # 0 => k - 1 \in D
    BY <1>3 DEF IsStart
  <2> QED
    BY <1>2, <1>4, <2>1 DEF Follows
<1>6. isLoop(f)
  BY <1>4, <1>5
<1>7. isLoop(after)
  BY <1>6
<1>8. Replies(s, stale) = after[s.left]
  BY DEF Replies
<1> HIDE DEF after
<1> DEFINE T == {r \in Nat : r \in D => after[r] \in LoopStates}
<1>9. \A r \in D : after[r] = IF r = 0 THEN s ELSE Round(after[r - 1], stale)
  BY <1>7
<1>10. DOMAIN after = D
  BY <1>7
<1>11. 0 \in T
  BY <1>9
<1>12. ASSUME NEW r \in Nat, r \in T PROVE r + 1 \in T
  <2> SUFFICES ASSUME r + 1 \in D PROVE after[r + 1] \in LoopStates
    OBVIOUS
  <2>1. r \in D /\ r + 1 # 0 /\ (r + 1) - 1 = r
    OBVIOUS
  <2>2. after[r + 1] = Round(after[r], stale)
    BY <1>9, <2>1
  <2> QED
    BY <1>12, <2>1, <2>2, RoundTyped
<1>13. Nat \subseteq T
  <2> HIDE DEF T
  <2> QED
    BY <1>11, <1>12, Induction
<1>14. after \in [D -> LoopStates]
  <2>1. \A r \in D : after[r] \in LoopStates
    BY <1>13
  <2>2. after = [r \in D |-> after[r]]
    BY <1>7
  <2> QED
    BY <2>1, <2>2
<1>15. after[0] = s /\ \A r \in 1 .. s.left : after[r] = Round(after[r - 1], stale)
  BY <1>9
<1> QED
  BY <1>8, <1>14, <1>15

(* While nothing has gone wrong: sessions were asked for before any job,   *)
(* the replies lie in the stream one behind the other, each was handed to  *)
(* who asked for it, and the ring holds the callbacks of those to come.    *)
(* Place(n - 1) is the slot of request n.  The head of the ring stays at   *)
(* the slot of the first job, whose callback is empty and never replaced.  *)
ReplyPlace(n) == IF n <= Len(lens) THEN begins[n] ELSE answered + 1

SessionsFirst ==
    \A n \in 1 .. Len(kinds) : \A m \in 1 .. n : kinds[n] = "session" => kinds[m] = "session"

InARow ==
    /\ Len(lens) <= Len(kinds)
    /\ ReplyPlace(1) = 1
    /\ \A n \in 1 .. Len(lens) :
          /\ begins[n] + Header + lens[n] = ReplyPlace(n + 1)
          /\ begins[n] + Header + lens[n] <= answered + 1
    /\ \A m, n \in 1 .. Len(lens) : m < n => begins[m] < begins[n]

WholeSoFar(o) ==
    /\ Len(o) <= Len(lens)
    /\ \A k \in 1 .. Len(o) :
          o[k] = [to |-> IF kinds[k] = "session" THEN k ELSE Nobody, n |-> k, size |-> lens[k]]

CallbacksWait(r, c) ==
    \A n \in 1 .. Len(kinds) :
       /\ kinds[n] = "job" => r.slot[Place(n - 1)] = Nobody
       /\ (kinds[n] = "session" /\ n > c) => r.slot[Place(n - 1)] = n

HeadAfter(r, c) ==
    \E p \in 0 .. c : r.start = Place(p) /\ \A n \in 1 .. c : kinds[n] = "session" <=> n <= p

Unfinished(kept, c) == c < Len(lens) /\ kept < Header + lens[c + 1]

KindTypes == kinds \in Seq({"job", "session"}) /\ answered \in Nat

LEMMA HeadIsNext ==
    ASSUME KindTypes, SessionsFirst, NEW r \in Rings, NEW c \in Nat, c + 1 \in 1 .. Len(kinds),
           CallbacksWait(r, c), HeadAfter(r, c)
    PROVE  /\ NextCallback(r) = IF kinds[c + 1] = "session" THEN c + 1 ELSE Nobody
           /\ CallbacksWait(RingAfter(r), c + 1) /\ HeadAfter(RingAfter(r), c + 1)
<1> DEFINE k == c + 1
<1>1. PICK p \in 0 .. c : r.start = Place(p) /\ \A n \in 1 .. c : kinds[n] = "session" <=> n <= p
  BY DEF HeadAfter
<1>2. Len(kinds) \in Nat /\ Nobody = 0 /\ \A n \in 1 .. Len(kinds) : kinds[n] \in {"job", "session"}
  BY DEF KindTypes, Nobody
<1>3. CASE kinds[k] = "session"
  <2>1. p = c
    <3> SUFFICES ASSUME p # c PROVE FALSE
      OBVIOUS
    <3>1. c \in 1 .. c /\ c \in 1 .. k /\ ~(c <= p)
      BY <1>1
    <3>2. kinds[c] = "session"
      BY <1>3, <3>1 DEF SessionsFirst
    <3> QED
      BY <1>1, <3>1, <3>2
  <2>2. r.slot[Place(k - 1)] = k /\ k - 1 = c /\ k > c /\ k # 0
    BY <1>3 DEF CallbacksWait
  <2>3. NextCallback(r) = k
    BY <1>1, <2>1, <2>2 DEF NextCallback
  <2>4. RingAfter(r).slot = r.slot /\ RingAfter(r).start = (Place(c) + 1) % RingSize
    BY <1>1, <1>2, <2>1, <2>2, <2>3, RingAfterIs
  <2>5. RingAfter(r).start = Place(k)
    BY <2>4, PlaceIs
  <2>6. CallbacksWait(RingAfter(r), k)
    <3>1. \A n \in 1 .. Len(kinds) : n > k => n > c
      BY <1>2
    <3> HIDE DEF k
    <3> QED
      BY <2>4, <3>1 DEF CallbacksWait
  <2>7. \A n \in 1 .. k : kinds[n] = "session" <=> n <= k
    BY <1>3 DEF SessionsFirst
  <2>8. HeadAfter(RingAfter(r), k)
    BY <2>5, <2>7 DEF HeadAfter
  <2> QED
    BY <1>3, <2>3, <2>6, <2>8
<1>4. CASE kinds[k] # "session"
  <2>1. p + 1 \in 1 .. Len(kinds) /\ (p + 1) - 1 = p
    BY <1>1, <1>2
  <2>2. kinds[p + 1] = "job"
    <3>1. CASE p = c
      BY <1>2, <1>4, <2>1, <3>1
    <3>2. CASE p # c
      <4>1. p + 1 \in 1 .. c /\ ~(p + 1 <= p)
        BY <3>2
      <4> QED
        BY <1>1, <1>2, <2>1, <4>1
    <3> QED
      BY <3>1, <3>2
  <2>3. r.slot[Place(p)] = Nobody
    BY <2>1, <2>2 DEF CallbacksWait
  <2>4. NextCallback(r) = Nobody /\ RingAfter(r) = r
    BY <1>1, <2>3 DEF NextCallback, RingAfter
  <2>5. CallbacksWait(r, k)
    BY <1>2 DEF CallbacksWait
  <2>6. \A n \in 1 .. k : kinds[n] = "session" <=> n <= p
    BY <1>1, <1>4
  <2>7. HeadAfter(r, k)
    BY <1>1, <2>6 DEF HeadAfter
  <2> QED
    BY <1>4, <2>4, <2>5, <2>7
<1> QED
  BY <1>3, <1>4

(* The place behind the replies handed over is where the next begins.      *)
LEMMA NextBegins ==
    ASSUME StreamTypes, KindTypes, InARow, NEW c \in Nat, c <= Len(lens), NEW at, at = ReplyPlace(c + 1)
    PROVE  /\ \A n \in BeginsAt(at) : n = c + 1 /\ n \in 1 .. Len(lens)
           /\ BeginsAt(at) = {} => at = answered + 1
           /\ at \in Nat
<1>1. Len(lens) \in Nat /\ \A n \in 1 .. Len(lens) : begins[n] \in Nat /\ lens[n] \in Nat
  BY DEF StreamTypes
<1>2. CASE c = Len(lens)
  <2>1. at = answered + 1
    BY <1>1, <1>2 DEF ReplyPlace
  <2>2. ASSUME NEW n \in BeginsAt(at) PROVE FALSE
    <3>1. n \in 1 .. Len(lens) /\ begins[n] = at
      BY DEF BeginsAt, StreamTypes
    <3>2. begins[n] + 5 + lens[n] <= answered + 1
      BY <3>1 DEF InARow, Header
    <3> QED
      BY <1>1, <2>1, <3>1, <3>2 DEF KindTypes
  <2> QED
    BY <2>1, <2>2 DEF KindTypes
<1>3. CASE c # Len(lens)
  <2>1. c + 1 \in 1 .. Len(lens) /\ at = begins[c + 1]
    BY <1>1, <1>3 DEF ReplyPlace
  <2>2. c + 1 \in BeginsAt(at)
    BY <2>1 DEF BeginsAt, StreamTypes
  <2>3. ASSUME NEW n \in BeginsAt(at) PROVE n = c + 1 /\ n \in 1 .. Len(lens)
    <3>1. n \in 1 .. Len(lens) /\ begins[n] = at
      BY DEF BeginsAt, StreamTypes
    <3> QED
      BY <1>1, <2>1, <3>1 DEF InARow
  <2> QED
    BY <1>1, <2>1, <2>2, <2>3
<1> QED
  BY <1>2, <1>3

(* The loop so far, in a call that has the stream up to e; or it has given *)
(* away a reply of which bytes were missing.                               *)
LoopRight(s, e) ==
    \/ s.short
    \/ /\ s.left >= 0
       /\ WholeSoFar(s.out) /\ CallbacksWait(s.ring, Len(s.out)) /\ HeadAfter(s.ring, Len(s.out))
       /\ s.ring.end = Place(Len(kinds))
       /\ s.left > 0 => s.up /\ s.keep = 0
       /\ s.up => s.at + s.left + s.keep = e /\ s.at = ReplyPlace(Len(s.out) + 1)
       /\ s.keep > 0 => Unfinished(s.keep, Len(s.out))

AllRight == StreamTypes /\ KindTypes /\ SessionsFirst /\ InARow

(* A reply given away too soon is not forgotten.                           *)
LEMMA ShortStays ==
    ASSUME StreamTypes, NEW s \in LoopStates, NEW stale \in Stales, s.left > 0, s.short
    PROVE  Round(s, stale).short
<1> DEFINE t == Round(s, stale)
<1>1. Keep(s).short /\ Drop(s).short /\ [Drop(s) EXCEPT !.up = FALSE].short
  BY KeepIs, DropIs, BrokenIs
<1>2. ASSUME NEW n \in BeginsAt(s.at)
      PROVE  HandOver(NextState(s, n), n, SizeOf(s, n)).short
  <2>1. n \in 1 .. Len(begins) /\ SizeOf(s, n) \in Int
    <3>1. s.left \in Int
      BY DEF LoopStates
    <3> QED
      BY <3>1 DEF BeginsAt, StreamTypes, SizeOf, Least, Greatest, Header
  <2> QED
    BY <2>1, HandOverIs DEF HandedOver
<1>3. \/ t = Keep(s)
      \/ t = Drop(s)
      \/ t = [Drop(s) EXCEPT !.up = FALSE]
      \/ \E n \in BeginsAt(s.at) : t = HandOver(NextState(s, n), n, SizeOf(s, n))
  BY RoundCases
<1> HIDE DEF t
<1>4. t.short
  BY ONLY <1>1, <1>2, <1>3
<1> QED
  BY <1>4 DEF t

LEMMA RoundRight ==
    ASSUME AllRight, NEW s \in LoopStates, NEW stale \in Stales, s.left > 0,
           NEW e \in Nat, e <= answered + 1, LoopRight(s, e)
    PROVE  LET t == Round(s, stale)
           IN  LoopRight(t, e) /\ (t.short \/ t.left < s.left)
<1> USE DEF AllRight
<1> DEFINE t == Round(s, stale)
           c == Len(s.out)
<1>1. s.left \in Int /\ s.at \in Int /\ s.keep \in Nat /\ s.out \in Seq(Outs) /\ c \in Nat /\ s.ring \in Rings
      /\ s.short \in BOOLEAN /\ s.up \in BOOLEAN
  BY DEF LoopStates
<1>2. CASE s.short
  <2>1. t.short
    BY <1>2, ShortStays
  <2> HIDE DEF t
  <2>2. LoopRight(t, e)
    BY <2>1 DEF LoopRight
  <2> QED
    BY <2>1, <2>2 DEF t
<1>3. CASE ~s.short
  <2>1. /\ WholeSoFar(s.out) /\ CallbacksWait(s.ring, c) /\ HeadAfter(s.ring, c)
        /\ s.ring.end = Place(Len(kinds))
        /\ s.up /\ s.keep = 0 /\ s.at + s.left = e /\ s.at = ReplyPlace(c + 1)
    BY <1>1, <1>3 DEF LoopRight
  <2>2. c <= Len(lens) /\ Len(lens) \in Nat /\ Len(lens) = Len(begins)
        /\ Len(lens) <= Len(kinds) /\ Len(kinds) \in Nat /\ answered \in Nat
    BY <2>1 DEF WholeSoFar, StreamTypes, InARow, KindTypes
  <2>3. /\ \A n \in BeginsAt(s.at) : n = c + 1 /\ n \in 1 .. Len(lens)
        /\ BeginsAt(s.at) = {} => s.at = answered + 1
    BY <1>1, <2>1, <2>2, NextBegins
  <2>4. BeginsAt(s.at) # {}
    BY <1>1, <2>1, <2>2, <2>3
  <2>5. c + 1 \in BeginsAt(s.at) /\ c + 1 \in 1 .. Len(lens) /\ lens[c + 1] \in Nat
    BY <2>3, <2>4 DEF StreamTypes
  <2>6. ASSUME t = Keep(s),
               s.left < 4 \/ \E n \in BeginsAt(s.at) : s.left = 4 \/ s.left < lens[n]
        PROVE  LoopRight(t, e) /\ t.left < s.left
    <3>1. /\ t.at = s.at /\ t.left = 0 /\ t.keep = s.left
          /\ t.ring = s.ring /\ t.out = s.out /\ t.up = s.up /\ t.short = s.short
      BY <2>6, KeepIs
    <3>2. Unfinished(s.left, c)
      BY <1>1, <2>2, <2>3, <2>5, <2>6 DEF Unfinished, Header
    <3> HIDE DEF t
    <3> QED
      BY <1>1, <2>1, <3>1, <3>2 DEF LoopRight
  <2>7. ASSUME t = [Drop(s) EXCEPT !.up = FALSE]
        PROVE  LoopRight(t, e) /\ t.left < s.left
    <3>1. /\ t.left = 0 /\ t.keep = s.keep
          /\ t.ring = s.ring /\ t.out = s.out /\ t.up = FALSE /\ t.short = s.short
      BY <2>7, BrokenIs
    <3> HIDE DEF t
    <3> QED
      BY <1>1, <2>1, <3>1 DEF LoopRight
  <2>8. ASSUME NEW n \in BeginsAt(s.at), t = HandOver(NextState(s, n), n, SizeOf(s, n))
        PROVE  LoopRight(t, e) /\ (t.short \/ t.left < s.left)
    <3>1. n = c + 1 /\ n \in 1 .. Len(begins) /\ n \in 1 .. Len(lens) /\ n \in 1 .. Len(kinds)
      BY <2>2, <2>3
    <3>2. SizeOf(s, n) \in Int
      BY <1>1, <2>5, <3>1 DEF SizeOf, Least, Greatest, Header
    <3>3. HandedOver(s, t, n, SizeOf(s, n))
      BY <2>8, <3>1, <3>2, HandOverIs
    <3> HIDE DEF t
    <3>4. CASE t.short
      BY <3>4 DEF LoopRight
    <3>5. CASE ~t.short
      <4>1. s.left >= Header + lens[n] /\ Header = 5 /\ lens[n] \in Nat
        <5>1. ~(s.left < Header + lens[n])
          BY ONLY <3>3, <3>5 DEF HandedOver
        <5> QED
          BY <1>1, <2>5, <3>1, <5>1 DEF Header
      <4>2. t.left >= 0 /\ t.left < s.left
        BY <1>1, <3>3, <4>1 DEF HandedOver
      <4>3. SizeOf(s, n) = lens[n]
        BY <1>1, <4>1 DEF SizeOf, Least, Greatest
      <4>4. /\ NextCallback(s.ring) = IF kinds[n] = "session" THEN n ELSE Nobody
            /\ CallbacksWait(t.ring, n) /\ HeadAfter(t.ring, n)
            /\ t.ring.end = Place(Len(kinds))
        <5>1. t.ring = RingAfter(s.ring)
          BY <3>3 DEF HandedOver
        <5> QED
          BY <1>1, <2>1, <3>1, <5>1, HeadIsNext, RingAfterIs
      <4>5. WholeSoFar(t.out) /\ Len(t.out) = n
        <5> DEFINE item == [to |-> IF kinds[n] = "session" THEN n ELSE Nobody, n |-> n, size |-> lens[n]]
        <5>1. t.out = Append(s.out, item)
          BY <3>3, <4>3, <4>4 DEF HandedOver, Given
        <5>2. Len(t.out) = n /\ t.out[n] = item /\ \A k \in 1 .. c : t.out[k] = s.out[k]
          BY <1>1, <3>1, <5>1
        <5>3. \A k \in 1 .. n : k = n \/ k \in 1 .. c
          BY <1>1, <3>1
        <5> HIDE DEF item
        <5>4. ASSUME NEW k \in 1 .. n
              PROVE  t.out[k] = [to |-> IF kinds[k] = "session" THEN k ELSE Nobody, n |-> k, size |-> lens[k]]
          <6>1. CASE k = n
            BY <5>2, <6>1 DEF item
          <6>2. CASE k \in 1 .. c
            BY <2>1, <5>2, <6>2 DEF WholeSoFar
          <6> QED
            BY <5>3, <6>1, <6>2
        <5> QED
          BY <3>1, <5>2, <5>4 DEF WholeSoFar
      <4>6. t.at + t.left + t.keep = e /\ t.keep = 0 /\ t.up
        <5>1. t.up
          BY ONLY <2>1, <3>3 DEF HandedOver
        <5>2. s.at + s.left = e /\ s.keep = 0
          BY <2>1
        <5>3. /\ t.at = s.at + Header + lens[n] /\ t.keep = s.keep
              /\ t.left = s.left - (Header + lens[n])
          BY <3>3 DEF HandedOver
        <5>4. t.at + t.left + t.keep = e /\ t.keep = 0
          <6>1. s.at \in Int /\ s.left \in Int /\ lens[n] \in Int /\ Header \in Int
            BY <1>1, <4>1
          <6> QED
            BY ONLY <5>2, <5>3, <6>1
        <5> QED
          BY <5>1, <5>4
      <4>7. t.at = ReplyPlace(n + 1)
        <5>1. s.at = begins[n]
          BY <3>1, <2>1 DEF ReplyPlace
        <5>2. begins[n] + Header + lens[n] = ReplyPlace(n + 1)
          BY <3>1 DEF InARow
        <5> QED
          BY <3>3, <5>1, <5>2 DEF HandedOver
      <4>8. LoopRight(t, e)
        BY <4>2, <4>4, <4>5, <4>6, <4>7 DEF LoopRight
      <4> QED
        BY <4>2, <4>8
    <3> QED
      BY <3>4, <3>5
  <2>9. \/ /\ t = Keep(s)
           /\ s.left < 4 \/ \E n \in BeginsAt(s.at) : s.left = 4 \/ s.left < lens[n]
        \/ t = Drop(s) /\ BeginsAt(s.at) = {}
        \/ t = [Drop(s) EXCEPT !.up = FALSE]
        \/ \E n \in BeginsAt(s.at) : t = HandOver(NextState(s, n), n, SizeOf(s, n))
    BY RoundCases
  <2> HIDE DEF t
  <2>10. LoopRight(t, e) /\ (t.short \/ t.left < s.left)
    BY ONLY <2>4, <2>6, <2>7, <2>8, <2>9
  <2> QED
    BY <2>10 DEF t
<1> QED
  BY <1>1, <1>2, <1>3

StateTypes ==
    /\ StreamTypes /\ KindTypes
    /\ Len(lens) <= Len(kinds)
    /\ received \in Nat /\ rbuf \in Nat /\ rbufsz \in Nat \ {0}
    /\ ring \in Rings /\ out \in Seq(Outs) /\ up \in BOOLEAN

RingRight ==
    /\ ring.end = Place(Len(kinds))
    /\ CallbacksWait(ring, Len(out)) /\ HeadAfter(ring, Len(out))

PlaceRight ==
    /\ received <= answered
    /\ received - rbuf + 1 = ReplyPlace(Len(out) + 1)
    /\ rbuf > 0 => Unfinished(rbuf, Len(out))

RightInv ==
    mishaps = {} =>
       /\ SessionsFirst /\ InARow /\ WholeSoFar(out)
       /\ up => RingRight /\ PlaceRight

MrqInv == StateTypes /\ RightInv

LEMMA InitMrq == MrqInit => MrqInv
<1> SUFFICES ASSUME MrqInit PROVE MrqInv
  OBVIOUS
<1>1. RingSize \in Nat /\ RingSize > 0 /\ RBufSize \in Nat \ {0}
  BY RingAssumption, MrqProtocolAssumption
<1>2. /\ kinds = <<>> /\ lens = <<>> /\ begins = <<>> /\ answered = 0 /\ received = 0 /\ rbuf = 0
      /\ rbufsz = RBufSize /\ out = <<>> /\ up = TRUE /\ ring = EmptyRing
  BY DEF MrqInit
<1>3. ring \in Rings /\ ring.start = 0 /\ ring.end = 0
  <2>1. 0 \in 0 .. RingSize - 1 /\ 0 \in Nat
    BY <1>1
  <2> QED
    BY <1>2, <2>1 DEF Rings, EmptyRing, Nobody
<1>4. StateTypes
  BY <1>1, <1>2, <1>3 DEF StateTypes, StreamTypes, KindTypes
<1>5. Place(0) = 0
  BY <1>1 DEF Place
<1>6. SessionsFirst /\ WholeSoFar(out) /\ CallbacksWait(ring, 0)
  BY <1>2 DEF SessionsFirst, WholeSoFar, CallbacksWait
<1>7. InARow /\ PlaceRight
  BY <1>2 DEF InARow, PlaceRight, ReplyPlace
<1>8. HeadAfter(ring, 0)
  <2>1. 0 \in 0 .. 0 /\ \A n \in 1 .. 0 : kinds[n] = "session" <=> n <= 0
    OBVIOUS
  <2> QED
    BY <1>3, <1>5, <2>1 DEF HeadAfter
<1>9. RingRight
  BY <1>2, <1>3, <1>5, <1>6, <1>8 DEF RingRight
<1> QED
  BY <1>4, <1>6, <1>7, <1>9 DEF MrqInv, RightInv

(* A session that waits for its reply is outstanding: the ring is overrun  *)
(* when its slot is taken.                                                 *)
LEMMA WaitingOutstanding ==
    ASSUME StateTypes, WholeSoFar(out),
           NEW n \in 1 .. Len(kinds), kinds[n] = "session", n > Len(out)
    PROVE  n \in Outstanding
<1>1. ASSUME NEW k \in 1 .. Len(out), out[k].to = n PROVE FALSE
  <2>1. out[k].to = IF kinds[k] = "session" THEN k ELSE Nobody
    <3>1. out[k] = [to |-> IF kinds[k] = "session" THEN k ELSE Nobody, n |-> k, size |-> lens[k]]
      BY DEF WholeSoFar
    <3> QED
      BY ONLY <3>1
  <2>2. Len(out) \in Nat /\ Len(kinds) \in Nat /\ Nobody = 0
    BY DEF Nobody, StateTypes, KindTypes
  <2> QED
    BY <1>1, <2>1, <2>2
<1> QED
  BY <1>1 DEF Outstanding

(* A request puts its callback in the slot of its number.                  *)
LEMMA AskedRight ==
    ASSUME StateTypes, RightInv, up, NEW kind \in {"job", "session"}, NEW cb,
           cb = IF kind = "session" THEN Len(kinds) + 1 ELSE Nobody,
           kinds' = Append(kinds, kind), ring' = PushCallback(ring, cb),
           mishaps' = {} => /\ mishaps = {} /\ ~Overruns
                            /\ kind = "session" => ~SpoiltCommand(Len(kinds) + 1),
           UNCHANGED <<lens, begins, answered, received, rbuf, rbufsz, out, up>>
    PROVE  StateTypes' /\ RightInv'
<1> DEFINE n == Len(kinds) + 1
           en == (ring.end + 1) % RingSize
<1>1. /\ Len(kinds) \in Nat /\ Len(kinds') = n /\ kinds' \in Seq({"job", "session"}) /\ kinds'[n] = kind
      /\ \A m \in 1 .. Len(kinds) : kinds'[m] = kinds[m]
  BY DEF StateTypes, KindTypes
<1>2. RingSize \in Nat /\ RingSize > 0
  BY RingAssumption, MrqProtocolAssumption
<1>3. cb \in Nat
  BY <1>1 DEF Nobody
<1>4. ring \in Rings /\ ring.end \in 0 .. RingSize - 1 /\ en \in 0 .. RingSize - 1
  <2>1. ring \in Rings /\ ring.end \in 0 .. RingSize - 1
    BY DEF StateTypes, Rings
  <2>2. ring.end + 1 \in Nat
    BY <2>1
  <2> QED
    BY <1>2, <2>1, <2>2
<1>5. /\ ring' \in Rings /\ ring'.start = ring.start /\ ring'.end = en
      /\ ring'.slot = [ring.slot EXCEPT ![ring.end] = cb]
  <2>1. ring' = [ring EXCEPT !.slot = [ring.slot EXCEPT ![ring.end] = cb], !.end = en]
    BY <1>4 DEF PushCallback, Rings
  <2>2. [ring.slot EXCEPT ![ring.end] = cb] \in [0 .. RingSize - 1 -> Nat]
    BY <1>3, <1>4 DEF Rings
  <2> HIDE DEF en
  <2> QED
    BY <1>4, <2>1, <2>2 DEF Rings
<1>6. StateTypes'
  <2>1. Len(lens') <= Len(kinds')
    BY <1>1 DEF StateTypes, StreamTypes
  <2> QED
    BY <1>1, <1>5, <2>1 DEF StateTypes, StreamTypes, KindTypes
<1>7. RightInv'
  <2> SUFFICES ASSUME mishaps' = {}
               PROVE  /\ SessionsFirst' /\ InARow' /\ WholeSoFar(out)'
                      /\ RingRight' /\ PlaceRight'
    BY DEF RightInv
  <2>1. /\ SessionsFirst /\ InARow /\ WholeSoFar(out) /\ RingRight /\ PlaceRight
        /\ ~Overruns /\ (kind = "session" => ~SpoiltCommand(n))
    BY DEF RightInv
  <2>2. Len(out) \in Nat /\ Len(lens) \in Nat /\ Len(out) <= Len(lens) /\ Len(lens) <= Len(kinds)
    BY <2>1 DEF WholeSoFar, StateTypes, StreamTypes
  <2>3. SessionsFirst'
    <3> SUFFICES ASSUME NEW a \in 1 .. n, NEW b \in 1 .. a, kinds'[a] = "session"
                 PROVE  kinds'[b] = "session"
      BY <1>1 DEF SessionsFirst
    <3>1. CASE a # n
      BY <1>1, <2>1, <3>1 DEF SessionsFirst
    <3>2. CASE a = n /\ b = n
      BY <3>2
    <3>3. CASE a = n /\ b # n
      <4>1. b \in 1 .. Len(kinds) /\ b \in 1 .. n - 1 /\ kinds[b] \in {"job", "session"}
        BY <1>1, <3>3 DEF StateTypes, KindTypes
      <4>2. kinds[b] # "job"
        BY <1>1, <2>1, <3>3, <4>1 DEF SpoiltCommand
      <4> QED
        BY <1>1, <4>1, <4>2
    <3> QED
      BY <3>1, <3>2, <3>3
  <2>4. InARow' /\ PlaceRight'
    <3>1. \A m : ReplyPlace(m)' = ReplyPlace(m)
      BY DEF ReplyPlace
    <3>2. InARow'
      BY <1>1, <2>1, <2>2, <3>1 DEF InARow
    <3> QED
      BY <2>1, <3>1, <3>2 DEF PlaceRight, Unfinished
  <2>5. WholeSoFar(out)'
    BY <1>1, <2>1, <2>2 DEF WholeSoFar
  <2>6. ring'.end = Place(n)
    BY <1>1, <1>5, <2>1, PlaceIs DEF RingRight
  <2>7. CallbacksWait(ring, Len(out))'
    <3> SUFFICES ASSUME NEW m \in 1 .. n
                 PROVE  /\ kinds'[m] = "job" => ring'.slot[Place(m - 1)] = Nobody
                        /\ (kinds'[m] = "session" /\ m > Len(out)) => ring'.slot[Place(m - 1)] = m
      BY <1>1 DEF CallbacksWait
    <3>1. m - 1 \in Nat /\ Place(m - 1) \in 0 .. RingSize - 1 /\ DOMAIN ring.slot = 0 .. RingSize - 1
      <4>1. m - 1 \in Nat
        BY <1>1
      <4> QED
        BY <1>4, <4>1, PlaceIs DEF Rings
    <3>2. CASE m = n
      <4>1. Place(m - 1) = ring.end
        BY <1>1, <2>1, <3>2 DEF RingRight
      <4> QED
        BY <1>1, <1>4, <1>5, <3>1, <3>2, <4>1
    <3>3. CASE m # n /\ Place(m - 1) # ring.end
      <4>1. m \in 1 .. Len(kinds) /\ kinds'[m] = kinds[m]
        BY <1>1, <3>3
      <4>2. ring'.slot[Place(m - 1)] = ring.slot[Place(m - 1)]
        BY <1>5, <3>1, <3>3
      <4> QED
        BY <2>1, <4>1, <4>2 DEF RingRight, CallbacksWait
    <3>4. CASE m # n /\ Place(m - 1) = ring.end
      <4>1. m \in 1 .. Len(kinds) /\ kinds'[m] = kinds[m]
        BY <1>1, <3>4
      <4>2. ~(kinds[m] = "session" /\ m > Len(out))
        <5> SUFFICES ASSUME kinds[m] = "session", m > Len(out) PROVE FALSE
          OBVIOUS
        <5>1. ring.slot[ring.end] = m
          BY <2>1, <3>4, <4>1 DEF RingRight, CallbacksWait
        <5>2. m \in Outstanding
          BY <2>1, <4>1, WaitingOutstanding
        <5> QED
          BY <2>1, <5>1, <5>2 DEF Overruns
      <4>3. kinds[m] = "job" => kind = "job"
        <5> SUFFICES ASSUME kinds[m] = "job", kind = "session" PROVE FALSE
          OBVIOUS
        <5>1. m \in 1 .. n - 1
          BY <1>1, <4>1
        <5> QED
          BY <2>1, <5>1 DEF SpoiltCommand
      <4>4. ring'.slot[Place(m - 1)] = cb
        BY <1>5, <3>1, <3>4
      <4> QED
        BY <4>1, <4>2, <4>3, <4>4
    <3> QED
      BY <3>2, <3>3, <3>4
  <2>8. HeadAfter(ring, Len(out))'
    <3>1. PICK p \in 0 .. Len(out) : ring.start = Place(p) /\ \A m \in 1 .. Len(out) : kinds[m] = "session" <=> m <= p
      BY <2>1 DEF RingRight, HeadAfter
    <3>2. ring'.start = Place(p)
      BY <1>5, <3>1
    <3>3. \A m \in 1 .. Len(out) : kinds'[m] = "session" <=> m <= p
      BY <1>1, <2>2, <3>1
    <3> QED
      BY <3>2, <3>3 DEF HeadAfter
  <2>9. RingRight'
    BY <1>1, <2>6, <2>7, <2>8 DEF RingRight
  <2> QED
    BY <2>1, <2>3, <2>4, <2>5, <2>9
<1> QED
  BY <1>6, <1>7

(* The next reply lies behind those before.                                *)
LEMMA AnsweredRight ==
    ASSUME MrqInv, NEW len \in Nat, Answered(len)
    PROVE  MrqInv'
<1> DEFINE n == Len(lens) + 1
<1>1. /\ StateTypes /\ RightInv /\ lens \in Seq(Nat) /\ begins \in Seq(Nat) /\ Len(begins) = Len(lens)
      /\ Len(lens) \in Nat /\ answered \in Nat /\ Header = 5
  BY DEF MrqInv, StateTypes, StreamTypes, KindTypes, Header
<1>2. /\ n <= Len(kinds) /\ lens' = Append(lens, len) /\ begins' = Append(begins, answered + 1)
      /\ answered' = answered + Header + len
      /\ UNCHANGED <<kinds, received, rbuf, rbufsz, ring, out, up, mishaps>>
  BY DEF Answered
<1>3. /\ lens' \in Seq(Nat) /\ begins' \in Seq(Nat) /\ Len(lens') = n /\ Len(begins') = n
      /\ answered' \in Nat /\ lens'[n] = len /\ begins'[n] = answered + 1
      /\ \A m \in 1 .. Len(lens) : lens'[m] = lens[m] /\ begins'[m] = begins[m]
  BY <1>1, <1>2
<1>4. StateTypes'
  BY <1>1, <1>2, <1>3 DEF StateTypes, StreamTypes, KindTypes
<1>5. RightInv'
  <2> SUFFICES ASSUME mishaps' = {}
               PROVE  /\ SessionsFirst' /\ InARow' /\ WholeSoFar(out)'
                      /\ up' => RingRight' /\ PlaceRight'
    BY DEF RightInv
  <2>1. /\ SessionsFirst /\ InARow /\ WholeSoFar(out) /\ (up => RingRight /\ PlaceRight)
    BY <1>1, <1>2 DEF RightInv
  <2>2. Len(out) \in Nat /\ Len(out) <= Len(lens)
    BY <1>1, <2>1 DEF WholeSoFar, StateTypes
  <2>3. \A m \in 1 .. n : ReplyPlace(m)' = ReplyPlace(m)
    BY <1>1, <1>3 DEF ReplyPlace
  <2>4. ReplyPlace(n + 1)' = answered' + 1 /\ ReplyPlace(n) = answered + 1
    BY <1>1, <1>3 DEF ReplyPlace
  <2>5. \A m \in 1 .. Len(lens) : begins[m] + 5 + lens[m] <= answered + 1 /\ begins[m] < answered + 1
    BY <1>1, <2>1 DEF InARow
  <2>6. InARow'
    <3>1. Len(lens') <= Len(kinds') /\ ReplyPlace(1)' = 1
      BY <1>1, <1>2, <1>3, <2>1, <2>3 DEF InARow
    <3>2. ASSUME NEW m \in 1 .. n
          PROVE  /\ begins'[m] + Header + lens'[m] = ReplyPlace(m + 1)'
                 /\ begins'[m] + Header + lens'[m] <= answered' + 1
      <4>1. CASE m = n
        <5>1. begins'[n] + Header + lens'[n] = answered' + 1 /\ answered' + 1 \in Nat
          BY <1>1, <1>2, <1>3
        <5>2. begins'[n] + Header + lens'[n] <= answered' + 1
          BY <5>1
        <5>3. ReplyPlace(m + 1)' = answered' + 1
          BY <1>1, <1>3, <4>1 DEF ReplyPlace
        <5> QED
          BY <4>1, <5>1, <5>2, <5>3
      <4>2. CASE m # n
        <5>1. m \in 1 .. Len(lens) /\ m + 1 \in 1 .. n /\ lens[m] \in Nat /\ begins[m] \in Nat
          BY <1>1, <4>2
        <5>2. begins[m] + Header + lens[m] = ReplyPlace(m + 1)
          BY <2>1, <5>1 DEF InARow
        <5>3. begins'[m] = begins[m] /\ lens'[m] = lens[m]
          BY <1>3, <5>1
        <5>4. ReplyPlace(m + 1)' = ReplyPlace(m + 1)
          BY <2>3, <5>1
        <5>5. begins[m] + Header + lens[m] <= answered' + 1
          <6>1. begins[m] + Header + lens[m] <= answered + 1
            BY <2>5, <5>1 DEF Header
          <6>2. answered \in Nat /\ answered' \in Nat /\ answered <= answered' /\ Header \in Nat
            BY <1>1, <1>2 DEF Header
          <6>3. begins[m] + Header + lens[m] \in Nat
            BY <5>1, <6>2
          <6> QED
            BY ONLY <6>1, <6>2, <6>3
        <5> QED
          BY ONLY <5>2, <5>3, <5>4, <5>5
      <4> QED
        BY <4>1, <4>2
    <3>3. ASSUME NEW a \in 1 .. n, NEW b \in 1 .. n, a < b PROVE begins'[a] < begins'[b]
      <4>1. a \in 1 .. Len(lens)
        BY <1>1, <3>3
      <4>2. CASE b = n
        BY <1>1, <1>3, <2>5, <4>1, <4>2
      <4>3. CASE b # n
        <5>1. b \in 1 .. Len(lens)
          BY <1>1, <4>3
        <5> QED
          BY <1>3, <2>1, <3>3, <4>1, <5>1 DEF InARow
      <4> QED
        BY <4>2, <4>3
    <3> QED
      BY <1>3, <3>1, <3>2, <3>3 DEF InARow
  <2>7. SessionsFirst' /\ WholeSoFar(out)'
    <3>1. SessionsFirst'
      BY <1>2, <2>1 DEF SessionsFirst
    <3>2. WholeSoFar(out)'
      BY <1>1, <1>2, <1>3, <2>1, <2>2 DEF WholeSoFar
    <3> QED
      BY <3>1, <3>2
  <2>8. ASSUME up' PROVE RingRight' /\ PlaceRight'
    <3>1. RingRight /\ PlaceRight
      BY <1>2, <2>1, <2>8
    <3>2. RingRight'
      BY <1>2, <3>1 DEF RingRight, CallbacksWait, HeadAfter
    <3>3. ReplyPlace(Len(out) + 1)' = ReplyPlace(Len(out) + 1)
      BY <1>1, <1>2, <2>2, <2>3
    <3>4. received' <= answered'
      BY <1>1, <1>2, <3>1 DEF PlaceRight, StateTypes
    <3>5. rbuf' > 0 => Unfinished(rbuf, Len(out))'
      <4> SUFFICES ASSUME rbuf > 0 PROVE Len(out) < n /\ rbuf < Header + lens'[Len(out) + 1]
        BY <1>2, <1>3 DEF Unfinished
      <4>1. Len(out) < Len(lens) /\ rbuf < Header + lens[Len(out) + 1]
        BY <3>1 DEF PlaceRight, Unfinished
      <4>2. Len(out) + 1 \in 1 .. Len(lens)
        BY <1>1, <2>2, <4>1
      <4> QED
        BY <1>1, <1>3, <2>2, <4>1, <4>2
    <3> QED
      BY <1>2, <3>1, <3>2, <3>3, <3>4, <3>5 DEF PlaceRight
  <2> QED
    BY <2>1, <2>6, <2>7, <2>8
<1> QED
  BY <1>4, <1>5 DEF MrqInv

(* Only what is spoilt stays without an answer.                            *)
LEMMA IgnoredRight ==
    ASSUME MrqInv, Ignored
    PROVE  MrqInv'
<1> DEFINE n == Len(lens) + 1
<1>1. /\ StateTypes /\ RightInv /\ lens \in Seq(Nat) /\ begins \in Seq(Nat) /\ Len(begins) = Len(lens)
      /\ Len(lens) \in Nat /\ kinds \in Seq({"job", "session"}) /\ Len(kinds) \in Nat
  BY DEF MrqInv, StateTypes, StreamTypes, KindTypes
<1>2. /\ n <= Len(kinds) /\ kinds[n] = "session" /\ SpoiltCommand(n)
      /\ lens' = Append(lens, 0) /\ begins' = Append(begins, 0)
      /\ UNCHANGED <<kinds, answered, received, rbuf, rbufsz, ring, out, up, mishaps>>
  BY DEF Ignored
<1>3. lens' \in Seq(Nat) /\ begins' \in Seq(Nat) /\ Len(lens') = n /\ Len(begins') = n
  BY <1>1, <1>2
<1>4. StateTypes'
  BY <1>1, <1>2, <1>3 DEF StateTypes, StreamTypes, KindTypes
<1>5. mishaps # {}
  <2> SUFFICES ASSUME SessionsFirst PROVE FALSE
    BY <1>1 DEF RightInv
  <2>1. PICK m \in 1 .. n - 1 : kinds[m] = "job"
    BY <1>2 DEF SpoiltCommand
  <2>2. n \in 1 .. Len(kinds) /\ m \in 1 .. n
    BY <1>1, <1>2
  <2> QED
    BY <1>2, <2>1, <2>2 DEF SessionsFirst
<1>6. RightInv'
  BY <1>2, <1>5 DEF RightInv
<1> QED
  BY <1>4, <1>6 DEF MrqInv

(* A whole call of data_received: the loop starts where the next reply     *)
(* begins and ends with no byte left.                                      *)
LoopStart(k) ==
    [at |-> received - rbuf + 1, left |-> rbuf + k, keep |-> 0, kept |-> rbuf,
     ring |-> ring, out |-> out, up |-> TRUE, short |-> FALSE]

LEMMA LoopEnds ==
    ASSUME AllRight, NEW s \in LoopStates, s.left \in Nat, NEW stale \in Stales,
           NEW e \in Nat, e <= answered + 1, LoopRight(s, e)
    PROVE  LET t == Replies(s, stale)
           IN  t \in LoopStates /\ LoopRight(t, e) /\ (t.short \/ t.left <= 0)
<1> DEFINE t == Replies(s, stale)
           D == 0 .. s.left
<1>1. PICK f \in [D -> LoopStates] :
              /\ f[0] = s
              /\ \A r \in 1 .. s.left : f[r] = Round(f[r - 1], stale)
              /\ t = f[s.left]
  BY LoopIs DEF AllRight
<1> HIDE DEF t
<1> DEFINE done(r) == LoopRight(f[r], e) /\ (f[r].short \/ f[r].left <= 0 \/ f[r].left <= s.left - r)
           T == {r \in Nat : r \in D => done(r)}
<1>2. 0 \in T
  BY <1>1
<1>3. ASSUME NEW r \in Nat, r \in T PROVE r + 1 \in T
  <2> SUFFICES ASSUME r + 1 \in D PROVE done(r + 1)
    OBVIOUS
  <2> DEFINE a == f[r]
             b == f[r + 1]
  <2>1. r \in D /\ r + 1 \in 1 .. s.left /\ (r + 1) - 1 = r
    OBVIOUS
  <2>2. a \in LoopStates /\ b \in LoopStates /\ b = Round(a, stale) /\ a.left \in Int /\ b.left \in Int
    BY <1>1, <2>1 DEF LoopStates
  <2>3. LoopRight(a, e) /\ (a.short \/ a.left <= 0 \/ a.left <= s.left - r)
    BY <1>3, <2>1
  <2> HIDE DEF a, b
  <2>4. CASE a.left <= 0
    <3>1. b = a
      BY <2>2, <2>4 DEF Round
    <3> QED
      BY <2>3, <2>4, <3>1 DEF a, b
  <2>5. CASE a.left > 0
    <3>1. LoopRight(b, e) /\ (b.short \/ b.left < a.left)
      BY <2>2, <2>3, <2>5, RoundRight
    <3>2. a.short => b.short
      <4>1. CASE a.short
        BY <2>2, <2>5, <4>1, ShortStays DEF AllRight
      <4> QED
        BY <4>1
    <3>3. b.short \/ b.left <= s.left - (r + 1)
      <4> SUFFICES ASSUME ~b.short PROVE b.left <= s.left - (r + 1)
        OBVIOUS
      <4>1. ~a.short
        BY <3>2
      <4>2. b.left < a.left
        BY ONLY <3>1, ~b.short
      <4>3. a.left <= 0 \/ a.left <= s.left - r
        BY ONLY <2>3, <4>1
      <4> QED
        BY <2>2, <2>5, <4>2, <4>3
    <3> QED
      BY <3>1, <3>3 DEF a, b
  <2> QED
    BY <2>2, <2>4, <2>5
<1>4. Nat \subseteq T
  <2> HIDE DEF T
  <2> QED
    BY <1>2, <1>3, Induction
<1>5. s.left \in D /\ s.left \in T
  BY <1>4
<1>6. t \in LoopStates /\ LoopRight(t, e) /\ (t.short \/ t.left <= 0 \/ t.left <= s.left - s.left)
  BY <1>1, <1>5
<1>7. t.short \/ t.left <= 0
  <2>1. t.left \in Int
    BY <1>6 DEF LoopStates
  <2>2. t.left <= s.left - s.left => t.left <= 0
    BY <2>1
  <2> QED
    BY ONLY <1>6, <2>2
<1> QED
  BY <1>6, <1>7 DEF t

LEMMA ReceivedRight ==
    ASSUME MrqInv, NEW k \in 1 .. answered - received, NEW stale \in StaleBytes(k),
           DataReceived(k, stale)
    PROVE  MrqInv'
<1> DEFINE s == LoopStart(k)
           t == Replies(s, stale)
           e == received + k + 1
           room == RoomInRbuf(rbufsz, rbuf, k)
<1>1. /\ StateTypes /\ RightInv /\ answered \in Nat /\ received \in Nat /\ rbuf \in Nat /\ rbufsz \in Nat \ {0}
      /\ ring \in Rings /\ out \in Seq(Outs) /\ StreamTypes /\ KindTypes
      /\ k \in Nat /\ received + k <= answered /\ received + k >= received
  BY DEF MrqInv, StateTypes, KindTypes
<1>2. stale \in Stales
  BY DEF StaleBytes, Stales
<1>3. /\ up /\ received' = received + k /\ rbuf' = t.keep
      /\ rbufsz' = (IF t.keep > 0 THEN Doubled(room, k) ELSE room)
      /\ ring' = t.ring /\ out' = t.out /\ up' = t.up
      /\ mishaps' = mishaps \cup (IF t.short THEN {"short"} ELSE {})
      /\ UNCHANGED <<kinds, lens, begins, answered>>
  BY DEF DataReceived, LoopStart
<1>4. /\ s \in LoopStates /\ s.left \in Nat /\ s.left = rbuf + k /\ s.at = received - rbuf + 1 /\ s.keep = 0
      /\ s.ring = ring /\ s.out = out
  BY <1>1 DEF LoopStart, LoopStates
<1>5. s.up = TRUE /\ s.short = FALSE
  BY DEF LoopStart
<1> HIDE DEF s
<1>6. t \in LoopStates
  <2>1. PICK f \in [0 .. s.left -> LoopStates] : t = f[s.left]
    <3> HIDE DEF t
    <3>1. \E f \in [0 .. s.left -> LoopStates] :
             /\ f[0] = s
             /\ \A r \in 1 .. s.left : f[r] = Round(f[r - 1], stale)
             /\ t = f[s.left]
      BY <1>1, <1>2, <1>4, LoopIs DEF t
    <3> QED
      BY ONLY <3>1
  <2> QED
    BY <1>4, <2>1
<1> HIDE DEF t
<1>7. t.keep \in Nat /\ t.ring \in Rings /\ t.out \in Seq(Outs) /\ t.left \in Int /\ t.at \in Int
  BY <1>6 DEF LoopStates
<1>8. t.up \in BOOLEAN
  BY <1>6 DEF LoopStates
<1>9. rbufsz' \in Nat \ {0}
  <2>1. room \in Nat \ {0}
    <3>1. rbuf + k \in Nat
      BY <1>1
    <3>2. Doubled(rbufsz, rbuf + k) \in Nat /\ Doubled(rbufsz, rbuf + k) >= rbufsz
      BY <1>1, <3>1, DoubledFits
    <3> QED
      BY <1>1, <3>2 DEF RoomInRbuf
  <2>2. Doubled(room, k) \in Nat \ {0}
    <3> HIDE DEF room
    <3>1. room \in Nat /\ Doubled(room, k) \in Nat /\ Doubled(room, k) >= room
      BY <1>1, <2>1, DoubledFits
    <3> QED
      BY <2>1, <3>1
  <2> QED
    BY <1>3, <2>1, <2>2
<1>10. StateTypes'
  <2>1. StreamTypes' /\ KindTypes' /\ Len(lens') <= Len(kinds')
    BY <1>1, <1>3 DEF StateTypes, StreamTypes, KindTypes
  <2>2. received' \in Nat /\ rbuf' \in Nat
    BY <1>1, <1>3, <1>7
  <2>3. ring' \in Rings /\ out' \in Seq(Outs)
    BY <1>3, <1>7
  <2>4. up' \in BOOLEAN
    BY <1>3, <1>8
  <2> QED
    BY <1>9, <2>1, <2>2, <2>3, <2>4 DEF StateTypes
<1>11. RightInv'
  <2> SUFFICES ASSUME mishaps' = {}
               PROVE  /\ SessionsFirst' /\ InARow' /\ WholeSoFar(out)'
                      /\ up' => RingRight' /\ PlaceRight'
    BY DEF RightInv
  <2>1. mishaps = {} /\ ~t.short
    BY <1>3
  <2>2. SessionsFirst /\ InARow /\ WholeSoFar(out) /\ RingRight /\ PlaceRight
    BY <1>1, <1>3, <2>1 DEF RightInv
  <2>3. e \in Nat /\ e <= answered + 1
    BY <1>1
  <2>4. LoopRight(s, e)
    <3>1. s.left >= 0 /\ s.at + s.left + s.keep = e /\ ~(s.keep > 0)
      BY <1>1, <1>4
    <3>2. s.at = ReplyPlace(Len(s.out) + 1)
      BY <1>4, <2>2 DEF PlaceRight
    <3>3. WholeSoFar(s.out) /\ CallbacksWait(s.ring, Len(s.out)) /\ HeadAfter(s.ring, Len(s.out))
         /\ s.ring.end = Place(Len(kinds))
      BY <1>4, <2>2 DEF RingRight
    <3> QED
      BY <1>4, <1>5, <3>1, <3>2, <3>3 DEF LoopRight
  <2>5. LoopRight(t, e) /\ (t.short \/ t.left <= 0)
    <3> HIDE DEF e
    <3> QED
      BY <1>1, <1>2, <1>4, <2>2, <2>3, <2>4, LoopEnds DEF t, AllRight
  <2>6. /\ t.left = 0
        /\ WholeSoFar(t.out) /\ CallbacksWait(t.ring, Len(t.out)) /\ HeadAfter(t.ring, Len(t.out))
        /\ t.ring.end = Place(Len(kinds))
    BY <1>7, <2>1, <2>5 DEF LoopRight
  <2>7. t.up => t.at + t.left + t.keep = e /\ t.at = ReplyPlace(Len(t.out) + 1)
    BY <2>1, <2>5 DEF LoopRight
  <2>8. t.keep > 0 => Unfinished(t.keep, Len(t.out))
    BY <2>1, <2>5 DEF LoopRight
  <2>9. SessionsFirst' /\ InARow'
    <3>1. SessionsFirst'
      BY <1>3, <2>2 DEF SessionsFirst
    <3>2. InARow'
      BY <1>3, <2>2 DEF InARow, ReplyPlace
    <3> QED
      BY <3>1, <3>2
  <2>10. WholeSoFar(out)'
    BY <1>3, <2>6 DEF WholeSoFar
  <2>11. RingRight'
    <3>2. ring'.end = Place(Len(kinds'))
      BY <1>3, <2>6
    <3>3. CallbacksWait(ring, Len(out))' /\ HeadAfter(ring, Len(out))'
      BY <1>3, <2>6 DEF CallbacksWait, HeadAfter
    <3> QED
      BY <3>2, <3>3 DEF RingRight
  <2>12. ASSUME up' PROVE PlaceRight'
    <3>1. t.up
      BY <1>3, <2>12
    <3>2. t.at + t.left + t.keep = e /\ t.at = ReplyPlace(Len(t.out) + 1)
      BY <2>7, <3>1
    <3>3. received' - rbuf' + 1 = t.at
      <4>1. t.at + t.keep = received + k + 1
        BY <1>7, <2>6, <3>2
      <4>2. received' = received + k /\ rbuf' = t.keep
        BY <1>3
      <4> QED
        BY <1>1, <1>7, <4>1, <4>2
    <3>4. ReplyPlace(Len(out) + 1)' = ReplyPlace(Len(t.out) + 1)
      BY <1>3 DEF ReplyPlace
    <3>5. rbuf' > 0 => Unfinished(rbuf, Len(out))'
      BY <1>3, <2>8 DEF Unfinished
    <3>6. received' <= answered'
      BY <1>1, <1>3
    <3> QED
      BY <3>2, <3>3, <3>4, <3>5, <3>6 DEF PlaceRight
  <2> QED
    BY <2>9, <2>10, <2>11, <2>12
<1> QED
  BY <1>10, <1>11 DEF MrqInv

LEMMA LostRight ==
    ASSUME MrqInv, ConnectionLost
    PROVE  MrqInv'
<1>1. StateTypes /\ RightInv
  BY DEF MrqInv
<1>2. /\ up' = FALSE /\ rbuf' = 0
      /\ UNCHANGED <<kinds, lens, begins, answered, received, rbufsz, ring, out, mishaps>>
  BY DEF ConnectionLost
<1>3. StateTypes'
  <2>1. up' \in BOOLEAN /\ rbuf' \in Nat
    BY <1>2
  <2> QED
    BY <1>1, <1>2, <2>1 DEF StateTypes, StreamTypes, KindTypes
<1>4. RightInv'
  BY <1>1, <1>2 DEF RightInv, SessionsFirst, InARow, ReplyPlace, WholeSoFar
<1> QED
  BY <1>3, <1>4 DEF MrqInv

LEMMA AskingRight ==
    ASSUME MrqInv, Get \/ GetSession
    PROVE  MrqInv'
<1>1. StateTypes /\ RightInv
  BY DEF MrqInv
<1>2. CASE Get
  <2>1. /\ up /\ kinds' = Append(kinds, "job") /\ ring' = PushCallback(ring, Nobody)
        /\ mishaps' = mishaps \cup (IF Overruns THEN {"ring overrun"} ELSE {})
        /\ UNCHANGED <<lens, begins, answered, received, rbuf, rbufsz, out, up>>
    BY <1>2 DEF Get
  <2>2. mishaps' = {} => mishaps = {} /\ ~Overruns
    BY <2>1
  <2>3. StateTypes' /\ RightInv'
    BY <1>1, <2>1, <2>2, AskedRight
  <2> QED
    BY <2>3 DEF MrqInv
<1>3. CASE GetSession
  <2> DEFINE n == Len(kinds) + 1
  <2>1. /\ up /\ kinds' = Append(kinds, "session") /\ ring' = PushCallback(ring, n)
        /\ mishaps' = mishaps \cup (IF SpoiltCommand(n) THEN {"mixed"} ELSE {})
                           \cup (IF Overruns THEN {"ring overrun"} ELSE {})
        /\ UNCHANGED <<lens, begins, answered, received, rbuf, rbufsz, out, up>>
    BY <1>3 DEF GetSession
  <2>2. mishaps' = {} => mishaps = {} /\ ~Overruns /\ ~SpoiltCommand(n)
    BY <2>1
  <2>3. StateTypes' /\ RightInv'
    BY <1>1, <2>1, <2>2, AskedRight
  <2> QED
    BY <2>3 DEF MrqInv
<1> QED
  BY <1>2, <1>3

LEMMA NextMrq == MrqInv /\ [MrqNext]_mrqVars => MrqInv'
<1> SUFFICES ASSUME MrqInv, [MrqNext]_mrqVars PROVE MrqInv'
  OBVIOUS
<1>1. CASE Get \/ GetSession
  BY <1>1, AskingRight
<1>2. ASSUME NEW len \in ReplySizes, Answered(len) PROVE MrqInv'
  <2>1. len \in Nat
    BY RingAssumption, MrqProtocolAssumption
  <2> QED
    BY <1>2, <2>1, AnsweredRight
<1>3. CASE Ignored
  BY <1>3, IgnoredRight
<1>4. ASSUME NEW k \in 1 .. answered - received, NEW stale \in StaleBytes(k), DataReceived(k, stale)
      PROVE  MrqInv'
  BY <1>4, ReceivedRight
<1>5. CASE ConnectionLost
  BY <1>5, LostRight
<1>6. CASE UNCHANGED mrqVars
  BY <1>6 DEF mrqVars, MrqInv, StateTypes, StreamTypes, KindTypes, RightInv, SessionsFirst, InARow,
     ReplyPlace, WholeSoFar, RingRight, CallbacksWait, HeadAfter, PlaceRight, Unfinished
<1> QED
  BY <1>1, <1>2, <1>3, <1>4, <1>5, <1>6 DEF MrqNext

LEMMA MrqInvariance == MrqSpec => []MrqInv
<1>1. MrqInit => MrqInv
  BY InitMrq
<1>2. MrqInv /\ [MrqNext]_mrqVars => MrqInv'
  BY NextMrq
<1> QED
  BY <1>1, <1>2, PTL DEF MrqSpec

(* However the stream of replies is cut, and however long it is: as long   *)
(* as no session is asked for behind a job, the ring is not overrun and no *)
(* reply is given away without its last bytes, every reply that has come   *)
(* in whole has gone to the one who asked for it (data_received of         *)
(* mrqprotocol.c), and nothing but an unfinished one is held back.         *)
THEOREM RepliesHandedOverAlways ==
    MrqSpec => []RepliesHandedOver
<1>1. ASSUME MrqInv PROVE RepliesHandedOver
  <2>1. StateTypes /\ RightInv /\ StreamTypes /\ KindTypes /\ answered \in Nat /\ received \in Nat /\ rbuf \in Nat
        /\ Len(out) \in Nat /\ Len(lens) \in Nat
    BY <1>1 DEF MrqInv, StateTypes, StreamTypes, KindTypes
  <2>2. OwnReplyWhole
    BY <2>1 DEF RightInv, WholeSoFar, OwnReplyWhole
  <2>3. ASSUME up, mishaps = {}, received = answered PROVE rbuf = 0 /\ Len(out) = Len(lens)
    <3>1. InARow /\ WholeSoFar(out) /\ PlaceRight
      BY <2>1, <2>3 DEF RightInv
    <3>2. Len(out) <= Len(lens)
      BY <3>1 DEF WholeSoFar
    <3>3. Len(out) = Len(lens)
      <4> SUFFICES ASSUME Len(out) # Len(lens) PROVE FALSE
        OBVIOUS
      <4>1. Len(out) + 1 \in 1 .. Len(lens)
        BY <2>1, <3>2
      <4>2. received - rbuf + 1 = begins[Len(out) + 1]
        BY <3>1, <4>1 DEF PlaceRight, ReplyPlace
      <4>3. begins[Len(out) + 1] + 5 + lens[Len(out) + 1] <= answered + 1
        BY <3>1, <4>1 DEF InARow, Header
      <4>4. lens[Len(out) + 1] \in Nat
        BY <2>1, <4>1 DEF StreamTypes
      <4>5. rbuf > 0 => rbuf < 5 + lens[Len(out) + 1]
        BY <3>1 DEF PlaceRight, Unfinished, Header
      <4> QED
        BY <2>1, <2>3, <4>2, <4>3, <4>4, <4>5
    <3>4. rbuf = 0
      <4>1. ~(rbuf > 0)
        BY <2>1, <3>1, <3>3 DEF PlaceRight, Unfinished
      <4> QED
        BY <2>1, <4>1
    <3> QED
      BY <3>3, <3>4
  <2>4. NothingHeldBack
    BY <2>3 DEF NothingHeldBack
  <2> QED
    BY <2>2, <2>4 DEF RepliesHandedOver
<1>2. MrqSpec => []MrqInv
  BY MrqInvariance
<1> QED
  BY <1>1, <1>2, PTL

(* What a call appends to what rbuf has kept never reaches behind rbuf,    *)
(* whatever was asked for and however often its size was doubled before.   *)
THEOREM ReceivedFitsAlways ==
    MrqSpec => ReceivedFits
<1>1. ASSUME MrqInv, [MrqNext]_mrqVars, received' > received, rbuf > 0
      PROVE  rbuf + (received' - received) <= rbufsz'
  <2>1. received \in Nat /\ rbuf \in Nat /\ rbufsz \in Nat \ {0} /\ answered \in Nat
    BY <1>1 DEF MrqInv, StateTypes, KindTypes
  <2>2. received' # received
    BY <1>1, <2>1
  <2>3. PICK k \in 1 .. answered - received : \E stale \in StaleBytes(k) : DataReceived(k, stale)
    BY <1>1, <2>2 DEF MrqNext, mrqVars, Get, GetSession, Answered, Ignored, ConnectionLost
  <2>4. PICK stale \in StaleBytes(k) : DataReceived(k, stale)
    BY <2>3
  <2> DEFINE room == RoomInRbuf(rbufsz, rbuf, k)
  <2>5. k \in Nat /\ rbuf + k \in Nat
    BY <2>1
  <2>6. received' = received + k /\ (rbufsz' = Doubled(room, k) \/ rbufsz' = room)
    BY <2>4 DEF DataReceived
  <2>7. room \in Nat \ {0} /\ room >= rbuf + k
    <3>1. room = Doubled(rbufsz, rbuf + k)
      BY <1>1 DEF RoomInRbuf
    <3>2. /\ Doubled(rbufsz, rbuf + k) \in Nat /\ Doubled(rbufsz, rbuf + k) >= rbufsz
          /\ Doubled(rbufsz, rbuf + k) >= rbuf + k
      BY <2>1, <2>5, DoubledFits
    <3> QED
      BY <2>1, <2>5, <3>1, <3>2
  <2> HIDE DEF room
  <2>8. Doubled(room, k) \in Nat /\ Doubled(room, k) >= room
    BY <2>5, <2>7, DoubledFits
  <2> QED
    BY <2>1, <2>5, <2>6, <2>7, <2>8
<1>2. MrqInv /\ [MrqNext]_mrqVars
      => [received' > received /\ rbuf > 0 => rbuf + (received' - received) <= rbufsz']_mrqVars
  BY <1>1
<1>3. MrqSpec => []MrqInv
  BY MrqInvariance
<1> QED
  BY <1>2, <1>3, PTL DEF MrqSpec, ReceivedFits

-----------------------------------------------------------------------------
(* The third part: the functions that read and write what goes over a     *)
(* connection, for every input.                                            *)
(* The vectors of fast_compare.                                            *)
LEMMA BlockOf128 ==
    ASSUME NEW i \in Nat PROVE stricmp_avx2_2lc_128(i) = i .. i + 127
<1>1. ASSUME NEW x \in stricmp_avx2_2lc_128(i) PROVE x \in i .. i + 127
  <2>1. PICK k \in 0 .. 3 : x \in Load(i + 32 * k, 32)
    BY DEF stricmp_avx2_2lc_128
  <2> QED
    BY <2>1 DEF Load
<1>2. ASSUME NEW x \in i .. i + 127 PROVE x \in stricmp_avx2_2lc_128(i)
  <2>1. \E k \in 0 .. 3 : x \in Load(i + 32 * k, 32)
    <3>1. CASE x < i + 32
      BY <3>1 DEF Load
    <3>2. CASE x >= i + 32 /\ x < i + 64
      BY <3>2 DEF Load
    <3>3. CASE x >= i + 64 /\ x < i + 96
      BY <3>3 DEF Load
    <3>4. CASE x >= i + 96
      BY <3>4 DEF Load
    <3> QED
      BY <3>1, <3>2, <3>3, <3>4
  <2> QED
    BY <2>1 DEF stricmp_avx2_2lc_128
<1> QED
  BY <1>1, <1>2

LEMMA BlocksOf128 ==
    ASSUME NEW q \in Nat
    PROVE  UNION {stricmp_avx2_2lc_128(128 * k) : k \in 0 .. q - 1} = 0 .. 128 * q - 1
<1> DEFINE all == UNION {stricmp_avx2_2lc_128(128 * k) : k \in 0 .. q - 1}
<1>1. \A x : x \in all <=> \E k \in 0 .. q - 1 : x \in 128 * k .. 128 * k + 127
  BY BlockOf128
<1> HIDE DEF all
<1>2. ASSUME NEW x \in all PROVE x \in 0 .. 128 * q - 1
  BY <1>1
<1>3. ASSUME NEW x \in 0 .. 128 * q - 1 PROVE x \in all
  <2>1. x \div 128 \in 0 .. q - 1 /\ x \in 128 * (x \div 128) .. 128 * (x \div 128) + 127
    OBVIOUS
  <2> QED
    BY <1>1, <2>1
<1>4. all = 0 .. 128 * q - 1
  BY <1>2, <1>3
<1> QED
  BY <1>4 DEF all

LEMMA TailIs ==
    ASSUME NEW i \in Nat, NEW len \in 8 .. 31
    PROVE  stricmp_avx2_2lc_tail(i, len) = i .. i + len - 1
<1>1. CASE len >= 16
  <2>1. /\ Load(i, 16) = i .. i + 15
        /\ Load(i + len - 16, 8) = i + len - 16 .. i + len - 9
        /\ Load(i + len - 8, 8) = i + len - 8 .. i + len - 1
    BY DEF Load
  <2>2. stricmp_avx2_2lc_tail(i, len) = (i .. i + 15) \cup (i + len - 16 .. i + len - 9) \cup (i + len - 8 .. i + len - 1)
    BY <1>1, <2>1 DEF stricmp_avx2_2lc_tail
  <2> QED
    BY <1>1, <2>2
<1>2. CASE len < 16
  <2>1. Load(i, 8) = i .. i + 7 /\ Load(i + len - 8, 8) = i + len - 8 .. i + len - 1
    BY DEF Load
  <2>2. stricmp_avx2_2lc_tail(i, len) = (i .. i + 7) \cup (i + len - 8 .. i + len - 1)
    BY <1>2, <2>1 DEF stricmp_avx2_2lc_tail
  <2> QED
    BY <1>2, <2>2
<1> QED
  BY <1>1, <1>2

LEMMA TailOfIs ==
    ASSUME NEW i \in Nat, i >= 8, NEW len \in 1 .. 31
    PROVE  (0 .. i - 1) \cup TailOf(i, len) = 0 .. i + len - 1
<1>1. CASE len < 8
  <2>1. TailOf(i, len) = stricmp_avx2_2lc_tail(i - (8 - len), 8) /\ i - (8 - len) \in Nat
    BY <1>1 DEF TailOf
  <2>2. TailOf(i, len) = i - (8 - len) .. i - (8 - len) + 8 - 1
    BY <2>1, TailIs
  <2> QED
    BY <1>1, <2>1, <2>2
<1>2. CASE len >= 8
  <2>1. TailOf(i, len) = stricmp_avx2_2lc_tail(i, len) /\ len \in 8 .. 31
    BY <1>2 DEF TailOf
  <2>2. TailOf(i, len) = i .. i + len - 1
    BY <2>1, TailIs
  <2> QED
    BY <2>2
<1> QED
  BY <1>1, <1>2

(* The vectors cover a text, whatever its length, and nothing behind it.   *)
LEMMA VectorsCover ==
    ASSUME NEW len \in Nat, len > 8 PROVE Vectors(len) = 0 .. len - 1
<1>1. CASE len < 32
  <2>1. Vectors(len) = stricmp_avx2_2lc_tail(0, len) /\ len \in 8 .. 31
    BY <1>1 DEF Vectors
  <2>2. stricmp_avx2_2lc_tail(0, len) = 0 .. 0 + len - 1
    BY <2>1, TailIs
  <2> QED
    BY <2>1, <2>2
<1>2. CASE len >= 32
  <2> DEFINE q == len \div 128
             i1 == 128 * q
             i2 == IF i1 + 64 <= len THEN i1 + 64 ELSE i1
             i3 == IF i2 + 32 <= len THEN i2 + 32 ELSE i2
             a == (UNION {stricmp_avx2_2lc_128(128 * k) : k \in 0 .. q - 1})
             b == IF i2 > i1 THEN stricmp_avx2_2lc_64(i1) ELSE {}
             c == IF i3 > i2 THEN stricmp_avx2_2lc(i2) ELSE {}
             d == IF i3 = len THEN {} ELSE TailOf(i3, len - i3)
  <2>1. Vectors(len) = a \cup b \cup c \cup d
    <3>1. ~(len < 32)
      BY <1>2
    <3> QED
      BY <3>1, Zenon DEF Vectors
  <2>2. q \in Nat /\ i1 \in Nat /\ i1 <= len /\ len < i1 + 128
    OBVIOUS
  <2>3. a = 0 .. i1 - 1
    BY <2>2, BlocksOf128
  <2> HIDE DEF q, i1, a
  <2>4. a \cup b = 0 .. i2 - 1 /\ i2 \in Nat /\ i2 <= len /\ len < i2 + 64
    BY <2>2, <2>3 DEF stricmp_avx2_2lc_64, Load
  <2> HIDE DEF i2, b
  <2>5. a \cup b \cup c = 0 .. i3 - 1 /\ i3 \in Nat /\ i3 <= len /\ len < i3 + 32
    BY <2>2, <2>4 DEF stricmp_avx2_2lc, Load
  <2> HIDE DEF i3, c
  <2>6. a \cup b \cup c \cup d = 0 .. len - 1
    <3>1. CASE i3 = len
      BY <2>5, <3>1
    <3>2. CASE i3 # len
      <4>1. i3 >= 8
        <5>1. i3 >= 1
          BY <1>2, <2>5
        <5> QED
          BY <1>2, <2>2, <2>4, <2>5 DEF i1, i2, i3
      <4>2. len - i3 \in 1 .. 31 /\ i3 + (len - i3) - 1 = len - 1
        BY <2>5, <3>2
      <4>3. (0 .. i3 - 1) \cup TailOf(i3, len - i3) = 0 .. i3 + (len - i3) - 1
        BY <2>5, <4>1, <4>2, TailOfIs
      <4> QED
        BY <2>5, <3>2, <4>2, <4>3
    <3> QED
      BY <3>1, <3>2
  <2> QED
    BY <2>1, <2>6
<1> QED
  BY <1>1, <1>2

LEMMA InputsTyped == InputSpec => [](subject \in DOMAIN Pieces /\ input \in Seq(Pieces[subject]))
<1> DEFINE Typed == subject \in DOMAIN Pieces /\ input \in Seq(Pieces[subject])
<1>1. InputInit => Typed
  BY DEF InputInit
<1>2. Typed /\ [InputNext]_inputVars => Typed'
  <2> SUFFICES ASSUME Typed, [InputNext]_inputVars PROVE Typed'
    OBVIOUS
  <2>1. CASE Extend
    <3>1. PICK p \in Pieces[subject] : input' = Append(input, p)
      BY <2>1 DEF Extend
    <3> QED
      BY <2>1, <3>1 DEF Extend
  <2>2. CASE UNCHANGED inputVars
    BY <2>2 DEF inputVars
  <2> QED
    BY <2>1, <2>2 DEF InputNext
<1> QED
  BY <1>1, <1>2, PTL DEF InputSpec

LEMMA LastPiece ==
    ASSUME NEW S, input \in Seq(S), NEW i \in 1 .. Len(input) PROVE input[i] \in S
  OBVIOUS

LEMMA CompareIs ==
    ASSUME NEW len \in Nat, NEW diffs \in Diffs(len)
    PROVE  fast_compare(len, diffs) = (\E d \in diffs : d.by = "byte" \/ len > 8)
<1>1. \A d \in diffs : d.at \in 0 .. len - 1 /\ d.by \in {"case", "byte"}
  BY DEF Diffs
<1>2. CASE len <= 8
  BY <1>1, <1>2 DEF fast_compare, Lowered
<1>3. CASE len > 8
  <2>1. Vectors(len) = 0 .. len - 1
    BY <1>3, VectorsCover
  <2>2. \A d : VectorLowered(d)
    BY DEF VectorLowered, VectorsSet
  <2>3. fast_compare(len, diffs) = (\E d \in diffs : d.at \in Vectors(len) /\ VectorLowered(d))
    <3>1. ~(len <= 8)
      BY <1>3
    <3> QED
      BY <3>1, Zenon DEF fast_compare
  <2>4. (\E d \in diffs : d.at \in Vectors(len) /\ VectorLowered(d)) = (\E d \in diffs : d.by = "byte" \/ len > 8)
    BY <1>1, <1>3, <2>1, <2>2
  <2> QED
    BY <2>3, <2>4
<1>4. len <= 8 \/ len > 8
  OBVIOUS
<1> QED
  BY <1>2, <1>3, <1>4, Zenon

LEMMA CompareHolds == (subject \in DOMAIN Pieces /\ input \in Seq(Pieces[subject])) => CompareRight
<1> SUFFICES ASSUME input \in Seq(Pieces[subject]), subject = "text", NEW i \in 1 .. Len(input)
             PROVE  /\ fast_compare(input[i].len, input[i].diffs)
                           = (\E d \in input[i].diffs : d.by = "byte" \/ input[i].len > 8)
                    /\ input[i].len > 8 => Vectors(input[i].len) = 0 .. input[i].len - 1
  BY Zenon DEF CompareRight
<1>1. input[i] \in Pieces.text
  BY LastPiece
<1>2. input[i].len \in Nat /\ input[i].diffs \in Diffs(input[i].len)
  BY <1>1, PiecesAssumption DEF TextPieces
<1> QED
  BY <1>2, CompareIs, VectorsCover

(* What digits say.                                                        *)
LEMMA NumberIs ==
    ASSUME NEW d \in Seq(Nat)
    PROVE  \E f \in [0 .. Len(d) -> Nat] :
              /\ f[0] = 0
              /\ \A i \in 1 .. Len(d) : f[i] = 10 * f[i - 1] + d[i]
              /\ NumberOf(d) = f[Len(d)]
<1> DEFINE n == Len(d)
           step == [i \in 1 .. n |-> [v \in Nat |-> 10 * v + d[i]]]
           isSaid(f) == f = [i \in 0 .. Len(d) |-> IF i = 0 THEN 0 ELSE 10 * f[i - 1] + d[i]]
           said == CHOOSE f : isSaid(f)
           follows(f) == f[0] = 0 /\ \A i \in 1 .. n : f[i] = 10 * f[i - 1] + d[i]
<1>1. n \in Nat /\ \A i \in 1 .. n : d[i] \in Nat
  OBVIOUS
<1>2. step \in [1 .. n -> [Nat -> Nat]] /\ \A i \in 1 .. n, v \in Nat : step[i][v] = 10 * v + d[i]
  BY <1>1
<1> HIDE DEF step
<1>3. PICK f \in [0 .. n -> Nat] : Along(f, n, 0, step)
  <2>1. 0 \in Nat /\ step \in [1 .. n -> [Nat -> Nat]]
    BY <1>2
  <2> HIDE DEF n
  <2> QED
    BY <1>1, <2>1, RecursionTo
<1>4. follows(f)
  <2>1. \A i \in 1 .. n : f[i - 1] \in Nat
    BY <1>1, <1>3
  <2> QED
    BY <1>2, <1>3, <2>1 DEF Along
<1>5. isSaid(f)
  BY <1>4
<1>6. isSaid(said)
  BY <1>5
<1>7. NumberOf(d) = said[Len(d)]
  BY DEF NumberOf
<1> HIDE DEF said
<1>8. follows(said)
  BY <1>1, <1>6
<1> DEFINE T == {k \in Nat : k \in 0 .. n => said[k] = f[k]}
<1>9. 0 \in T
  BY <1>4, <1>8
<1>10. ASSUME NEW k \in Nat, k \in T PROVE k + 1 \in T
  <2> SUFFICES ASSUME k + 1 \in 0 .. n PROVE said[k + 1] = f[k + 1]
    OBVIOUS
  <2>1. k + 1 \in 1 .. n /\ k \in 0 .. n /\ (k + 1) - 1 = k
    OBVIOUS
  <2> QED
    BY <1>4, <1>8, <1>10, <2>1
<1>11. Nat \subseteq T
  <2> HIDE DEF T
  <2> QED
    BY <1>9, <1>10, Induction
<1>12. said[n] = f[n]
  BY <1>11
<1> QED
  BY <1>4, <1>7, <1>12

LEMMA NumberOfDigits ==
    ASSUME NEW d \in Seq(Nat)
    PROVE  NumberOf(d) \in Nat /\ (Len(d) = 1 => NumberOf(d) = d[1])
<1>1. PICK f \in [0 .. Len(d) -> Nat] :
         /\ f[0] = 0
         /\ \A i \in 1 .. Len(d) : f[i] = 10 * f[i - 1] + d[i]
         /\ NumberOf(d) = f[Len(d)]
  BY NumberIs
<1>2. NumberOf(d) \in Nat
  BY <1>1
<1>3. ASSUME Len(d) = 1 PROVE NumberOf(d) = d[1]
  <2>1. 1 \in 1 .. Len(d)
    BY <1>3
  <2>2. d[1] \in Nat
    BY <2>1
  <2>3. f[1] = 10 * f[1 - 1] + d[1]
    BY <1>1, <2>1
  <2> QED
    BY <1>1, <1>3, <2>2, <2>3
<1> QED
  BY <1>2, <1>3

Digit == 0 .. 9

LEMMA OneZero ==
    ASSUME NEW d \in Seq(Digit)
    PROVE  d = <<0>> <=> Len(d) = 1 /\ d[1] = 0
<1>1. <<0>> \in Seq(Digit) /\ Len(<<0>>) = 1 /\ <<0>>[1] = 0
  BY DEF Digit
<1>2. ASSUME Len(d) = 1, d[1] = 0 PROVE d = <<0>>
  <2>1. \A i \in 1 .. Len(d) : d[i] = <<0>>[i]
    BY <1>1, <1>2
  <2> QED
    BY <1>1, <1>2, <2>1, SeqEqual
<1> QED
  BY <1>1, <1>2

(* How the headers are taken up, one after the other.                      *)
Taken == [flags : {0, 2}, body_length : Nat, keep_alive : BOOLEAN, error : BOOLEAN]

IsHeader(h) ==
    /\ WordOf(h.name) /\ WordOf(h.value)
    /\ h.value.digits \in Seq(Digit) /\ h.value.junk \in BOOLEAN
    /\ h.value.word = "application/mrpacker" => AsLongAsMrpacker(h.value)

IsNamed(h, word) == h.name.word = word /\ h.name.diffs = {}

LEMMA NameCompared ==
    ASSUME NEW text, WordOf(text),
           NEW word \in {"Content-Type", "Content-Length", "Connection"}
    PROVE  Compares(text, word) <=> (text.word = word /\ text.diffs = {})
<1>1. word \in DOMAIN WordLength /\ WordLength[word] \in Nat /\ WordLength[word] > 8
  BY DEF WordLength
<1> SUFFICES ASSUME text.word = word PROVE ~fast_compare(WordLength[word], text.diffs) <=> text.diffs = {}
  BY DEF Compares
<1>2. text.diffs \in Diffs(WordLength[word])
  BY <1>1, Zenon DEF WordOf
<1>3. fast_compare(WordLength[word], text.diffs) = (\E d \in text.diffs : d.by = "byte" \/ WordLength[word] > 8)
  BY <1>1, <1>2, CompareIs, Zenon
<1>4. (\E d \in text.diffs : d.by = "byte" \/ WordLength[word] > 8) <=> text.diffs # {}
  BY <1>1
<1> QED
  BY <1>3, <1>4

LEMMA CloseCompared ==
    ASSUME NEW text, WordOf(text)
    PROVE  Compares(text, "close") <=> IsClose(text)
<1>1. "close" \in DOMAIN WordLength /\ WordLength["close"] \in Nat /\ WordLength["close"] <= 8
  BY DEF WordLength
<1> SUFFICES ASSUME text.word = "close"
             PROVE  ~fast_compare(WordLength["close"], text.diffs) <=> \A d \in text.diffs : d.by = "case"
  BY DEF Compares, IsClose
<1>2. text.diffs \in Diffs(WordLength["close"])
  BY <1>1, Zenon DEF WordOf
<1>3. \A d \in text.diffs : d.by \in {"case", "byte"}
  BY <1>2 DEF Diffs
<1>4. fast_compare(WordLength["close"], text.diffs) <=> \E d \in text.diffs : Lowered(d)
  BY <1>1 DEF fast_compare
<1> QED
  BY <1>3, <1>4 DEF Lowered

(* What one header does to what was taken up before.                       *)
LEMMA HeaderTaken ==
    ASSUME NEW r \in Taken, NEW h, IsHeader(h)
    PROVE  /\ ReadHeader(r, h) \in Taken
           /\ r.error => ReadHeader(r, h) = r
           /\ ~r.error =>
                 LET t == ReadHeader(r, h)
                 IN  /\ t.error <=> IsNamed(h, "Content-Length") /\ NoLength(h.value)
                     /\ t.body_length = IF IsNamed(h, "Content-Length") THEN my_strtol(h.value) ELSE r.body_length
                     /\ t.keep_alive <=> r.keep_alive /\ ~(IsNamed(h, "Connection") /\ IsClose(h.value))
                     /\ t.flags = IF IsNamed(h, "Content-Type") /\ AsLongAsMrpacker(h.value) THEN 2 ELSE r.flags
<1>1. /\ Compares(h.name, "Content-Type") <=> IsNamed(h, "Content-Type")
      /\ Compares(h.name, "Content-Length") <=> IsNamed(h, "Content-Length")
      /\ Compares(h.name, "Connection") <=> IsNamed(h, "Connection")
      /\ Compares(h.value, "close") <=> IsClose(h.value)
  BY NameCompared, CloseCompared DEF IsHeader, IsNamed
<1>2. my_strtol(h.value) \in Nat /\ (Len(h.value.digits) = 1 => my_strtol(h.value) = h.value.digits[1])
  <2>1. h.value.digits \in Seq(Nat)
    BY DEF IsHeader, Digit
  <2> QED
    BY <2>1, NumberOfDigits DEF my_strtol
<1>3. NotANumber(h.value) \in BOOLEAN /\ (NotANumber(h.value) <=> NoLength(h.value))
  <2>1. h.value.digits = <<0>> <=> Len(h.value.digits) = 1 /\ h.value.digits[1] = 0
    BY OneZero DEF IsHeader
  <2> QED
    BY <1>2, <2>1 DEF NotANumber, NoLength
<1> DEFINE t == ReadHeader(r, h)
           typed == IF IsNamed(h, "Content-Type") /\ AsLongAsMrpacker(h.value)
                    THEN [r EXCEPT !.flags = 2] ELSE r
<1>4. typed \in Taken
  BY DEF Taken
<1>5. CASE r.error
  BY <1>5 DEF ReadHeader
<1>6. CASE ~r.error /\ IsNamed(h, "Content-Length")
  <2>1. ~IsNamed(h, "Content-Type") /\ ~IsNamed(h, "Connection")
    BY <1>6 DEF IsNamed
  <2>2. t = [r EXCEPT !.body_length = my_strtol(h.value), !.error = NotANumber(h.value)]
    BY <1>1, <1>6, <2>1 DEF ReadHeader
  <2> HIDE DEF t
  <2>3. t \in Taken
    BY <1>2, <1>3, <2>2 DEF Taken
  <2>4. t.error = NotANumber(h.value) /\ t.body_length = my_strtol(h.value) /\ t.keep_alive = r.keep_alive /\ t.flags = r.flags
    BY <2>2 DEF Taken
  <2> QED
    BY <1>3, <1>6, <2>1, <2>3, <2>4 DEF t
<1>7. CASE ~r.error /\ ~IsNamed(h, "Content-Length") /\ IsNamed(h, "Connection") /\ IsClose(h.value)
  <2>1. ~IsNamed(h, "Content-Type")
    BY <1>7 DEF IsNamed
  <2>2. t = [r EXCEPT !.keep_alive = FALSE]
    BY <1>1, <1>7, <2>1 DEF ReadHeader
  <2> HIDE DEF t
  <2>3. t \in Taken /\ t.error = r.error /\ t.body_length = r.body_length /\ t.keep_alive = FALSE /\ t.flags = r.flags
    BY <2>2 DEF Taken
  <2> QED
    BY <1>7, <2>1, <2>3 DEF t
<1>8. CASE ~r.error /\ ~IsNamed(h, "Content-Length") /\ ~(IsNamed(h, "Connection") /\ IsClose(h.value))
  <2>1. t = typed
    BY <1>1, <1>8 DEF ReadHeader, AsLongAsMrpacker
  <2>2. /\ typed.error = r.error /\ typed.body_length = r.body_length /\ typed.keep_alive = r.keep_alive
        /\ typed.flags = IF IsNamed(h, "Content-Type") /\ AsLongAsMrpacker(h.value) THEN 2 ELSE r.flags
    BY DEF Taken
  <2> HIDE DEF typed, t
  <2> QED
    BY <1>4, <1>8, <2>1, <2>2 DEF t
<1> QED
  BY <1>5, <1>6, <1>7, <1>8

LEMMA HeadersTaken ==
    ASSUME NEW headers, NEW minor \in {0, 1}, headers \in Seq({h \in Pieces.headers : IsHeader(h)})
    PROVE  \E f \in [0 .. Len(headers) -> Taken] :
              /\ f[0] = [flags |-> 0, body_length |-> 0, keep_alive |-> minor # 0, error |-> FALSE]
              /\ \A i \in 1 .. Len(headers) : f[i] = ReadHeader(f[i - 1], headers[i])
              /\ ReadHeaders(minor, headers) = f[Len(headers)]
<1> DEFINE n == Len(headers)
           a == [flags |-> 0, body_length |-> 0, keep_alive |-> minor # 0, error |-> FALSE]
           step == [i \in 1 .. n |-> [v \in Taken |-> ReadHeader(v, headers[i])]]
           isAfter(f) == f = [i \in 0 .. Len(headers) |-> IF i = 0 THEN a ELSE ReadHeader(f[i - 1], headers[i])]
           after == CHOOSE f : isAfter(f)
<1>1. \A i \in 1 .. n : IsHeader(headers[i])
  <2> DEFINE H == {h \in Pieces.headers : IsHeader(h)}
  <2>1. \A i \in 1 .. n : headers[i] \in H
    <3> HIDE DEF H
    <3> QED
      BY ElementOfSeq DEF H
  <2> QED
    BY <2>1
<1>2. n \in Nat /\ a \in Taken
  BY DEF Taken
<1>3. step \in [1 .. n -> [Taken -> Taken]] /\ \A i \in 1 .. n, v \in Taken : step[i][v] = ReadHeader(v, headers[i])
  BY <1>1, HeaderTaken
<1> HIDE DEF step
<1>4. PICK f \in [0 .. n -> Taken] : Along(f, n, a, step)
  <2>1. step \in [1 .. n -> [Taken -> Taken]]
    BY <1>3
  <2> HIDE DEF n, a
  <2> QED
    BY <1>2, <2>1, RecursionTo
<1>5. f[0] = a /\ \A i \in 1 .. n : f[i] = ReadHeader(f[i - 1], headers[i])
  <2>1. \A i \in 1 .. n : f[i - 1] \in Taken
    BY <1>4
  <2> QED
    BY <1>3, <1>4, <2>1 DEF Along
<1>6. isAfter(f)
  <2> HIDE DEF a
  <2> QED
    BY <1>5
<1>7. isAfter(after)
  BY <1>6
<1>8. ReadHeaders(minor, headers) = after[Len(headers)]
  BY DEF ReadHeaders
<1> HIDE DEF after
<1>9. after[0] = a /\ \A i \in 1 .. n : after[i] = ReadHeader(after[i - 1], headers[i])
  <2> HIDE DEF a
  <2> QED
    BY <1>2, <1>7
<1> HIDE DEF a
<1> DEFINE T == {k \in Nat : k \in 0 .. n => after[k] = f[k]}
<1>10. 0 \in T
  BY <1>5, <1>9
<1>11. ASSUME NEW k \in Nat, k \in T PROVE k + 1 \in T
  <2> SUFFICES ASSUME k + 1 \in 0 .. n PROVE after[k + 1] = f[k + 1]
    OBVIOUS
  <2>1. k + 1 \in 1 .. n /\ k \in 0 .. n /\ (k + 1) - 1 = k
    OBVIOUS
  <2> QED
    BY <1>5, <1>9, <1>11, <2>1
<1>12. Nat \subseteq T
  <2> HIDE DEF T
  <2> QED
    BY <1>10, <1>11, Induction
<1>13. after[n] = f[n]
  BY <1>2, <1>12
<1> QED
  BY <1>5, <1>8, <1>13 DEF a

(* What has been taken up of the first k headers.                          *)
UpTo(word, k) == {i \in 1 .. k : IsNamed(input[i], word)}

TakenRight(minor, k, r) ==
    LET lengths == UpTo("Content-Length", k)
    IN  /\ r.error <=> \E i \in lengths : NoLength(input[i].value)
        /\ ~r.error =>
              /\ lengths = {} => r.body_length = 0
              /\ \A i \in lengths :
                    (\A j \in lengths : j <= i) => r.body_length = my_strtol(input[i].value)
              /\ r.keep_alive <=> (minor = 1 /\ ~ \E i \in UpTo("Connection", k) : IsClose(input[i].value))
              /\ r.flags = 2 <=> \E i \in UpTo("Content-Type", k) : AsLongAsMrpacker(input[i].value)

LEMMA OneMoreTaken ==
    ASSUME NEW minor \in {0, 1}, NEW k \in Nat, NEW r \in Taken, TakenRight(minor, k, r),
           IsHeader(input[k + 1])
    PROVE  TakenRight(minor, k + 1, ReadHeader(r, input[k + 1]))
<1> DEFINE h == input[k + 1]
           t == ReadHeader(r, h)
<1>1. \A word : UpTo(word, k + 1) = UpTo(word, k) \cup {i \in {k + 1} : IsNamed(h, word)}
  BY DEF UpTo
<1>2. \A word : k + 1 \notin UpTo(word, k) /\ \A i \in UpTo(word, k) : i \in Nat /\ i < k + 1
  BY DEF UpTo
<1>3. /\ t \in Taken
      /\ r.error => t = r
      /\ ~r.error =>
            /\ t.error <=> IsNamed(h, "Content-Length") /\ NoLength(h.value)
            /\ t.body_length = IF IsNamed(h, "Content-Length") THEN my_strtol(h.value) ELSE r.body_length
            /\ t.keep_alive <=> r.keep_alive /\ ~(IsNamed(h, "Connection") /\ IsClose(h.value))
            /\ t.flags = IF IsNamed(h, "Content-Type") /\ AsLongAsMrpacker(h.value) THEN 2 ELSE r.flags
  BY HeaderTaken
<1> HIDE DEF t
<1>4. CASE r.error
  <2>1. t = r /\ \E i \in UpTo("Content-Length", k + 1) : NoLength(input[i].value)
    BY <1>1, <1>3, <1>4 DEF TakenRight
  <2> QED
    BY <1>4, <2>1 DEF TakenRight, t
<1>5. CASE ~r.error
  <2>1. t.error <=> \E i \in UpTo("Content-Length", k + 1) : NoLength(input[i].value)
    BY <1>1, <1>3, <1>5 DEF TakenRight
  <2>2. ASSUME ~t.error, UpTo("Content-Length", k + 1) = {} PROVE t.body_length = 0
    BY <1>1, <1>3, <1>5, <2>2 DEF TakenRight
  <2>3. ASSUME ~t.error, NEW i \in UpTo("Content-Length", k + 1), \A j \in UpTo("Content-Length", k + 1) : j <= i
        PROVE  t.body_length = my_strtol(input[i].value)
    <3>1. CASE IsNamed(h, "Content-Length")
      <4>1. i = k + 1
        BY <1>1, <1>2, <2>3, <3>1
      <4> QED
        BY <1>3, <1>5, <3>1, <4>1
    <3>2. CASE ~IsNamed(h, "Content-Length")
      <4>1. UpTo("Content-Length", k + 1) = UpTo("Content-Length", k)
        BY <1>1, <3>2
      <4>2. r.body_length = my_strtol(input[i].value)
        BY <1>5, <2>3, <4>1 DEF TakenRight
      <4> QED
        BY <1>3, <1>5, <3>2, <4>2
    <3> QED
      BY <3>1, <3>2
  <2>4. t.keep_alive <=> (minor = 1 /\ ~ \E i \in UpTo("Connection", k + 1) : IsClose(input[i].value))
    <3>1. r.keep_alive <=> (minor = 1 /\ ~ \E i \in UpTo("Connection", k) : IsClose(input[i].value))
      BY <1>5 DEF TakenRight
    <3>2. (\E i \in UpTo("Connection", k + 1) : IsClose(input[i].value))
             <=> (\E i \in UpTo("Connection", k) : IsClose(input[i].value)) \/ (IsNamed(h, "Connection") /\ IsClose(h.value))
      BY <1>1
    <3> QED
      BY <1>3, <1>5, <3>1, <3>2, Zenon
  <2>5. t.flags = 2 <=> \E i \in UpTo("Content-Type", k + 1) : AsLongAsMrpacker(input[i].value)
    <3>1. r.flags = 2 <=> \E i \in UpTo("Content-Type", k) : AsLongAsMrpacker(input[i].value)
      BY <1>5 DEF TakenRight
    <3>2. (\E i \in UpTo("Content-Type", k + 1) : AsLongAsMrpacker(input[i].value))
             <=> (\E i \in UpTo("Content-Type", k) : AsLongAsMrpacker(input[i].value)) \/ (IsNamed(h, "Content-Type") /\ AsLongAsMrpacker(h.value))
      BY <1>1
    <3> QED
      BY <1>3, <1>5, <3>1, <3>2
  <2> QED
    BY <2>1, <2>2, <2>3, <2>4, <2>5 DEF TakenRight, t
<1> QED
  BY <1>4, <1>5

LEMMA AllTaken ==
    ASSUME NEW minor \in {0, 1}, input \in Seq({h \in Pieces.headers : IsHeader(h)})
    PROVE  ReadHeaders(minor, input) \in Taken /\ TakenRight(minor, Len(input), ReadHeaders(minor, input))
<1> DEFINE n == Len(input)
<1>1. PICK f \in [0 .. n -> Taken] :
         /\ f[0] = [flags |-> 0, body_length |-> 0, keep_alive |-> minor # 0, error |-> FALSE]
         /\ \A i \in 1 .. n : f[i] = ReadHeader(f[i - 1], input[i])
         /\ ReadHeaders(minor, input) = f[n]
  BY HeadersTaken
<1>2. n \in Nat /\ \A i \in 1 .. n : IsHeader(input[i])
  <2> DEFINE H == {h \in Pieces.headers : IsHeader(h)}
  <2>1. \A i \in 1 .. n : input[i] \in H
    <3> HIDE DEF H
    <3> QED
      BY ElementOfSeq DEF H
  <2> QED
    BY <2>1
<1> DEFINE T == {k \in Nat : k \in 0 .. n => TakenRight(minor, k, f[k])}
<1>3. 0 \in T
  <2>1. \A word : UpTo(word, 0) = {}
    BY DEF UpTo
  <2>2. f[0].flags = 0 /\ f[0].body_length = 0 /\ f[0].error = FALSE
    BY <1>1
  <2>3. f[0].keep_alive <=> minor = 1
    <3>1. PICK b \in BOOLEAN : b = (minor # 0)
      OBVIOUS
    <3>2. f[0] = [flags |-> 0, body_length |-> 0, keep_alive |-> b, error |-> FALSE]
      BY <1>1, <3>1
    <3>3. f[0].keep_alive = b
      BY <3>2
    <3> QED
      BY <3>1, <3>3
  <2>4. TakenRight(minor, 0, f[0])
    BY <2>1, <2>2, <2>3 DEF TakenRight
  <2> QED
    BY <2>4
<1>4. ASSUME NEW k \in Nat, k \in T PROVE k + 1 \in T
  <2> SUFFICES ASSUME k + 1 \in 0 .. n PROVE TakenRight(minor, k + 1, f[k + 1])
    OBVIOUS
  <2>1. k + 1 \in 1 .. n /\ k \in 0 .. n /\ (k + 1) - 1 = k
    BY <1>2
  <2>2. f[k] \in Taken /\ f[k + 1] = ReadHeader(f[k], input[k + 1]) /\ IsHeader(input[k + 1])
    BY <1>1, <1>2, <2>1
  <2> QED
    BY <1>4, <2>1, <2>2, OneMoreTaken
<1>5. Nat \subseteq T
  <2> HIDE DEF T
  <2> QED
    BY <1>3, <1>4, Induction
<1>6. f[n] \in Taken /\ TakenRight(minor, n, f[n])
  BY <1>2, <1>5
<1> QED
  BY <1>1, <1>6

LEMMA NamesHold == (subject \in DOMAIN Pieces /\ input \in Seq(Pieces[subject])) => NamesRight
<1> SUFFICES ASSUME subject = "headers", input \in Seq(Pieces[subject]), NEW minor \in {0, 1}
             PROVE  LET lengths == Named("Content-Length")
                        types   == Named("Content-Type")
                        r       == ReadHeaders(minor, input)
                    IN  /\ r.error = (\E i \in lengths : NoLength(input[i].value))
                        /\ ~r.error =>
                              /\ lengths = {} => r.body_length = 0
                              /\ \A i \in lengths :
                                    (\A j \in lengths : j <= i) => r.body_length = my_strtol(input[i].value)
                              /\ r.keep_alive = (minor = 1 /\ ~ \E i \in Named("Connection") : IsClose(input[i].value))
                              /\ (\A i \in types : AsLongAsMrpacker(input[i].value) => IsMrpacker(input[i].value)) =>
                                    (r.flags = 2) = (\E i \in types : IsMrpacker(input[i].value))
  BY Zenon DEF NamesRight
<1> DEFINE n == Len(input)
           r == ReadHeaders(minor, input)
<1>1. \A h \in Pieces.headers : IsHeader(h)
  BY PiecesAssumption DEF HeaderPieces, IsHeader, Digit, AsLongAsMrpacker
<1>2. input \in Seq({h \in Pieces.headers : IsHeader(h)})
  <2>1. {h \in Pieces.headers : IsHeader(h)} = Pieces.headers
    BY <1>1
  <2> QED
    BY <2>1
<1>3. r \in Taken /\ TakenRight(minor, n, r)
  BY <1>2, AllTaken
<1>4. \A word : UpTo(word, n) = Named(word)
  BY DEF UpTo, Named, IsNamed
<1>5. \A i \in Named("Content-Type") : IsMrpacker(input[i].value) => AsLongAsMrpacker(input[i].value)
  <2>1. \A i \in 1 .. n : input[i] \in Pieces.headers
    BY LastPiece
  <2> QED
    BY <1>1, <2>1 DEF Named, IsHeader, IsMrpacker
<1> HIDE DEF r, n
<1>6. r.error \in BOOLEAN /\ r.keep_alive \in BOOLEAN
  BY <1>3 DEF Taken
<1>7. r.error = (\E i \in Named("Content-Length") : NoLength(input[i].value))
  BY <1>3, <1>4, <1>6 DEF TakenRight
<1>8. ASSUME ~r.error
      PROVE  /\ Named("Content-Length") = {} => r.body_length = 0
             /\ \A i \in Named("Content-Length") :
                   (\A j \in Named("Content-Length") : j <= i) => r.body_length = my_strtol(input[i].value)
  BY <1>3, <1>4, <1>8 DEF TakenRight
<1>9. ASSUME ~r.error
      PROVE  r.keep_alive = (minor = 1 /\ ~ \E i \in Named("Connection") : IsClose(input[i].value))
  BY <1>3, <1>4, <1>6, <1>9 DEF TakenRight
<1>10. ASSUME ~r.error, \A i \in Named("Content-Type") : AsLongAsMrpacker(input[i].value) => IsMrpacker(input[i].value)
       PROVE  (r.flags = 2) = (\E i \in Named("Content-Type") : IsMrpacker(input[i].value))
  <2>1. r.flags = 2 <=> \E i \in Named("Content-Type") : AsLongAsMrpacker(input[i].value)
    BY <1>3, <1>4, <1>10 DEF TakenRight
  <2> QED
    BY <1>5, <1>10, <2>1
<1> QED
  BY <1>7, <1>8, <1>9, <1>10 DEF r

(* fast_compare finds the names and values it is asked for, whatever the   *)
(* length of a text, and the loop over the headers takes from them what    *)
(* they say, whatever else is among them.                                  *)
THEOREM HeadersRightAlways == InputSpec => []HeadersRight
<1>1. (subject \in DOMAIN Pieces /\ input \in Seq(Pieces[subject])) => HeadersRight
  BY CompareHolds, NamesHold DEF HeadersRight
<1> QED
  BY <1>1, InputsTyped, PTL

-----------------------------------------------------------------------------
(* The powers of ten, and how long a number is.                            *)
LEMMA TenToIs ==
    /\ TenTo \in [Nat -> Nat]
    /\ \A k \in Nat : TenTo[k] = IF k = 0 THEN 1 ELSE 10 * TenTo[k - 1]
<1> DEFINE step == [k \in Nat |-> [v \in Nat |-> 10 * v]]
<1>1. step \in [Nat -> [Nat -> Nat]] /\ \A k, v \in Nat : step[k][v] = 10 * v
  OBVIOUS
<1> HIDE DEF step
<1>2. PICK f \in [Nat -> Nat] : \A k \in Nat : f[k] = IF k = 0 THEN 1 ELSE step[k][f[k - 1]]
  <2>1. IsStart(Nat) /\ 1 \in Nat
    BY DEF IsStart
  <2>2. \E f \in [Nat -> Nat] : Follows(f, Nat, 1, step)
    BY <1>1, <2>1, Recursion
  <2> QED
    BY <2>2 DEF Follows
<1>3. f = [k \in Nat |-> IF k = 0 THEN 1 ELSE 10 * f[k - 1]]
  <2>1. ASSUME NEW k \in Nat PROVE f[k] = IF k = 0 THEN 1 ELSE 10 * f[k - 1]
    <3>1. CASE k = 0
      BY <1>2, <3>1
    <3>2. CASE k # 0
      <4>1. k - 1 \in Nat
        BY <3>2
      <4>2. step[k][f[k - 1]] = 10 * f[k - 1]
        BY <1>1, <4>1
      <4> QED
        BY <1>2, <3>2, <4>2
    <3> QED
      BY <3>1, <3>2
  <2> QED
    BY <2>1
<1>4. TenTo = [k \in Nat |-> IF k = 0 THEN 1 ELSE 10 * TenTo[k - 1]]
  BY <1>3 DEF TenTo
<1>5. \A k \in Nat : TenTo[k] = IF k = 0 THEN 1 ELSE 10 * TenTo[k - 1]
  BY <1>4
<1> DEFINE T == {k \in Nat : TenTo[k] \in Nat}
<1>6. 0 \in T
  BY <1>5
<1>7. ASSUME NEW k \in Nat, k \in T PROVE k + 1 \in T
  <2>1. TenTo[k + 1] = 10 * TenTo[k]
    <3>1. k + 1 \in Nat /\ k + 1 # 0 /\ (k + 1) - 1 = k
      OBVIOUS
    <3> QED
      BY <1>5, <3>1
  <2> QED
    BY <1>7, <2>1
<1>8. Nat \subseteq T
  <2> HIDE DEF T
  <2> QED
    BY <1>6, <1>7, Induction
<1>9. \A k \in Nat : TenTo[k] \in Nat
  BY <1>8
<1>10. TenTo \in [Nat -> Nat]
  BY <1>4, <1>9
<1> QED
  BY <1>5, <1>10

LEMMA TenTimes == \A k \in Nat : TenTo[k] \in Nat /\ TenTo[k + 1] = 10 * TenTo[k]
<1> SUFFICES ASSUME NEW k \in Nat PROVE TenTo[k] \in Nat /\ TenTo[k + 1] = 10 * TenTo[k]
  OBVIOUS
<1>1. k + 1 \in Nat /\ k + 1 # 0 /\ (k + 1) - 1 = k
  OBVIOUS
<1> QED
  BY <1>1, TenToIs

LEMMA TenToGrows == \A k \in Nat : TenTo[k] > k
<1> DEFINE T == {k \in Nat : TenTo[k] > k}
<1>1. 0 \in T
  BY TenToIs
<1>2. ASSUME NEW k \in Nat, k \in T PROVE k + 1 \in T
  BY <1>2, TenTimes
<1>3. Nat \subseteq T
  <2> HIDE DEF T
  <2> QED
    BY <1>1, <1>2, Induction
<1> QED
  BY <1>3

LEMMA TenToOrder == \A j, k \in Nat : TenTo[j] <= TenTo[j + k]
<1> SUFFICES ASSUME NEW j \in Nat PROVE \A k \in Nat : TenTo[j] <= TenTo[j + k]
  OBVIOUS
<1> DEFINE T == {k \in Nat : TenTo[j] <= TenTo[j + k]}
<1>1. 0 \in T
  BY TenTimes
<1>2. ASSUME NEW k \in Nat, k \in T PROVE k + 1 \in T
  <2>1. j + k \in Nat /\ j + (k + 1) = (j + k) + 1
    OBVIOUS
  <2>2. TenTo[j + (k + 1)] = 10 * TenTo[j + k] /\ TenTo[j + k] \in Nat /\ TenTo[j] \in Nat
    BY <2>1, TenTimes
  <2> QED
    BY <1>2, <2>2
<1>3. Nat \subseteq T
  <2> HIDE DEF T
  <2> QED
    BY <1>1, <1>2, Induction
<1> QED
  BY <1>3

LEMMA NumLengthIs ==
    ASSUME NEW n \in Nat
    PROVE  /\ NumLength(n) \in Nat /\ NumLength(n) >= 1
           /\ n < TenTo[NumLength(n)]
           /\ \A k \in Nat : k >= 1 /\ n < TenTo[k] => NumLength(n) <= k
<1> DEFINE T == {k \in Nat : n < TenTo[k] /\ k >= 1}
           is(k) == n < TenTo[k] /\ (k = 1 \/ n >= TenTo[k - 1])
<1>1. n + 1 \in T
  <2>1. n + 1 \in Nat /\ TenTo[n + 1] > n + 1 /\ TenTo[n + 1] \in Nat
    BY TenToGrows, TenTimes
  <2> QED
    BY <2>1
<1>2. PICK k \in T : \A j \in T : k <= j
  BY <1>1, LeastNat
<1>3. k \in 1 .. n + 1 /\ is(k)
  <2>1. k \in 1 .. n + 1
    BY <1>1, <1>2
  <2>2. ASSUME k # 1 PROVE n >= TenTo[k - 1]
    <3>1. k - 1 \in Nat /\ k - 1 >= 1 /\ k - 1 \notin T /\ TenTo[k - 1] \in Nat
      BY <1>2, <2>1, <2>2, TenTimes
    <3> QED
      BY <3>1
  <2> QED
    BY <1>2, <2>1, <2>2
<1> DEFINE c == CHOOSE j \in 1 .. n + 1 : is(j)
<1>4. c \in 1 .. n + 1 /\ is(c)
  <2> HIDE DEF is
  <2> QED
    BY <1>3
<1>5. NumLength(n) = c
  BY DEF NumLength
<1> HIDE DEF c
<1>6. ASSUME NEW j \in Nat, j >= 1, n < TenTo[j], c > j PROVE FALSE
  <2>1. (c - 1) - j \in Nat /\ j + ((c - 1) - j) = c - 1 /\ c # 1 /\ c - 1 \in Nat
    BY <1>4, <1>6
  <2>2. TenTo[j] <= TenTo[c - 1]
    BY <2>1, TenToOrder
  <2>3. n >= TenTo[c - 1] /\ TenTo[c - 1] \in Nat /\ TenTo[j] \in Nat
    BY <1>4, <2>1, TenTimes
  <2> QED
    BY <1>6, <2>2, <2>3
<1> QED
  BY <1>4, <1>5, <1>6

LEMMA LongestNumbers ==
    /\ \A n \in Nat : n <= 99999999 => NumLength(n) <= 8
    /\ \A n \in Nat : n <= 1073741696 => NumLength(n) <= 10
<1>1. TenTo[0] = 1 /\ TenTo[1] = 10 /\ TenTo[2] = 100 /\ TenTo[3] = 1000 /\ TenTo[4] = 10000
  <2>1. TenTo[0] = 1
    BY TenToIs
  <2>2. TenTo[0 + 1] = 10 * TenTo[0] /\ TenTo[1 + 1] = 10 * TenTo[1] /\ TenTo[2 + 1] = 10 * TenTo[2] /\ TenTo[3 + 1] = 10 * TenTo[3]
    BY TenTimes
  <2> QED
    BY <2>1, <2>2
<1>2. TenTo[8] = 100000000
  <2>1. TenTo[4 + 1] = 10 * TenTo[4] /\ TenTo[5 + 1] = 10 * TenTo[5] /\ TenTo[6 + 1] = 10 * TenTo[6] /\ TenTo[7 + 1] = 10 * TenTo[7]
    BY TenTimes
  <2> QED
    BY <1>1, <2>1, SMT
<1>3. TenTo[10] = 10000000000
  <2>1. TenTo[8 + 1] = 10 * TenTo[8] /\ TenTo[9 + 1] = 10 * TenTo[9]
    BY TenTimes
  <2> QED
    BY <1>2, <2>1, SMT
<1>4. ASSUME NEW n \in Nat, n <= 99999999 PROVE NumLength(n) <= 8
  <2>1. n \in Nat /\ n < TenTo[8]
    BY <1>2, <1>4, SMT
  <2> QED
    BY <2>1, NumLengthIs, SMT
<1>5. ASSUME NEW n \in Nat, n <= 1073741696 PROVE NumLength(n) <= 10
  <2>1. n \in Nat /\ n < TenTo[10]
    BY <1>3, <1>5, SMT
  <2> QED
    BY <2>1, NumLengthIs, SMT
<1> QED
  BY <1>4, <1>5, SMT

-----------------------------------------------------------------------------
(* The replies of the stores.                                              *)
Sizes == {r \in Int : r = Missing \/ (r \in Nat /\ r <= 99999999)}

Outcome == [kind : {"callback", "exit", "past the end"}, size : Int, whole : BOOLEAN]
ReplyStates == [p : Nat, left : Int, out : Seq(Outcome), going : BOOLEAN]

LEMMA LengthsAre ==
    ASSUME NEW x \in Sizes
    PROVE  /\ MemLength(x) \in Nat /\ MemLength(x) >= 1
           /\ CacheLength(x) \in Nat /\ CacheLength(x) >= 1
           /\ x # Missing => /\ x \in Nat
                             /\ MemHeader(x) \in Nat
                             /\ 53 <= MemHeader(x) /\ MemHeader(x) <= 60
                             /\ MemLength(x) = MemHeader(x) + x + 7
                             /\ CacheLength(x) = 4 + x
<1>1. CASE x = Missing
  BY <1>1 DEF MemLength, CacheLength, Missing
<1>2. CASE x # Missing
  <2>1. x \in Nat /\ NumLength(x) \in Nat /\ NumLength(x) >= 1 /\ NumLength(x) <= 8
    <3>1. x \in Nat /\ x <= 99999999
      BY <1>2, SMT DEF Sizes
    <3> QED
      BY <3>1, NumLengthIs, LongestNumbers, SMT
  <2> QED
    BY <1>2, <2>1 DEF MemLength, CacheLength, MemHeader
<1> QED
  BY <1>1, <1>2

LEMMA OutcomesAre ==
    /\ \A bytes \in Int, whole \in BOOLEAN : Callback(bytes, whole) \in Outcome
    /\ Exit \in Outcome /\ PastTheEnd \in Outcome /\ Exit.whole = TRUE
    /\ \A bytes \in Int, whole \in BOOLEAN : Callback(bytes, whole).whole = whole
  BY DEF Outcome, Callback, Exit, PastTheEnd

LEMMA BeginIs ==
    ASSUME NEW l \in Int
    PROVE  /\ Begin(l) \in ReplyStates
           /\ Begin(l).p = 0 /\ Begin(l).left = l /\ Begin(l).out = <<>> /\ Begin(l).going = TRUE
  BY DEF Begin, ReplyStates

LEMMA HandsIs ==
    ASSUME NEW s \in ReplyStates, NEW content \in Int, NEW whole \in BOOLEAN, NEW bytes \in Nat
    PROVE  /\ Hands(s, content, whole, bytes) \in ReplyStates
           /\ Hands(s, content, whole, bytes).p = s.p + bytes
           /\ Hands(s, content, whole, bytes).left = s.left
           /\ Hands(s, content, whole, bytes).out = Append(s.out, Callback(content, whole))
           /\ Hands(s, content, whole, bytes).going = s.going
<1>1. Callback(content, whole) \in Outcome
  BY OutcomesAre
<1> DEFINE t == Hands(s, content, whole, bytes)
<1>2. t = [s EXCEPT !.p = s.p + bytes, !.out = Append(s.out, Callback(content, whole))]
  BY DEF Hands
<1> HIDE DEF t
<1> DEFINE o == Append(s.out, Callback(content, whole))
<1>3. o \in Seq(Outcome)
  BY <1>1 DEF ReplyStates
<1> HIDE DEF o
<1>4. t = [s EXCEPT !.p = s.p + bytes, !.out = o]
  BY <1>2 DEF o
<1>5. t.p = s.p + bytes /\ t.left = s.left /\ t.out = o
  BY <1>3, <1>4 DEF ReplyStates
<1>6. t.going = s.going
  BY <1>4 DEF ReplyStates
<1>7. s.p + bytes \in Nat
  BY DEF ReplyStates
<1>8. t \in ReplyStates
  BY <1>3, <1>4, <1>7 DEF ReplyStates
<1> QED
  BY <1>5, <1>6, <1>8 DEF t, o

LEMMA StopsIs ==
    ASSUME NEW s \in ReplyStates, NEW how \in Outcome
    PROVE  /\ Stops(s, how) \in ReplyStates
           /\ Stops(s, how).p = s.p /\ Stops(s, how).left = s.left
           /\ Stops(s, how).out = Append(s.out, how)
           /\ Stops(s, how).going = FALSE
<1> DEFINE t == Stops(s, how)
           o == Append(s.out, how)
<1>1. o \in Seq(Outcome)
  BY DEF ReplyStates
<1>2. t = [s EXCEPT !.out = o, !.going = FALSE]
  BY DEF Stops
<1> HIDE DEF t, o
<1>3. t.p = s.p /\ t.left = s.left /\ t.out = o /\ t.going = FALSE /\ t \in ReplyStates
  BY <1>1, <1>2 DEF ReplyStates
<1> QED
  BY <1>3 DEF t, o

LEMMA MemTurnTyped ==
    ASSUME NEW s \in ReplyStates, NEW x \in Sizes, NEW l \in Int
    PROVE  MemTurn(s, x, l) \in ReplyStates
<1>1. CASE x = Missing
  <2>1. 0 \in Int /\ TRUE \in BOOLEAN /\ 5 \in Nat
    OBVIOUS
  <2>2. Hands(s, 0, TRUE, 5) \in ReplyStates
    BY <2>1, HandsIs, Zenon
  <2> QED
    BY <1>1, <2>2 DEF MemTurn, MemReply
<1>2. CASE x # Missing
  <2>1. x \in Int /\ MemLength(x) \in Nat /\ (s.p + MemHeader(x) + x <= l) \in BOOLEAN
    BY <1>2, LengthsAre DEF Sizes
  <2>2. Hands(s, x, s.p + MemHeader(x) + x <= l, MemLength(x)) \in ReplyStates
    BY <2>1, HandsIs
  <2>3. Stops(s, Exit) \in ReplyStates /\ Stops(s, PastTheEnd) \in ReplyStates
    BY StopsIs, OutcomesAre
  <2> QED
    BY <1>2, <2>2, <2>3, Zenon DEF MemTurn, MemReply
<1> QED
  BY <1>1, <1>2

LEMMA CacheTurnTyped ==
    ASSUME NEW s \in ReplyStates, NEW x \in Sizes, NEW l \in Int
    PROVE  CacheTurn(s, x, l) \in ReplyStates
<1>1. Stops(s, Exit) \in ReplyStates /\ Stops(s, PastTheEnd) \in ReplyStates /\ Hands(s, 0, TRUE, 4) \in ReplyStates
  <2>1. 0 \in Int /\ TRUE \in BOOLEAN /\ 4 \in Nat
    OBVIOUS
  <2> QED
    BY <2>1, StopsIs, HandsIs, OutcomesAre, Zenon
<1>2. CASE x = Missing
  BY <1>1, <1>2 DEF CacheTurn, CacheReply
<1>3. CASE x # Missing
  <2> DEFINE t == [s EXCEPT !.left = @ - (4 + x)]
  <2>1. x \in Nat /\ x \in Int /\ 4 + x \in Nat /\ (s.p + 4 + x <= l) \in BOOLEAN
    BY <1>3, LengthsAre DEF Sizes
  <2>2. t \in ReplyStates
    BY <2>1 DEF ReplyStates
  <2>3. Hands(t, x, s.p + 4 + x <= l, 4 + x) \in ReplyStates
    BY <2>1, <2>2, HandsIs
  <2> QED
    BY <1>1, <1>3, <2>3, Zenon DEF CacheTurn, CacheReply
<1> QED
  BY <1>2, <1>3

(* The bytes of the first replies.                                         *)
LEMMA MemBytesAre ==
    ASSUME NEW replies \in Seq(Sizes)
    PROVE  \E f \in [0 .. Len(replies) -> Nat] :
              /\ f[0] = 0
              /\ \A i \in 1 .. Len(replies) : f[i] = f[i - 1] + MemLength(replies[i])
              /\ MemBytes(replies) = f[Len(replies)]
<1> DEFINE n == Len(replies)
           step == [i \in 1 .. n |-> [v \in Nat |-> v + MemLength(replies[i])]]
           isUpto(f) == f = [i \in 0 .. Len(replies) |-> IF i = 0 THEN 0 ELSE f[i - 1] + MemLength(replies[i])]
           upto == CHOOSE f : isUpto(f)
<1>1. n \in Nat /\ 0 \in Nat /\ \A i \in 1 .. n : MemLength(replies[i]) \in Nat
  <2>1. \A i \in 1 .. n : replies[i] \in Sizes
    BY ElementOfSeq
  <2> QED
    BY <2>1, LengthsAre
<1>2. step \in [1 .. n -> [Nat -> Nat]] /\ \A i \in 1 .. n, v \in Nat : step[i][v] = v + MemLength(replies[i])
  BY <1>1
<1> HIDE DEF step
<1>3. PICK f \in [0 .. n -> Nat] : Along(f, n, 0, step)
  <2>1. step \in [1 .. n -> [Nat -> Nat]]
    BY <1>2
  <2> HIDE DEF n
  <2> QED
    BY <1>1, <2>1, RecursionTo
<1>4. f[0] = 0 /\ \A i \in 1 .. n : f[i] = f[i - 1] + MemLength(replies[i])
  <2>1. \A i \in 1 .. n : f[i - 1] \in Nat
    BY <1>3
  <2> QED
    BY <1>2, <1>3, <2>1 DEF Along
<1>5. isUpto(f)
  BY <1>4
<1>6. isUpto(upto)
  BY <1>5
<1>7. MemBytes(replies) = upto[Len(replies)]
  BY DEF MemBytes
<1> HIDE DEF upto
<1>8. upto[0] = 0 /\ \A i \in 1 .. n : upto[i] = upto[i - 1] + MemLength(replies[i])
  BY <1>1, <1>6
<1> DEFINE T == {k \in Nat : k \in 0 .. n => upto[k] = f[k]}
<1>9. 0 \in T
  BY <1>4, <1>8
<1>10. ASSUME NEW k \in Nat, k \in T PROVE k + 1 \in T
  <2> SUFFICES ASSUME k + 1 \in 0 .. n PROVE upto[k + 1] = f[k + 1]
    OBVIOUS
  <2>1. k + 1 \in 1 .. n /\ k \in 0 .. n /\ (k + 1) - 1 = k
    OBVIOUS
  <2> QED
    BY <1>4, <1>8, <1>10, <2>1
<1>11. Nat \subseteq T
  <2> HIDE DEF T
  <2> QED
    BY <1>9, <1>10, Induction
<1>12. upto[n] = f[n]
  BY <1>1, <1>11
<1> QED
  BY <1>4, <1>7, <1>12

LEMMA CacheBytesAre ==
    ASSUME NEW replies \in Seq(Sizes)
    PROVE  \E f \in [0 .. Len(replies) -> Nat] :
              /\ f[0] = 0
              /\ \A i \in 1 .. Len(replies) : f[i] = f[i - 1] + CacheLength(replies[i])
              /\ CacheBytes(replies) = f[Len(replies)]
<1> DEFINE n == Len(replies)
           step == [i \in 1 .. n |-> [v \in Nat |-> v + CacheLength(replies[i])]]
           isUpto(f) == f = [i \in 0 .. Len(replies) |-> IF i = 0 THEN 0 ELSE f[i - 1] + CacheLength(replies[i])]
           upto == CHOOSE f : isUpto(f)
<1>1. n \in Nat /\ 0 \in Nat /\ \A i \in 1 .. n : CacheLength(replies[i]) \in Nat
  <2>1. \A i \in 1 .. n : replies[i] \in Sizes
    BY ElementOfSeq
  <2> QED
    BY <2>1, LengthsAre
<1>2. step \in [1 .. n -> [Nat -> Nat]] /\ \A i \in 1 .. n, v \in Nat : step[i][v] = v + CacheLength(replies[i])
  BY <1>1
<1> HIDE DEF step
<1>3. PICK f \in [0 .. n -> Nat] : Along(f, n, 0, step)
  <2>1. step \in [1 .. n -> [Nat -> Nat]]
    BY <1>2
  <2> HIDE DEF n
  <2> QED
    BY <1>1, <2>1, RecursionTo
<1>4. f[0] = 0 /\ \A i \in 1 .. n : f[i] = f[i - 1] + CacheLength(replies[i])
  <2>1. \A i \in 1 .. n : f[i - 1] \in Nat
    BY <1>3
  <2> QED
    BY <1>2, <1>3, <2>1 DEF Along
<1>5. isUpto(f)
  BY <1>4
<1>6. isUpto(upto)
  BY <1>5
<1>7. CacheBytes(replies) = upto[Len(replies)]
  BY DEF CacheBytes
<1> HIDE DEF upto
<1>8. upto[0] = 0 /\ \A i \in 1 .. n : upto[i] = upto[i - 1] + CacheLength(replies[i])
  BY <1>1, <1>6
<1> DEFINE T == {k \in Nat : k \in 0 .. n => upto[k] = f[k]}
<1>9. 0 \in T
  BY <1>4, <1>8
<1>10. ASSUME NEW k \in Nat, k \in T PROVE k + 1 \in T
  <2> SUFFICES ASSUME k + 1 \in 0 .. n PROVE upto[k + 1] = f[k + 1]
    OBVIOUS
  <2>1. k + 1 \in 1 .. n /\ k \in 0 .. n /\ (k + 1) - 1 = k
    OBVIOUS
  <2> QED
    BY <1>4, <1>8, <1>10, <2>1
<1>11. Nat \subseteq T
  <2> HIDE DEF T
  <2> QED
    BY <1>9, <1>10, Induction
<1>12. upto[n] = f[n]
  BY <1>1, <1>11
<1> QED
  BY <1>4, <1>7, <1>12

(* The loops, as a row of turns.                                           *)
LEMMA MemLoop ==
    ASSUME NEW replies \in Seq(Sizes), NEW cut \in Int, MemBytes(replies) \in Int
    PROVE  LET l == MemBytes(replies) - cut
           IN  \E f \in [0 .. Len(replies) -> ReplyStates] :
                  /\ f[0] = Begin(l)
                  /\ \A i \in 1 .. Len(replies) : f[i] = MemTurn(f[i - 1], replies[i], l)
                  /\ Memcached(replies, cut) = f[Len(replies)].out
<1> DEFINE n == Len(replies)
           l == MemBytes(replies) - cut
           a == Begin(l)
           step == [i \in 1 .. n |-> [v \in ReplyStates |-> MemTurn(v, replies[i], l)]]
           isAfter(f) == f = [i \in 0 .. Len(replies) |-> IF i = 0 THEN a ELSE MemTurn(f[i - 1], replies[i], l)]
           after == CHOOSE f : isAfter(f)
<1>1. n \in Nat /\ l \in Int /\ a \in ReplyStates /\ \A i \in 1 .. n : replies[i] \in Sizes
  <2>1. n \in Nat /\ l \in Int /\ \A i \in 1 .. n : replies[i] \in Sizes
    BY ElementOfSeq
  <2> QED
    BY <2>1, BeginIs
<1>2. Memcached(replies, cut) = after[Len(replies)].out
  BY DEF Memcached
<1> HIDE DEF l, a
<1>3. step \in [1 .. n -> [ReplyStates -> ReplyStates]] /\ \A i \in 1 .. n, v \in ReplyStates : step[i][v] = MemTurn(v, replies[i], l)
  BY <1>1, MemTurnTyped
<1> HIDE DEF step
<1>4. PICK f \in [0 .. n -> ReplyStates] : Along(f, n, a, step)
  <2>1. step \in [1 .. n -> [ReplyStates -> ReplyStates]]
    BY <1>3
  <2> HIDE DEF n
  <2> QED
    BY <1>1, <2>1, RecursionTo
<1>5. f[0] = a /\ \A i \in 1 .. n : f[i] = MemTurn(f[i - 1], replies[i], l)
  <2>1. \A i \in 1 .. n : f[i - 1] \in ReplyStates
    BY <1>4
  <2> QED
    BY <1>3, <1>4, <2>1 DEF Along
<1>6. isAfter(f)
  BY <1>5
<1>7. isAfter(after)
  BY <1>6
<1> HIDE DEF after
<1>8. after[0] = a /\ \A i \in 1 .. n : after[i] = MemTurn(after[i - 1], replies[i], l)
  BY <1>1, <1>7
<1> DEFINE T == {k \in Nat : k \in 0 .. n => after[k] = f[k]}
<1>9. 0 \in T
  BY <1>5, <1>8
<1>10. ASSUME NEW k \in Nat, k \in T PROVE k + 1 \in T
  <2> SUFFICES ASSUME k + 1 \in 0 .. n PROVE after[k + 1] = f[k + 1]
    OBVIOUS
  <2>1. k + 1 \in 1 .. n /\ k \in 0 .. n /\ (k + 1) - 1 = k
    OBVIOUS
  <2> QED
    BY <1>5, <1>8, <1>10, <2>1
<1>11. Nat \subseteq T
  <2> HIDE DEF T
  <2> QED
    BY <1>9, <1>10, Induction
<1>12. after[n] = f[n]
  BY <1>1, <1>11
<1> QED
  BY <1>2, <1>5, <1>12 DEF l, a

LEMMA CacheLoop ==
    ASSUME NEW replies \in Seq(Sizes), NEW cut \in Int, CacheBytes(replies) \in Int
    PROVE  LET l == CacheBytes(replies) - cut
           IN  \E f \in [0 .. Len(replies) -> ReplyStates] :
                  /\ f[0] = Begin(l)
                  /\ \A i \in 1 .. Len(replies) : f[i] = CacheTurn(f[i - 1], replies[i], l)
                  /\ Mrcache(replies, cut) = f[Len(replies)].out
<1> DEFINE n == Len(replies)
           l == CacheBytes(replies) - cut
           a == Begin(l)
           step == [i \in 1 .. n |-> [v \in ReplyStates |-> CacheTurn(v, replies[i], l)]]
           isAfter(f) == f = [i \in 0 .. Len(replies) |-> IF i = 0 THEN a ELSE CacheTurn(f[i - 1], replies[i], l)]
           after == CHOOSE f : isAfter(f)
<1>1. n \in Nat /\ l \in Int /\ a \in ReplyStates /\ \A i \in 1 .. n : replies[i] \in Sizes
  <2>1. n \in Nat /\ l \in Int /\ \A i \in 1 .. n : replies[i] \in Sizes
    BY ElementOfSeq
  <2> QED
    BY <2>1, BeginIs
<1>2. Mrcache(replies, cut) = after[Len(replies)].out
  BY DEF Mrcache
<1> HIDE DEF l, a
<1>3. step \in [1 .. n -> [ReplyStates -> ReplyStates]] /\ \A i \in 1 .. n, v \in ReplyStates : step[i][v] = CacheTurn(v, replies[i], l)
  BY <1>1, CacheTurnTyped
<1> HIDE DEF step
<1>4. PICK f \in [0 .. n -> ReplyStates] : Along(f, n, a, step)
  <2>1. step \in [1 .. n -> [ReplyStates -> ReplyStates]]
    BY <1>3
  <2> HIDE DEF n
  <2> QED
    BY <1>1, <2>1, RecursionTo
<1>5. f[0] = a /\ \A i \in 1 .. n : f[i] = CacheTurn(f[i - 1], replies[i], l)
  <2>1. \A i \in 1 .. n : f[i - 1] \in ReplyStates
    BY <1>4
  <2> QED
    BY <1>3, <1>4, <2>1 DEF Along
<1>6. isAfter(f)
  BY <1>5
<1>7. isAfter(after)
  BY <1>6
<1> HIDE DEF after
<1>8. after[0] = a /\ \A i \in 1 .. n : after[i] = CacheTurn(after[i - 1], replies[i], l)
  BY <1>1, <1>7
<1> DEFINE T == {k \in Nat : k \in 0 .. n => after[k] = f[k]}
<1>9. 0 \in T
  BY <1>5, <1>8
<1>10. ASSUME NEW k \in Nat, k \in T PROVE k + 1 \in T
  <2> SUFFICES ASSUME k + 1 \in 0 .. n PROVE after[k + 1] = f[k + 1]
    OBVIOUS
  <2>1. k + 1 \in 1 .. n /\ k \in 0 .. n /\ (k + 1) - 1 = k
    OBVIOUS
  <2> QED
    BY <1>5, <1>8, <1>10, <2>1
<1>11. Nat \subseteq T
  <2> HIDE DEF T
  <2> QED
    BY <1>9, <1>10, Induction
<1>12. after[n] = f[n]
  BY <1>1, <1>11
<1> QED
  BY <1>2, <1>5, <1>12 DEF l, a

LEMMA SumsGrow ==
    ASSUME NEW n \in Nat, NEW f \in [0 .. n -> Nat], \A i \in 1 .. n : f[i - 1] <= f[i]
    PROVE  \A k \in 0 .. n : f[k] <= f[n]
<1> DEFINE T == {j \in Nat : j \in 0 .. n => \A k \in 0 .. j : f[k] <= f[j]}
<1>1. 0 \in T
  OBVIOUS
<1>2. ASSUME NEW j \in Nat, j \in T PROVE j + 1 \in T
  <2> SUFFICES ASSUME j + 1 \in 0 .. n, NEW k \in 0 .. j + 1 PROVE f[k] <= f[j + 1]
    OBVIOUS
  <2>1. j + 1 \in 1 .. n /\ j \in 0 .. n /\ (j + 1) - 1 = j
    OBVIOUS
  <2>2. f[j] <= f[j + 1] /\ f[j] \in Nat /\ f[j + 1] \in Nat /\ f[k] \in Nat
    BY <2>1
  <2>3. k = j + 1 \/ f[k] <= f[j]
    BY <1>2, <2>1
  <2> QED
    BY <2>2, <2>3
<1>3. Nat \subseteq T
  <2> HIDE DEF T
  <2> QED
    BY <1>1, <1>2, Induction
<1> QED
  BY <1>3

RightOf(x) == Callback(IF x = Missing THEN 0 ELSE x, TRUE)

LEMMA MemTurnIs ==
    ASSUME NEW s \in ReplyStates, NEW x \in Sizes, NEW l \in Int,
           s.going = TRUE, s.p + MemLength(x) <= l
    PROVE  LET t == MemTurn(s, x, l)
           IN  t.p = s.p + MemLength(x) /\ t.out = Append(s.out, RightOf(x)) /\ t.going = TRUE
<1>1. s.p \in Nat /\ MemLength(x) >= 1 /\ MemLength(x) \in Nat
  BY LengthsAre DEF ReplyStates
<1>2. GoesOn(s, l)
  BY <1>1 DEF GoesOn
<1>3. MemTurn(s, x, l) = Hands(s, IF x = Missing THEN 0 ELSE x, TRUE, MemLength(x))
  <2>1. CASE x = Missing
    BY <1>2, <2>1 DEF MemTurn, MemReply, MemLength
  <2>2. CASE x # Missing
    <3>1. /\ x \in Nat /\ MemHeader(x) \in Nat /\ MemLength(x) = MemHeader(x) + x + 7
          /\ 53 <= MemHeader(x)
      BY <2>2, LengthsAre
    <3>2. ~(s.p + MemHeader(x) > l) /\ ~MemPartial(l, x) /\ (s.p + MemHeader(x) + x <= l) = TRUE
      BY <1>1, <3>1 DEF MemPartial
    <3> QED
      BY <1>2, <2>2, <3>2, Zenon DEF MemTurn, MemReply
  <2> QED
    BY <2>1, <2>2
<1>4. (IF x = Missing THEN 0 ELSE x) \in Int /\ TRUE \in BOOLEAN
  BY DEF Sizes
<1>5. LET content == IF x = Missing THEN 0 ELSE x
          t    == Hands(s, content, TRUE, MemLength(x))
      IN  /\ t.p = s.p + MemLength(x) /\ t.out = Append(s.out, Callback(content, TRUE))
          /\ t.going = s.going
  BY <1>1, <1>4, HandsIs, Zenon
<1> QED
  BY <1>3, <1>5, Zenon DEF RightOf

LEMMA CacheTurnIs ==
    ASSUME NEW s \in ReplyStates, NEW x \in Sizes, NEW l \in Int,
           s.going = TRUE, s.p + CacheLength(x) <= l, s.left >= l - s.p
    PROVE  LET t == CacheTurn(s, x, l)
           IN  /\ t.p = s.p + CacheLength(x) /\ t.out = Append(s.out, RightOf(x)) /\ t.going = TRUE
               /\ t.left >= l - t.p
<1>1. s.p \in Nat /\ s.left \in Int /\ CacheLength(x) >= 1 /\ CacheLength(x) \in Nat
  BY LengthsAre DEF ReplyStates
<1>2. GoesOn(s, l)
  BY <1>1 DEF GoesOn
<1>3. CacheLength(x) = IF x \in {Missing, 0} THEN 4 ELSE 4 + x
  BY DEF CacheLength, Sizes
<1>4. ~(s.left < 4) /\ ~(s.p + 4 > l)
  <2>1. CacheLength(x) >= 4
    BY DEF CacheLength, Sizes, Missing
  <2> QED
    BY <1>1, <2>1
<1>5. CASE x \in {Missing, 0}
  <2>1. CacheTurn(s, x, l) = Hands(s, 0, TRUE, 4) /\ RightOf(x) = Callback(0, TRUE)
    BY <1>2, <1>4, <1>5 DEF CacheTurn, CacheReply, RightOf
  <2>2. 0 \in Int /\ TRUE \in BOOLEAN /\ 4 \in Nat
    OBVIOUS
  <2>3. LET t == Hands(s, 0, TRUE, 4)
        IN  t.p = s.p + 4 /\ t.left = s.left /\ t.out = Append(s.out, Callback(0, TRUE)) /\ t.going = s.going
    BY <2>2, HandsIs, Zenon
  <2> DEFINE t == CacheTurn(s, x, l)
  <2>4. t.p = s.p + 4 /\ t.left = s.left /\ t.out = Append(s.out, RightOf(x)) /\ t.going = s.going
    BY <2>1, <2>3, Zenon
  <2> HIDE DEF t
  <2> QED
    BY <1>1, <1>3, <1>5, <2>4 DEF t
<1>6. CASE x \notin {Missing, 0}
  <2> DEFINE u == [s EXCEPT !.left = @ - (4 + x)]
  <2>1. x \in Nat /\ x \in Int /\ CacheLength(x) = 4 + x /\ 4 + x \in Nat /\ TRUE \in BOOLEAN
    BY <1>3, <1>6 DEF Sizes
  <2>2. ~(s.left - 4 < x) /\ (s.p + 4 + x <= l) = TRUE
    BY <1>1, <2>1
  <2>3. CacheTurn(s, x, l) = Hands(u, x, TRUE, 4 + x)
    BY <1>2, <1>4, <1>6, <2>2, Zenon DEF CacheTurn, CacheReply
  <2>4. u \in ReplyStates /\ u.p = s.p /\ u.left = s.left - (4 + x) /\ u.out = s.out
    <3>1. s.left - (4 + x) \in Int
      BY <1>1, <2>1
    <3>2. u \in ReplyStates
      BY <3>1 DEF ReplyStates
    <3> QED
      BY <3>2 DEF ReplyStates
  <2>5. u.going = s.going
    BY DEF ReplyStates
  <2> HIDE DEF u
  <2>6. RightOf(x) = Callback(x, TRUE)
    BY <1>6 DEF RightOf
  <2>7. LET t == Hands(u, x, TRUE, 4 + x)
        IN  t.p = u.p + (4 + x) /\ t.left = u.left /\ t.out = Append(u.out, Callback(x, TRUE)) /\ t.going = u.going
    BY <2>1, <2>4, HandsIs, Zenon
  <2> DEFINE t == CacheTurn(s, x, l)
  <2>8. t.p = s.p + (4 + x) /\ t.left = s.left - (4 + x) /\ t.out = Append(s.out, RightOf(x)) /\ t.going = s.going
    BY <2>3, <2>4, <2>5, <2>6, <2>7, Zenon
  <2> HIDE DEF t
  <2> QED
    BY <1>1, <2>1, <2>8 DEF t
<1> QED
  BY <1>5, <1>6

(* The callbacks of the first k replies.                                   *)
RightUpTo(replies, k) == [i \in 1 .. k |-> RightOf(replies[i])]

LEMMA RightTyped ==
    ASSUME NEW x \in Sizes PROVE RightOf(x) \in Outcome
<1>1. (IF x = Missing THEN 0 ELSE x) \in Int /\ TRUE \in BOOLEAN
  BY DEF Sizes
<1> QED
  BY <1>1, OutcomesAre, Zenon DEF RightOf

LEMMA RightGrows ==
    ASSUME NEW replies \in Seq(Sizes), NEW k \in Nat, k + 1 <= Len(replies)
    PROVE  Append(RightUpTo(replies, k), RightOf(replies[k + 1])) = RightUpTo(replies, k + 1)
<1>1. \A i \in 1 .. k + 1 : RightOf(replies[i]) \in Outcome
  <2>1. \A i \in 1 .. k + 1 : replies[i] \in Sizes
    BY ElementOfSeq
  <2> QED
    BY <2>1, RightTyped
<1>2. /\ RightUpTo(replies, k) \in Seq(Outcome) /\ Len(RightUpTo(replies, k)) = k
      /\ RightUpTo(replies, k + 1) \in Seq(Outcome) /\ Len(RightUpTo(replies, k + 1)) = k + 1
      /\ \A i \in 1 .. k : RightUpTo(replies, k)[i] = RightOf(replies[i])
      /\ \A i \in 1 .. k + 1 : RightUpTo(replies, k + 1)[i] = RightOf(replies[i])
  BY <1>1 DEF RightUpTo
<1> DEFINE s == RightUpTo(replies, k)
           x == RightOf(replies[k + 1])
           t == Append(s, x)
<1>3. x \in Outcome
  BY <1>1
<1> HIDE DEF s, x
<1>4. t \in Seq(Outcome) /\ Len(t) = k + 1 /\ \A i \in 1 .. k + 1 : t[i] = IF i = k + 1 THEN x ELSE s[i]
  BY <1>2, <1>3, AppendProperties DEF s
<1> HIDE DEF t
<1>5. \A i \in 1 .. Len(t) : t[i] = RightUpTo(replies, k + 1)[i]
  BY <1>2, <1>4 DEF s, x
<1>6. t = RightUpTo(replies, k + 1)
  BY <1>2, <1>4, <1>5, SeqEqual
<1> QED
  BY <1>6 DEF t, s, x

LEMMA MemcachedRight ==
    ASSUME NEW replies \in Seq(Sizes)
    PROVE  Memcached(replies, 0) = RightCallbacks(replies)
<1> DEFINE n == Len(replies)
           l == MemBytes(replies)
<1>1. PICK u \in [0 .. n -> Nat] :
         u[0] = 0 /\ (\A i \in 1 .. n : u[i] = u[i - 1] + MemLength(replies[i])) /\ MemBytes(replies) = u[n]
  BY MemBytesAre
<1>2. n \in Nat /\ l \in Int /\ l - 0 = l /\ \A i \in 1 .. n : replies[i] \in Sizes /\ MemLength(replies[i]) \in Nat
  <2>1. \A i \in 1 .. n : replies[i] \in Sizes
    BY ElementOfSeq
  <2> QED
    BY <1>1, <2>1, LengthsAre
<1>3. PICK f \in [0 .. n -> ReplyStates] :
         f[0] = Begin(l) /\ (\A i \in 1 .. n : f[i] = MemTurn(f[i - 1], replies[i], l)) /\ Memcached(replies, 0) = f[n].out
  <2>1. 0 \in Int /\ MemBytes(replies) - 0 = MemBytes(replies) /\ MemBytes(replies) \in Int
    BY <1>2
  <2> QED
    BY <2>1, MemLoop
<1>4. \A k \in 0 .. n : u[k] <= l
  <2>1. \A i \in 1 .. n : u[i - 1] <= u[i]
    <3>1. \A i \in 1 .. n : i - 1 \in 0 .. n /\ u[i - 1] \in Nat
      BY <1>2
    <3> QED
      BY <1>1, <1>2, <3>1
  <2> HIDE DEF n
  <2> QED
    BY <1>1, <1>2, <2>1, SumsGrow
<1> HIDE DEF l
<1> DEFINE right(k) == f[k].p = u[k] /\ f[k].going = TRUE /\ f[k].out = RightUpTo(replies, k)
           T == {k \in Nat : k \in 0 .. n => right(k)}
<1>5. 0 \in T
  <2>1. RightUpTo(replies, 0) = <<>>
    BY DEF RightUpTo
  <2>2. right(0)
    BY <1>1, <1>2, <1>3, <2>1, BeginIs
  <2> QED
    BY <2>2
<1>6. ASSUME NEW k \in Nat, k \in T PROVE k + 1 \in T
  <2> SUFFICES ASSUME k + 1 \in 0 .. n PROVE right(k + 1)
    <3> HIDE DEF right
    <3> QED
      OBVIOUS
  <2>1. k + 1 \in 1 .. n /\ k \in 0 .. n /\ (k + 1) - 1 = k /\ k + 1 <= n
    BY <1>2
  <2> DEFINE x == replies[k + 1]
  <2>2. x \in Sizes /\ f[k] \in ReplyStates /\ f[k + 1] = MemTurn(f[k], x, l) /\ u[k + 1] = u[k] + MemLength(x)
    BY <1>1, <1>2, <1>3, <2>1
  <2>3. right(k)
    BY <1>6, <2>1
  <2> HIDE DEF x
  <2>4. f[k].p + MemLength(x) <= l /\ f[k].going = TRUE
    BY <1>4, <2>1, <2>2, <2>3
  <2>5. LET t == MemTurn(f[k], x, l)
        IN  t.p = f[k].p + MemLength(x) /\ t.out = Append(f[k].out, RightOf(x)) /\ t.going = TRUE
    BY <1>2, <2>2, <2>4, MemTurnIs, Zenon
  <2>6. Append(RightUpTo(replies, k), RightOf(x)) = RightUpTo(replies, k + 1)
    BY <2>1, RightGrows DEF x
  <2> QED
    BY <2>2, <2>3, <2>5, <2>6, Zenon
<1>7. Nat \subseteq T
  <2> HIDE DEF T
  <2> QED
    BY <1>5, <1>6, Induction
<1>8. f[n].out = RightUpTo(replies, n)
  BY <1>2, <1>7
<1>9. RightUpTo(replies, n) = RightCallbacks(replies)
  BY DEF RightUpTo, RightCallbacks, RightOf
<1> QED
  BY <1>3, <1>8, <1>9

LEMMA MrcacheRight ==
    ASSUME NEW replies \in Seq(Sizes)
    PROVE  Mrcache(replies, 0) = RightCallbacks(replies)
<1> DEFINE n == Len(replies)
           l == CacheBytes(replies)
<1>1. PICK u \in [0 .. n -> Nat] :
         u[0] = 0 /\ (\A i \in 1 .. n : u[i] = u[i - 1] + CacheLength(replies[i])) /\ CacheBytes(replies) = u[n]
  BY CacheBytesAre
<1>2. n \in Nat /\ l \in Int /\ l - 0 = l /\ \A i \in 1 .. n : replies[i] \in Sizes /\ CacheLength(replies[i]) \in Nat
  <2>1. \A i \in 1 .. n : replies[i] \in Sizes
    BY ElementOfSeq
  <2> QED
    BY <1>1, <2>1, LengthsAre
<1>3. PICK f \in [0 .. n -> ReplyStates] :
         f[0] = Begin(l) /\ (\A i \in 1 .. n : f[i] = CacheTurn(f[i - 1], replies[i], l)) /\ Mrcache(replies, 0) = f[n].out
  <2>1. 0 \in Int /\ CacheBytes(replies) - 0 = CacheBytes(replies) /\ CacheBytes(replies) \in Int
    BY <1>2
  <2> QED
    BY <2>1, CacheLoop
<1>4. \A k \in 0 .. n : u[k] <= l
  <2>1. \A i \in 1 .. n : u[i - 1] <= u[i]
    <3>1. \A i \in 1 .. n : i - 1 \in 0 .. n /\ u[i - 1] \in Nat
      BY <1>2
    <3> QED
      BY <1>1, <1>2, <3>1
  <2> HIDE DEF n
  <2> QED
    BY <1>1, <1>2, <2>1, SumsGrow
<1> HIDE DEF l
<1> DEFINE right(k) == f[k].p = u[k] /\ f[k].going = TRUE /\ f[k].out = RightUpTo(replies, k) /\ f[k].left >= l - f[k].p
           T == {k \in Nat : k \in 0 .. n => right(k)}
<1>5. 0 \in T
  <2>1. RightUpTo(replies, 0) = <<>>
    BY DEF RightUpTo
  <2>2. right(0)
    BY <1>1, <1>2, <1>3, <2>1, BeginIs
  <2> QED
    BY <2>2
<1>6. ASSUME NEW k \in Nat, k \in T PROVE k + 1 \in T
  <2> SUFFICES ASSUME k + 1 \in 0 .. n PROVE right(k + 1)
    <3> HIDE DEF right
    <3> QED
      OBVIOUS
  <2>1. k + 1 \in 1 .. n /\ k \in 0 .. n /\ (k + 1) - 1 = k /\ k + 1 <= n
    BY <1>2
  <2> DEFINE x == replies[k + 1]
  <2>2. x \in Sizes /\ f[k] \in ReplyStates /\ f[k + 1] = CacheTurn(f[k], x, l) /\ u[k + 1] = u[k] + CacheLength(x)
    BY <1>1, <1>2, <1>3, <2>1
  <2>3. right(k)
    BY <1>6, <2>1
  <2> HIDE DEF x
  <2>4. f[k].p + CacheLength(x) <= l /\ f[k].going = TRUE /\ f[k].left >= l - f[k].p
    BY <1>4, <2>1, <2>2, <2>3
  <2>5. LET t == CacheTurn(f[k], x, l)
        IN  /\ t.p = f[k].p + CacheLength(x) /\ t.out = Append(f[k].out, RightOf(x)) /\ t.going = TRUE
            /\ t.left >= l - t.p
    BY <1>2, <2>2, <2>4, CacheTurnIs, Zenon
  <2>6. Append(RightUpTo(replies, k), RightOf(x)) = RightUpTo(replies, k + 1)
    BY <2>1, RightGrows DEF x
  <2> QED
    BY <2>2, <2>3, <2>5, <2>6, Zenon
<1>7. Nat \subseteq T
  <2> HIDE DEF T
  <2> QED
    BY <1>5, <1>6, Induction
<1>8. f[n].out = RightUpTo(replies, n)
  BY <1>2, <1>7
<1>9. RightUpTo(replies, n) = RightCallbacks(replies)
  BY DEF RightUpTo, RightCallbacks, RightOf
<1> QED
  BY <1>3, <1>8, <1>9

(* Replies that are cut short.                                             *)
LEMMA WholeGrows ==
    ASSUME NEW s \in Seq(Outcome), NEW c \in Outcome, c.whole = TRUE, Whole(s)
    PROVE  Whole(Append(s, c))
<1> DEFINE t == Append(s, c)
<1>1. Len(t) = Len(s) + 1 /\ \A i \in 1 .. Len(t) : t[i] = IF i = Len(s) + 1 THEN c ELSE s[i]
  BY AppendProperties
<1> HIDE DEF t
<1>2. ASSUME NEW i \in 1 .. Len(t) PROVE t[i].whole
  <2>1. CASE i = Len(s) + 1
    BY <1>1, <2>1
  <2>2. CASE i # Len(s) + 1
    <3>1. i \in 1 .. Len(s) /\ t[i] = s[i]
      BY <1>1, <2>2
    <3> QED
      BY <3>1 DEF Whole
  <2> QED
    BY <2>1, <2>2
<1>3. Whole(t)
  BY <1>2 DEF Whole
<1> QED
  BY <1>3 DEF t

LEMMA CacheTurnWhole ==
    ASSUME NEW s \in ReplyStates, NEW x \in Sizes, x \notin {Missing, 0}, NEW l \in Int,
           s.going = TRUE => s.left = l - s.p, Whole(s.out)
    PROVE  LET t == CacheTurn(s, x, l)
           IN  (t.going = TRUE => t.left = l - t.p) /\ Whole(t.out)
<1>1. s.p \in Nat /\ s.left \in Int /\ s.out \in Seq(Outcome) /\ s.going \in BOOLEAN /\ x \in Nat
  BY LengthsAre DEF ReplyStates
<1>2. CASE ~GoesOn(s, l)
  BY <1>2 DEF CacheTurn
<1>3. CASE GoesOn(s, l)
  <2>1. s.going = TRUE /\ s.left = l - s.p
    BY <1>1, <1>3 DEF GoesOn
  <2>2. CASE s.left < 4 \/ s.left - 4 < x
    <3>1. CacheTurn(s, x, l) = Stops(s, Exit)
      <4>1. s.left < 4 \/ ~(s.p + 4 > l)
        BY <1>1, <2>1
      <4> QED
        BY <1>3, <2>2, <4>1, Zenon DEF CacheTurn, CacheReply
    <3>2. Exit \in Outcome /\ Exit.whole = TRUE
      BY OutcomesAre
    <3>3. Stops(s, Exit).going = FALSE /\ Stops(s, Exit).out = Append(s.out, Exit)
      BY <3>2, StopsIs
    <3>4. Whole(Append(s.out, Exit))
      BY <1>1, <3>2, WholeGrows
    <3> QED
      BY <3>1, <3>3, <3>4, Zenon
  <2>3. CASE ~(s.left < 4 \/ s.left - 4 < x)
    <3> DEFINE u == [s EXCEPT !.left = @ - (4 + x)]
    <3>1. ~(s.p + 4 > l) /\ (s.p + 4 + x <= l) = TRUE /\ 4 + x \in Nat /\ x \in Int /\ TRUE \in BOOLEAN
      BY <1>1, <2>1, <2>3
    <3>2. CacheTurn(s, x, l) = Hands(u, x, TRUE, 4 + x)
      BY <1>3, <2>3, <3>1, Zenon DEF CacheTurn, CacheReply
    <3>3. u \in ReplyStates /\ u.p = s.p /\ u.left = s.left - (4 + x) /\ u.out = s.out
      <4>1. s.left - (4 + x) \in Int
        BY <1>1
      <4>2. u \in ReplyStates
        BY <4>1 DEF ReplyStates
      <4> QED
        BY <4>2 DEF ReplyStates
    <3> HIDE DEF u
    <3>4. LET t == Hands(u, x, TRUE, 4 + x)
          IN  t.p = u.p + (4 + x) /\ t.left = u.left /\ t.out = Append(u.out, Callback(x, TRUE))
      BY <3>1, <3>3, HandsIs, Zenon
    <3>5. Callback(x, TRUE) \in Outcome /\ Callback(x, TRUE).whole = TRUE
      BY <3>1, OutcomesAre, Zenon
    <3>6. Whole(Append(s.out, Callback(x, TRUE)))
      BY <1>1, <3>5, WholeGrows
    <3> DEFINE t == CacheTurn(s, x, l)
    <3>7. t.p = s.p + (4 + x) /\ t.left = s.left - (4 + x) /\ t.out = Append(s.out, Callback(x, TRUE))
      BY <3>2, <3>3, <3>4, Zenon
    <3> HIDE DEF t
    <3>8. t.left = l - t.p
      BY <1>1, <2>1, <3>7
    <3>9. Whole(t.out)
      BY <3>6, <3>7
    <3> QED
      BY <3>8, <3>9 DEF t
  <2> QED
    BY <2>2, <2>3
<1> QED
  BY <1>2, <1>3

LEMMA MrcacheWhole ==
    ASSUME NEW replies \in Seq(Sizes), NEW cut \in Int,
           \A i \in 1 .. Len(replies) : replies[i] \notin {Missing, 0}
    PROVE  Whole(Mrcache(replies, cut))
<1> DEFINE n == Len(replies)
           l == CacheBytes(replies) - cut
<1>1. CacheBytes(replies) \in Int
  BY CacheBytesAre
<1>2. PICK f \in [0 .. n -> ReplyStates] :
         f[0] = Begin(l) /\ (\A i \in 1 .. n : f[i] = CacheTurn(f[i - 1], replies[i], l)) /\ Mrcache(replies, cut) = f[n].out
  BY <1>1, CacheLoop
<1>3. n \in Nat /\ l \in Int /\ \A i \in 1 .. n : replies[i] \in Sizes
  BY <1>1, ElementOfSeq
<1> HIDE DEF l
<1> DEFINE right(k) == (f[k].going = TRUE => f[k].left = l - f[k].p) /\ Whole(f[k].out)
           T == {k \in Nat : k \in 0 .. n => right(k)}
<1>4. 0 \in T
  <2>1. f[0].left = l /\ f[0].p = 0 /\ f[0].out = <<>>
    BY <1>2, <1>3, BeginIs
  <2>2. right(0)
    BY <1>3, <2>1 DEF Whole
  <2> QED
    BY <2>2
<1>5. ASSUME NEW k \in Nat, k \in T PROVE k + 1 \in T
  <2> SUFFICES ASSUME k + 1 \in 0 .. n PROVE right(k + 1)
    <3> HIDE DEF right
    <3> QED
      OBVIOUS
  <2>1. k + 1 \in 1 .. n /\ k \in 0 .. n /\ (k + 1) - 1 = k
    BY <1>3
  <2>2. /\ replies[k + 1] \in Sizes /\ replies[k + 1] \notin {Missing, 0}
        /\ f[k] \in ReplyStates /\ f[k + 1] = CacheTurn(f[k], replies[k + 1], l)
    BY <1>2, <1>3, <2>1
  <2>3. right(k)
    <3> HIDE DEF right
    <3> QED
      BY <1>5, <2>1
  <2> QED
    BY <1>3, <2>2, <2>3, CacheTurnWhole, Zenon
<1>6. Nat \subseteq T
  <2> HIDE DEF T
  <2> QED
    BY <1>4, <1>5, Induction
<1>7. right(n)
  <2> HIDE DEF right
  <2> QED
    BY <1>3, <1>6
<1> QED
  BY <1>2, <1>7

LEMMA MemcachedWhole ==
    ASSUME NEW replies \in Seq(Sizes), Len(replies) = 1, replies[1] # Missing,
           NEW cut \in Nat, cut < MemLength(replies[1]) - MemHeader(replies[1])
    PROVE  Whole(Memcached(replies, cut))
<1> DEFINE x == replies[1]
           l == MemBytes(replies) - cut
<1>1. x \in Sizes
  BY ElementOfSeq
<1>2. /\ x \in Nat /\ MemHeader(x) \in Nat /\ MemHeader(x) <= 60 /\ 53 <= MemHeader(x)
      /\ MemLength(x) = MemHeader(x) + x + 7
  BY <1>1, LengthsAre
<1>3. MemBytes(replies) = MemLength(x)
  <2>1. PICK u \in [0 .. Len(replies) -> Nat] :
           u[0] = 0 /\ (\A i \in 1 .. Len(replies) : u[i] = u[i - 1] + MemLength(replies[i])) /\ MemBytes(replies) = u[Len(replies)]
    BY MemBytesAre
  <2>2. 1 \in 1 .. Len(replies) /\ 1 - 1 = 0
    OBVIOUS
  <2>3. u[1] = u[0] + MemLength(x)
    BY <2>1, <2>2
  <2> QED
    BY <1>2, <2>1, <2>3
<1>4. l \in Int /\ l = MemHeader(x) + x + 7 - cut /\ cut < x + 7
  BY <1>2, <1>3
<1>5. PICK f \in [0 .. Len(replies) -> ReplyStates] :
         f[0] = Begin(l) /\ (\A i \in 1 .. Len(replies) : f[i] = MemTurn(f[i - 1], replies[i], l)) /\ Memcached(replies, cut) = f[Len(replies)].out
  <2>1. MemBytes(replies) \in Int /\ cut \in Int
    BY <1>2, <1>3
  <2> QED
    BY <2>1, MemLoop
<1> HIDE DEF x, l
<1> DEFINE s == Begin(l)
<1>6. Memcached(replies, cut) = MemTurn(s, x, l).out
  <2>1. 1 \in 1 .. Len(replies) /\ 1 - 1 = 0
    OBVIOUS
  <2>2. f[1] = MemTurn(f[0], x, l)
    BY <1>5, <2>1 DEF x
  <2> QED
    BY <1>5, <2>2
<1>7. s \in ReplyStates /\ s.p = 0 /\ s.going = TRUE /\ s.out = <<>>
  BY <1>4, BeginIs
<1> HIDE DEF s
<1>8. GoesOn(s, l) /\ ~(s.p + MemHeader(x) > l) /\ x # Missing
  BY <1>2, <1>4, <1>7 DEF GoesOn, Missing
<1>9. <<>> \in Seq(Outcome) /\ Whole(<<>>)
  BY DEF Whole
<1>10. CASE MemPartial(l, x)
  <2>1. MemTurn(s, x, l) = Stops(s, Exit)
    BY <1>8, <1>10 DEF MemTurn, MemReply
  <2>2. Exit \in Outcome /\ Exit.whole = TRUE
    BY OutcomesAre
  <2>3. Stops(s, Exit).out = Append(<<>>, Exit)
    BY <1>7, <2>2, StopsIs
  <2> QED
    BY <1>6, <1>9, <2>1, <2>2, <2>3, WholeGrows
<1>11. CASE ~MemPartial(l, x)
  <2>1. (s.p + MemHeader(x) + x <= l) = TRUE
    BY <1>2, <1>4, <1>7, <1>11 DEF MemPartial
  <2>2. MemTurn(s, x, l) = Hands(s, x, TRUE, MemLength(x))
    BY <1>8, <1>11, <2>1, Zenon DEF MemTurn, MemReply
  <2>3. x \in Int /\ TRUE \in BOOLEAN /\ MemLength(x) \in Nat
    BY <1>2
  <2>4. Hands(s, x, TRUE, MemLength(x)).out = Append(s.out, Callback(x, TRUE))
    BY <1>7, <2>3, HandsIs, Zenon
  <2>5. Callback(x, TRUE) \in Outcome /\ Callback(x, TRUE).whole = TRUE
    BY <2>3, OutcomesAre, Zenon
  <2>6. Whole(Append(<<>>, Callback(x, TRUE)))
    BY <1>9, <2>5, WholeGrows
  <2> QED
    BY <1>6, <1>7, <2>2, <2>4, <2>6, Zenon
<1> QED
  BY <1>10, <1>11

LEMMA RepliesHold == (subject \in DOMAIN Pieces /\ input \in Seq(Pieces[subject])) => RepliesRight
<1> SUFFICES ASSUME subject = "replies", input \in Seq(Pieces[subject])
             PROVE  /\ Memcached(input, 0) = RightCallbacks(input)
                    /\ Mrcache(input, 0) = RightCallbacks(input)
                    /\ \A cut \in 1 .. MaxCut :
                          /\ (\A i \in 1 .. Len(input) : input[i] \notin {Missing, 0}) => Whole(Mrcache(input, cut))
                          /\ (Len(input) = 1 /\ input[1] # Missing /\ cut < MemLength(input[1]) - MemHeader(input[1])) =>
                                Whole(Memcached(input, cut))
  BY Zenon DEF RepliesRight
<1>1. input \in Seq(Sizes)
  <2>1. \A r \in Pieces.replies : r = Missing \/ (r \in Nat /\ r <= 99999999)
    BY PiecesAssumption, SMT DEF ReplyPieces
  <2>2. \A r \in Pieces.replies : r \in Sizes
    BY <2>1, SMT DEF Sizes, Missing
  <2>3. input \in Seq(Pieces.replies)
    OBVIOUS
  <2> QED
    BY <2>2, <2>3
<1>2. \A cut \in 1 .. MaxCut : cut \in Int /\ cut \in Nat
  OBVIOUS
<1> QED
  BY <1>1, <1>2, MemcachedRight, MrcacheRight, MrcacheWhole, MemcachedWhole, Zenon

(* Replies that come in whole are handed over in order, each with its own  *)
(* session; of those that are cut short no callback gets bytes that have   *)
(* not come.                                                               *)
THEOREM RepliesRightAlways == InputSpec => []RepliesRight
  BY RepliesHold, InputsTyped, PTL

-----------------------------------------------------------------------------
(* What decimal says is what was written.                                  *)
LEMMA QuotientIs ==
    ASSUME NEW n \in Nat, NEW q \in Nat \ {0}, NEW a \in Nat, NEW r \in Nat, n = q * a + r, r < q
    PROVE  n \div q = a
  OBVIOUS

LEMMA TenQuotient ==
    ASSUME NEW n \in Nat, NEW q \in Nat \ {0}
    PROVE  /\ n \div q \in Nat
           /\ n \div (10 * q) = (n \div q) \div 10
<1> DEFINE a == n \div q
           r == n % q
           b == a \div 10
           s == a % 10
<1>1. a \in Nat /\ r \in Nat /\ r < q /\ n = q * a + r
  OBVIOUS
<1> HIDE DEF a, r
<1>2. b \in Nat /\ s \in 0 .. 9 /\ a = 10 * b + s
  BY <1>1
<1> HIDE DEF b, s
<1>3. q * s + r \in Nat /\ q * s + r < 10 * q
  <2>1. s <= 9 /\ s \in Nat
    BY <1>2
  <2>2. q * s <= q * 9 /\ q * s \in Nat
    BY <2>1
  <2> QED
    BY <1>1, <2>2
<1>4. n = (10 * q) * b + (q * s + r)
  <2>1. q * a = q * (10 * b + s)
    BY <1>2
  <2>2. q * (10 * b + s) = (10 * q) * b + q * s
    BY <1>2
  <2> QED
    BY <1>1, <1>2, <2>1, <2>2
<1>5. 10 * q \in Nat \ {0}
  OBVIOUS
<1>6. n \div (10 * q) = b
  BY <1>2, <1>3, <1>4, <1>5, QuotientIs
<1> QED
  BY <1>1, <1>6 DEF a, b

LEMMA DecimalIs ==
    ASSUME NEW n \in Nat
    PROVE  /\ Decimal(n) \in Seq(Nat) /\ Len(Decimal(n)) = NumLength(n)
           /\ NumberOf(Decimal(n)) = n
<1> DEFINE len == NumLength(n)
           d == Decimal(n)
<1>1. len \in Nat /\ n < TenTo[len]
  BY NumLengthIs
<1> HIDE DEF len
<1>2. d = [i \in 1 .. len |-> (n \div TenTo[len - i]) % 10]
  BY DEF Decimal, len
<1>3. \A k \in 0 .. len : TenTo[len - k] \in Nat \ {0}
  <2> SUFFICES ASSUME NEW k \in 0 .. len PROVE TenTo[len - k] \in Nat \ {0}
    OBVIOUS
  <2>1. len - k \in Nat
    BY <1>1
  <2> QED
    BY <2>1, TenTimes, TenToGrows
<1>4. \A i \in 1 .. len : (n \div TenTo[len - i]) % 10 \in Nat
  <2> SUFFICES ASSUME NEW i \in 1 .. len PROVE (n \div TenTo[len - i]) % 10 \in Nat
    OBVIOUS
  <2>1. TenTo[len - i] \in Nat \ {0}
    BY <1>1, <1>3
  <2>2. n \div TenTo[len - i] \in Nat
    BY <2>1, TenQuotient
  <2> QED
    BY <2>2
<1>5. d \in Seq(Nat) /\ Len(d) = len /\ \A i \in 1 .. len : d[i] = (n \div TenTo[len - i]) % 10
  BY <1>1, <1>2, <1>4
<1> HIDE DEF d
<1>6. PICK f \in [0 .. Len(d) -> Nat] :
         f[0] = 0 /\ (\A i \in 1 .. Len(d) : f[i] = 10 * f[i - 1] + d[i]) /\ NumberOf(d) = f[Len(d)]
  BY <1>5, NumberIs
<1> DEFINE T == {k \in Nat : k \in 0 .. len => f[k] = n \div TenTo[len - k]}
<1>7. 0 \in T
  <2>1. TenTo[len] \in Nat \ {0} /\ n = TenTo[len] * 0 + n
    BY <1>1, <1>3
  <2>2. n \div TenTo[len] = 0
    BY <1>1, <2>1, QuotientIs
  <2> QED
    BY <1>1, <1>6, <2>2
<1>8. ASSUME NEW k \in Nat, k \in T PROVE k + 1 \in T
  <2> SUFFICES ASSUME k + 1 \in 0 .. len PROVE f[k + 1] = n \div TenTo[len - (k + 1)]
    OBVIOUS
  <2> DEFINE q == TenTo[len - (k + 1)]
  <2>1. k + 1 \in 1 .. len /\ k \in 0 .. len /\ (k + 1) - 1 = k /\ len - (k + 1) \in Nat /\ (len - (k + 1)) + 1 = len - k
    BY <1>1
  <2>2. q \in Nat \ {0} /\ TenTo[len - k] = 10 * q
    BY <1>3, <2>1, TenTimes
  <2>3. f[k] = n \div TenTo[len - k]
    BY <1>8, <2>1
  <2>4. f[k + 1] = 10 * f[k] + ((n \div q) % 10)
    <3>1. d[k + 1] = (n \div q) % 10 /\ k + 1 \in 1 .. Len(d)
      BY <1>5, <2>1
    <3>2. f[k + 1] = 10 * f[(k + 1) - 1] + d[k + 1]
      BY <1>6, <3>1
    <3> QED
      BY <2>1, <3>1, <3>2
  <2> HIDE DEF q
  <2>5. n \div q \in Nat /\ f[k] = (n \div q) \div 10
    BY <2>2, <2>3, TenQuotient
  <2>6. f[k + 1] = n \div q
    <3> DEFINE a == n \div q
    <3>1. a \in Nat /\ f[k + 1] = 10 * (a \div 10) + (a % 10)
      BY <2>4, <2>5
    <3> HIDE DEF a
    <3>2. f[k + 1] = a
      BY <3>1
    <3> QED
      BY <3>2 DEF a
  <2> QED
    BY <2>6 DEF q
<1>9. Nat \subseteq T
  <2> HIDE DEF T
  <2> QED
    BY <1>7, <1>8, Induction
<1>10. f[len] = n
  <2>1. f[len] = n \div TenTo[len - len]
    BY <1>1, <1>9
  <2>2. len - len = 0 /\ TenTo[0] = 1
    BY <1>1, TenToIs
  <2> QED
    BY <2>1, <2>2
<1> QED
  BY <1>5, <1>6, <1>10 DEF d, len

(* The commands that are sent.                                             *)
Size == {z \in Nat : z <= 1073741696}

LEMMA CommandIs ==
    ASSUME NEW c \in Pieces.sends
    PROVE  c.how \in {"set", "push", "pushj", "get"} /\ c.dsz \in Size /\ c.dsz \in Nat
  BY PiecesAssumption, SMT DEF CommandPieces, Size

Built == [command : Pieces.sends, needs : Nat, before : Nat, room : Nat, length : Nat]
SendStates == [bsz : Nat \ {0}, out : Seq(Built)]

Fits(o) ==
    /\ o.room >= o.before \/ o.command.how = "get"
    /\ \/ o.needs - HeaderOf(o.command.how) <= o.room
       \/ o.command.how = "push" /\ o.command.dsz > 2 * o.before
       \/ o.command.how = "get" /\ o.command.dsz > Kilo
    /\ o.length = o.command.dsz \/ (o.command.how \in {"set", "get"} /\ o.command.dsz >= 64 * Kilo)

LEMMA SendIs ==
    ASSUME NEW s \in SendStates, NEW c \in Pieces.sends
    PROVE  /\ Send(s, c) \in SendStates
           /\ \/ Send(s, c) = s
              \/ \E o \in Built : Fits(o) /\ Send(s, c).out = Append(s.out, o)
<1>1. c.how \in {"set", "push", "pushj", "get"} /\ c.dsz \in Nat
  BY CommandIs
<1>2. s.bsz \in Nat \ {0} /\ s.out \in Seq(Built)
  BY DEF SendStates
<1>3. CASE Refused(c.how, c.dsz)
  BY <1>3 DEF Send
<1>4. CASE ~Refused(c.how, c.dsz)
  <2> DEFINE room == RoomAfter(s.bsz, c.how, c.dsz)
             length == LengthField(c.how, c.dsz)
             o == [command |-> c, needs |-> HeaderOf(c.how) + c.dsz, before |-> s.bsz,
                   room |-> IF c.how = "get" THEN Kilo ELSE room, length |-> length]
  <2>1. room \in Nat \ {0} /\ room >= s.bsz
    <3>1. CASE c.dsz <= s.bsz \/ c.how = "get"
      BY <1>2, <3>1 DEF RoomAfter
    <3>2. CASE ~(c.dsz <= s.bsz \/ c.how = "get") /\ c.how = "set"
      <4>1. room = Doubled(s.bsz, c.dsz)
        BY <3>2 DEF RoomAfter
      <4> HIDE DEF room
      <4>2. room \in Nat /\ room >= s.bsz
        BY <1>1, <1>2, <4>1, DoubledFits
      <4> QED
        BY <1>2, <4>2
    <3>3. CASE ~(c.dsz <= s.bsz \/ c.how = "get") /\ c.how = "push"
      BY <1>2, <3>3 DEF RoomAfter
    <3>4. CASE ~(c.dsz <= s.bsz \/ c.how = "get") /\ c.how = "pushj"
      BY <1>1, <1>2, <1>4, <3>4, SMT DEF RoomAfter, Refused, Kilo
    <3> QED
      BY <1>1, <3>1, <3>2, <3>3, <3>4, Zenon
  <2>2. c.dsz <= room \/ (c.how = "push" /\ c.dsz > 2 * s.bsz) \/ c.how = "get"
    <3>1. CASE c.dsz <= s.bsz
      BY <1>1, <1>2, <2>1, <3>1
    <3>2. CASE ~(c.dsz <= s.bsz) /\ c.how = "set"
      <4>1. room = Doubled(s.bsz, c.dsz)
        BY <3>2 DEF RoomAfter
      <4> HIDE DEF room
      <4>2. c.dsz <= room
        BY <1>1, <1>2, <4>1, DoubledFits
      <4> QED
        BY <4>2
    <3>3. CASE ~(c.dsz <= s.bsz) /\ c.how = "push"
      BY <1>1, <1>2, <3>3 DEF RoomAfter
    <3>4. CASE ~(c.dsz <= s.bsz) /\ c.how = "pushj"
      BY <1>1, <1>2, <1>4, <3>4, SMT DEF RoomAfter, Refused, Kilo
    <3> QED
      BY <1>1, <3>1, <3>2, <3>3, <3>4, Zenon
  <2>3. length \in Nat /\ (length = c.dsz \/ (c.how \in {"set", "get"} /\ c.dsz >= 64 * Kilo))
    BY <1>1, SMT DEF LengthField, Kilo
  <2>4. HeaderOf(c.how) \in Nat /\ Kilo \in Nat
    BY DEF HeaderOf, Kilo
  <2>5. Send(s, c) = [bsz |-> room, out |-> Append(s.out, o)]
    BY <1>4, Zenon DEF Send
  <2> HIDE DEF room, length
  <2>6. o \in Built
    BY <1>1, <1>2, <2>1, <2>3, <2>4 DEF Built
  <2>7. /\ o.command = c /\ o.needs = HeaderOf(c.how) + c.dsz /\ o.before = s.bsz /\ o.length = length
        /\ o.room = IF c.how = "get" THEN Kilo ELSE room
    OBVIOUS
  <2> HIDE DEF o
  <2>8. Fits(o)
    <3>1. o.room >= o.before \/ o.command.how = "get"
      BY <2>1, <2>7
    <3>2. \/ o.needs - HeaderOf(o.command.how) <= o.room
          \/ o.command.how = "push" /\ o.command.dsz > 2 * o.before
          \/ o.command.how = "get" /\ o.command.dsz > Kilo
      BY <1>1, <1>2, <2>1, <2>2, <2>4, <2>7
    <3>3. o.length = o.command.dsz \/ (o.command.how \in {"set", "get"} /\ o.command.dsz >= 64 * Kilo)
      BY <2>3, <2>7
    <3> QED
      BY <3>1, <3>2, <3>3 DEF Fits
  <2>9. Send(s, c) \in SendStates /\ Send(s, c).out = Append(s.out, o)
    BY <1>2, <2>1, <2>5, <2>6 DEF SendStates
  <2> QED
    BY <2>6, <2>8, <2>9
<1> QED
  BY <1>3, <1>4

LEMMA SendLoop ==
    ASSUME NEW commands \in Seq(Pieces.sends)
    PROVE  \E f \in [0 .. Len(commands) -> SendStates] :
              /\ f[0] = [bsz |-> Kilo, out |-> <<>>]
              /\ \A i \in 1 .. Len(commands) : f[i] = Send(f[i - 1], commands[i])
              /\ Sent(commands) = f[Len(commands)].out
<1> DEFINE n == Len(commands)
           a == [bsz |-> Kilo, out |-> <<>>]
           step == [i \in 1 .. n |-> [v \in SendStates |-> Send(v, commands[i])]]
           isAfter(f) == f = [i \in 0 .. Len(commands) |-> IF i = 0 THEN a ELSE Send(f[i - 1], commands[i])]
           after == CHOOSE f : isAfter(f)
<1>1. n \in Nat /\ a \in SendStates /\ \A i \in 1 .. n : commands[i] \in Pieces.sends
  <2>1. n \in Nat /\ \A i \in 1 .. n : commands[i] \in Pieces.sends
    BY ElementOfSeq
  <2>2. a \in SendStates
    BY SMT DEF SendStates, Kilo
  <2> QED
    BY <2>1, <2>2
<1>2. Sent(commands) = after[Len(commands)].out
  BY DEF Sent
<1> HIDE DEF a
<1>3. step \in [1 .. n -> [SendStates -> SendStates]] /\ \A i \in 1 .. n, v \in SendStates : step[i][v] = Send(v, commands[i])
  BY <1>1, SendIs
<1> HIDE DEF step
<1>4. PICK f \in [0 .. n -> SendStates] : Along(f, n, a, step)
  <2>1. step \in [1 .. n -> [SendStates -> SendStates]]
    BY <1>3
  <2> HIDE DEF n
  <2> QED
    BY <1>1, <2>1, RecursionTo
<1>5. f[0] = a /\ \A i \in 1 .. n : f[i] = Send(f[i - 1], commands[i])
  <2>1. \A i \in 1 .. n : f[i - 1] \in SendStates
    BY <1>1, <1>4
  <2> QED
    BY <1>3, <1>4, <2>1 DEF Along
<1>6. isAfter(f)
  BY <1>5
<1>7. isAfter(after)
  BY <1>6
<1> HIDE DEF after
<1>8. after[0] = a /\ \A i \in 1 .. n : after[i] = Send(after[i - 1], commands[i])
  BY <1>1, <1>7
<1> DEFINE T == {k \in Nat : k \in 0 .. n => after[k] = f[k]}
<1>9. 0 \in T
  BY <1>5, <1>8
<1>10. ASSUME NEW k \in Nat, k \in T PROVE k + 1 \in T
  <2> SUFFICES ASSUME k + 1 \in 0 .. n PROVE after[k + 1] = f[k + 1]
    OBVIOUS
  <2>1. k + 1 \in 1 .. n /\ k \in 0 .. n /\ (k + 1) - 1 = k
    OBVIOUS
  <2> QED
    BY <1>5, <1>8, <1>10, <2>1
<1>11. Nat \subseteq T
  <2> HIDE DEF T
  <2> QED
    BY <1>9, <1>10, Induction
<1>12. after[n] = f[n]
  BY <1>1, <1>11
<1> QED
  BY <1>2, <1>5, <1>12 DEF a

LEMMA MrqFits ==
    ASSUME input \in Seq(Pieces.sends) PROVE MrqSendsFit
<1> DEFINE n == Len(input)
           allFit(os) == \A i \in 1 .. Len(os) : Fits(os[i])
<1>1. PICK f \in [0 .. n -> SendStates] :
         /\ f[0] = [bsz |-> Kilo, out |-> <<>>]
         /\ \A i \in 1 .. n : f[i] = Send(f[i - 1], input[i])
         /\ Sent(input) = f[n].out
  BY SendLoop
<1>2. n \in Nat /\ \A i \in 1 .. n : input[i] \in Pieces.sends
  BY ElementOfSeq
<1> DEFINE T == {k \in Nat : k \in 0 .. n => allFit(f[k].out)}
<1>3. 0 \in T
  <2>1. f[0].out = <<>>
    BY <1>1
  <2>2. allFit(f[0].out)
    BY <2>1
  <2> HIDE DEF allFit
  <2> QED
    BY <2>2
<1>4. ASSUME NEW k \in Nat, k \in T PROVE k + 1 \in T
  <2> SUFFICES ASSUME k + 1 \in 0 .. n PROVE allFit(f[k + 1].out)
    <3> HIDE DEF allFit
    <3> QED
      OBVIOUS
  <2>1. k + 1 \in 1 .. n /\ k \in 0 .. n /\ (k + 1) - 1 = k
    BY <1>2
  <2>2. f[k] \in SendStates /\ f[k + 1] = Send(f[k], input[k + 1]) /\ input[k + 1] \in Pieces.sends
    BY <1>1, <1>2, <2>1
  <2>3. allFit(f[k].out)
    <3> HIDE DEF allFit
    <3> QED
      BY <1>4, <2>1
  <2>4. CASE f[k + 1] = f[k]
    BY <2>3, <2>4
  <2>5. CASE \E o \in Built : Fits(o) /\ f[k + 1].out = Append(f[k].out, o)
    <3>1. PICK o \in Built : Fits(o) /\ f[k + 1].out = Append(f[k].out, o)
      BY <2>5
    <3> DEFINE s == f[k].out
               t == f[k + 1].out
    <3>2. s \in Seq(Built)
      BY <2>2 DEF SendStates
    <3>3. t = Append(s, o)
      BY <3>1
    <3>4. allFit(s)
      BY <2>3
    <3> HIDE DEF s, t
    <3>5. Len(t) = Len(s) + 1 /\ Len(s) \in Nat /\ \A i \in 1 .. Len(t) : t[i] = IF i = Len(s) + 1 THEN o ELSE s[i]
      BY <3>2, <3>3, AppendProperties
    <3>6. ASSUME NEW i \in 1 .. Len(t) PROVE Fits(t[i])
      <4>1. CASE i = Len(s) + 1
        BY <3>1, <3>5, <4>1
      <4>2. CASE i # Len(s) + 1
        <5>1. i \in 1 .. Len(s) /\ t[i] = s[i]
          BY <3>5, <4>2
        <5> QED
          BY <3>4, <5>1
      <4> QED
        BY <4>1, <4>2
    <3> QED
      BY <3>6 DEF t
  <2> QED
    BY <2>2, <2>4, <2>5, SendIs
<1>5. Nat \subseteq T
  <2> HIDE DEF T
  <2> QED
    BY <1>3, <1>4, Induction
<1>6. allFit(f[n].out)
  <2> HIDE DEF allFit
  <2> QED
    BY <1>2, <1>5
<1>7. allFit(Sent(input))
  BY <1>1, <1>6
<1> QED
  BY <1>7, Zenon DEF MrqSendsFit, Fits

(* The session stores.                                                     *)
StoredSet == [room : Nat, length : Seq(Nat), needs : Nat]
StoreStates == [room : Nat \ {0}, out : Seq(StoredSet)]

SetFits(o, z) == o.needs <= o.room /\ NumberOf(o.length) = z

LEMMA AsyncSetIs ==
    ASSUME NEW store \in Stores, NEW s \in StoreStates, NEW z \in Size
    PROVE  /\ AsyncSet(s, store, z) \in StoreStates
           /\ \E o \in StoredSet : SetFits(o, z) /\ AsyncSet(s, store, z).out = Append(s.out, o)
<1>1. z \in Nat /\ NumLength(z) \in Nat /\ NumLength(z) <= 10
  <2>1. z \in Nat /\ z <= 1073741696
    BY SMT DEF Size
  <2> QED
    BY <2>1, NumLengthIs, LongestNumbers, SMT
<1>2. s.room \in Nat \ {0} /\ s.out \in Seq(StoredSet)
  BY DEF StoreStates
<1> DEFINE room == Grown(s.room, z)
           length == LengthSent(store, z)
           needs == SetNeeds(store, z)
           o == [room |-> room, length |-> length, needs |-> needs]
<1>3. room \in Nat /\ room >= 128 + z
  <2>1. 128 + z \in Nat
    BY <1>1
  <2>2. room = Doubled(s.room, 128 + z)
    BY DEF Grown
  <2> HIDE DEF room
  <2> QED
    BY <1>2, <2>1, <2>2, DoubledFits
<1>4. length \in Seq(Nat) /\ Len(length) \in Nat /\ Len(length) <= 10 /\ NumberOf(length) = z
  <2>1. CASE store = "memcached"
    <3>1. length = Decimal(z)
      BY <2>1 DEF LengthSent
    <3>2. Decimal(z) \in Seq(Nat) /\ Len(Decimal(z)) = NumLength(z) /\ NumberOf(Decimal(z)) = z
      BY <1>1, DecimalIs
    <3> QED
      BY <1>1, <3>1, <3>2
  <2>2. CASE store # "memcached"
    <3>1. length = <<z>>
      BY <2>2 DEF LengthSent
    <3>2. <<z>> \in Seq(Nat) /\ Len(<<z>>) = 1 /\ <<z>>[1] = z
      BY <1>1
    <3>3. NumberOf(<<z>>) = z
      BY <3>2, NumberOfDigits
    <3> QED
      BY <3>1, <3>2, <3>3
  <2> QED
    BY <2>1, <2>2
<1>5. needs \in Nat /\ needs <= 128 + z
  BY <1>1, <1>4 DEF SetNeeds, BeforeLength, KeySize
<1>6. AsyncSet(s, store, z) = [room |-> room, out |-> Append(s.out, o)]
  BY DEF AsyncSet
<1> HIDE DEF room, length, needs
<1>7. o \in StoredSet /\ o.room = room /\ o.length = length /\ o.needs = needs
  BY <1>3, <1>4, <1>5 DEF StoredSet
<1> HIDE DEF o
<1>8. SetFits(o, z)
  BY <1>1, <1>3, <1>4, <1>5, <1>7 DEF SetFits
<1>9. AsyncSet(s, store, z) \in StoreStates /\ AsyncSet(s, store, z).out = Append(s.out, o)
  <2>1. room \in Nat \ {0}
    BY <1>1, <1>3
  <2> QED
    BY <1>2, <1>6, <1>7, <2>1 DEF StoreStates
<1> QED
  BY <1>7, <1>8, <1>9

LEMMA StoredLoop ==
    ASSUME NEW store \in Stores, NEW sizes \in Seq(Size)
    PROVE  \E f \in [0 .. Len(sizes) -> StoreStates] :
              /\ f[0] = [room |-> SetRoom, out |-> <<>>]
              /\ \A i \in 1 .. Len(sizes) : f[i] = AsyncSet(f[i - 1], store, sizes[i])
              /\ Stored(store, sizes) = f[Len(sizes)].out
<1> DEFINE n == Len(sizes)
           a == [room |-> SetRoom, out |-> <<>>]
           step == [i \in 1 .. n |-> [v \in StoreStates |-> AsyncSet(v, store, sizes[i])]]
           isAfter(f) == f = [i \in 0 .. Len(sizes) |-> IF i = 0 THEN a ELSE AsyncSet(f[i - 1], store, sizes[i])]
           after == CHOOSE f : isAfter(f)
<1>1. n \in Nat /\ a \in StoreStates /\ \A i \in 1 .. n : sizes[i] \in Size
  <2>1. n \in Nat /\ \A i \in 1 .. n : sizes[i] \in Size
    BY ElementOfSeq
  <2>2. a \in StoreStates
    BY SMT DEF StoreStates, SetRoom
  <2> QED
    BY <2>1, <2>2
<1>2. Stored(store, sizes) = after[Len(sizes)].out
  BY DEF Stored
<1> HIDE DEF a
<1>3. step \in [1 .. n -> [StoreStates -> StoreStates]] /\ \A i \in 1 .. n, v \in StoreStates : step[i][v] = AsyncSet(v, store, sizes[i])
  BY <1>1, AsyncSetIs
<1> HIDE DEF step
<1>4. PICK f \in [0 .. n -> StoreStates] : Along(f, n, a, step)
  <2>1. step \in [1 .. n -> [StoreStates -> StoreStates]]
    BY <1>3
  <2> HIDE DEF n
  <2> QED
    BY <1>1, <2>1, RecursionTo
<1>5. f[0] = a /\ \A i \in 1 .. n : f[i] = AsyncSet(f[i - 1], store, sizes[i])
  <2>1. \A i \in 1 .. n : f[i - 1] \in StoreStates
    BY <1>1, <1>4
  <2> QED
    BY <1>3, <1>4, <2>1 DEF Along
<1>6. isAfter(f)
  BY <1>5
<1>7. isAfter(after)
  BY <1>6
<1> HIDE DEF after
<1>8. after[0] = a /\ \A i \in 1 .. n : after[i] = AsyncSet(after[i - 1], store, sizes[i])
  BY <1>1, <1>7
<1> DEFINE T == {k \in Nat : k \in 0 .. n => after[k] = f[k]}
<1>9. 0 \in T
  BY <1>5, <1>8
<1>10. ASSUME NEW k \in Nat, k \in T PROVE k + 1 \in T
  <2> SUFFICES ASSUME k + 1 \in 0 .. n PROVE after[k + 1] = f[k + 1]
    OBVIOUS
  <2>1. k + 1 \in 1 .. n /\ k \in 0 .. n /\ (k + 1) - 1 = k
    OBVIOUS
  <2> QED
    BY <1>5, <1>8, <1>10, <2>1
<1>11. Nat \subseteq T
  <2> HIDE DEF T
  <2> QED
    BY <1>9, <1>10, Induction
<1>12. after[n] = f[n]
  BY <1>1, <1>11
<1> QED
  BY <1>2, <1>5, <1>12 DEF a

LEMMA StoredFits ==
    ASSUME NEW store \in Stores, NEW sizes \in Seq(Size)
    PROVE  \A i \in 1 .. Len(sizes) : SetFits(Stored(store, sizes)[i], sizes[i])
<1> DEFINE n == Len(sizes)
           fit(os, k) == Len(os) = k /\ \A i \in 1 .. k : SetFits(os[i], sizes[i])
<1>1. PICK f \in [0 .. n -> StoreStates] :
         /\ f[0] = [room |-> SetRoom, out |-> <<>>]
         /\ \A i \in 1 .. n : f[i] = AsyncSet(f[i - 1], store, sizes[i])
         /\ Stored(store, sizes) = f[n].out
  BY StoredLoop
<1>2. n \in Nat /\ \A i \in 1 .. n : sizes[i] \in Size
  BY ElementOfSeq
<1> DEFINE T == {k \in Nat : k \in 0 .. n => fit(f[k].out, k)}
<1>3. 0 \in T
  <2>1. f[0].out = <<>>
    BY <1>1
  <2>2. fit(f[0].out, 0)
    BY <2>1
  <2> HIDE DEF fit
  <2> QED
    BY <2>2
<1>4. ASSUME NEW k \in Nat, k \in T PROVE k + 1 \in T
  <2> SUFFICES ASSUME k + 1 \in 0 .. n PROVE fit(f[k + 1].out, k + 1)
    <3> HIDE DEF fit
    <3> QED
      OBVIOUS
  <2>1. k + 1 \in 1 .. n /\ k \in 0 .. n /\ (k + 1) - 1 = k
    BY <1>2
  <2>2. f[k] \in StoreStates /\ f[k + 1] = AsyncSet(f[k], store, sizes[k + 1]) /\ sizes[k + 1] \in Size
    BY <1>1, <1>2, <2>1
  <2>3. fit(f[k].out, k)
    <3> HIDE DEF fit
    <3> QED
      BY <1>4, <2>1
  <2>4. PICK o \in StoredSet : SetFits(o, sizes[k + 1]) /\ f[k + 1].out = Append(f[k].out, o)
    <3> DEFINE x == sizes[k + 1]
               v == f[k]
    <3>1. x \in Size /\ v \in StoreStates /\ f[k + 1] = AsyncSet(v, store, x)
      BY <2>2
    <3> HIDE DEF x, v
    <3>2. \E o \in StoredSet : SetFits(o, x) /\ AsyncSet(v, store, x).out = Append(v.out, o)
      BY <3>1, AsyncSetIs
    <3> QED
      BY <3>1, <3>2 DEF x, v
  <2> DEFINE s == f[k].out
             t == f[k + 1].out
  <2>5. s \in Seq(StoredSet)
    BY <2>2 DEF StoreStates
  <2>6. t = Append(s, o)
    BY <2>4
  <2>7. fit(s, k)
    BY <2>3
  <2> HIDE DEF s, t
  <2>8. Len(t) = k + 1 /\ \A i \in 1 .. k + 1 : t[i] = IF i = k + 1 THEN o ELSE s[i]
    BY <2>5, <2>6, <2>7, AppendProperties
  <2>9. ASSUME NEW i \in 1 .. k + 1 PROVE SetFits(t[i], sizes[i])
    <3>1. CASE i = k + 1
      BY <2>4, <2>8, <3>1
    <3>2. CASE i # k + 1
      <4>1. i \in 1 .. k /\ t[i] = s[i]
        BY <2>8, <3>2
      <4> QED
        BY <2>7, <4>1
    <3> QED
      BY <3>1, <3>2
  <2> QED
    BY <2>8, <2>9 DEF t
<1>5. Nat \subseteq T
  <2> HIDE DEF T
  <2> QED
    BY <1>3, <1>4, Induction
<1>6. fit(f[n].out, n)
  <2> HIDE DEF fit
  <2> QED
    BY <1>2, <1>5
<1> QED
  BY <1>1, <1>6

LEMMA StoreFits ==
    ASSUME input \in Seq(Pieces.sends) PROVE StoreSendsFit
<1> DEFINE sizes == [i \in 1 .. Len(input) |-> input[i].dsz]
<1>1. \A i \in 1 .. Len(input) : input[i].dsz \in Size
  <2>1. \A i \in 1 .. Len(input) : input[i] \in Pieces.sends
    BY ElementOfSeq
  <2> QED
    BY <2>1, CommandIs
<1>2. sizes \in Seq(Size) /\ Len(sizes) = Len(input)
  BY <1>1
<1> HIDE DEF sizes
<1>3. ASSUME NEW store \in Stores PROVE GetNeeds(store) <= GetRoom
  BY DEF GetNeeds, GetRoom, KeySize
<1>4. ASSUME NEW store \in Stores, NEW i \in 1 .. Len(sizes)
      PROVE  Stored(store, sizes)[i].needs <= Stored(store, sizes)[i].room /\ NumberOf(Stored(store, sizes)[i].length) = sizes[i]
  BY <1>2, StoredFits DEF SetFits
<1> QED
  BY <1>3, <1>4, Zenon DEF StoreSendsFit, sizes

LEMMA SendsHold == (subject \in DOMAIN Pieces /\ input \in Seq(Pieces[subject])) => SendsFit
<1> SUFFICES ASSUME subject = "sends", input \in Seq(Pieces[subject]) PROVE MrqSendsFit /\ StoreSendsFit
  BY Zenon DEF SendsFit
<1>1. input \in Seq(Pieces.sends)
  OBVIOUS
<1> QED
  BY <1>1, MrqFits, StoreFits

(* Every command fits the buffer it is built in, after any others, with    *)
(* the exceptions that MrqSendsFit names, and says how long it is.         *)
THEOREM SendsFitAlways == InputSpec => []SendsFit
  BY SendsHold, InputsTyped, PTL
=============================================================================
