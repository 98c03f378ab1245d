----------------------------- MODULE PoolOpsProofs -----------------------------
(***************************************************************************)
(* Facts about the pool operators, for every list length and threshold.    *)
(***************************************************************************)
EXTENDS PoolOps, FiniteSetTheorems, TLAPS

(* A set of naturals that is not empty has a smallest element.             *)
LEMMA SmallestNat ==
    ASSUME NEW T \in SUBSET Nat, T # {}
    PROVE  \E k \in T : \A j \in T : k <= j
<1> DEFINE R == {xy \in Nat \X Nat : xy[1] < xy[2]}
<1>1. IsWellFoundedOn(R, Nat)
  BY NatLessThanWellFounded DEF OpToRel
<1>2. \A x, y \in Nat : <<y, x>> \in R <=> y < x
  OBVIOUS
<1> HIDE DEF R
<1>3. PICK x \in T : \A y \in T : <<y, x>> \notin R
  BY <1>1, WFMin
<1>4. \A y \in T : x <= y
  <2> SUFFICES ASSUME NEW y \in T PROVE x <= y
    OBVIOUS
  <2>1. x \in Nat /\ y \in Nat /\ ~(y < x)
    BY <1>2, <1>3
  <2> QED
    BY <2>1
<1> QED
  BY <1>4

(* Every slot is met when the list is walked once around.                  *)
LEMMA WalkReaches ==
    ASSUME NEW n \in Nat \ {0}, NEW a \in 0 .. n - 1, NEW s \in 0 .. n - 1
    PROVE  \E k \in 1 .. n : (a + k) % n = s
<1>1. CASE s > a
  <2>1. s - a \in 1 .. n /\ a + (s - a) = s
    BY <1>1
  <2>2. s % n = s
    OBVIOUS
  <2> QED
    BY <2>1, <2>2
<1>2. CASE s <= a
  <2>1. s - a + n \in 1 .. n /\ a + (s - a + n) = s + n
    BY <1>2
  <2>2. (s + n) % n = s
    OBVIOUS
  <2> QED
    BY <2>1, <2>2
<1> QED
  BY <1>1, <1>2

(* The search of get_request stops at a free Request whenever there is one.*)
LEMMA FirstFreeIsFree ==
    ASSUME NEW p, PoolTypeOK(p), FreeSlots(p) # {}
    PROVE  FirstFree(p) \in FreeSlots(p)
<1> DEFINE T == {k \in 1 .. p.num : After(p, k) \notin p.inprog}
<1>1. /\ p.num \in Nat \ {0} /\ p.next \in 0 .. p.num - 1
      /\ p.inprog \subseteq 0 .. p.num - 1
  BY DEF PoolTypeOK, Slots
<1>2. PICK s \in FreeSlots(p) : TRUE
  OBVIOUS
<1>3. PICK k0 \in 1 .. p.num : After(p, k0) = s
  BY <1>1, <1>2, WalkReaches DEF FreeSlots, Slots, After
<1>4. T \in SUBSET Nat /\ T # {}
  BY <1>1, <1>2, <1>3 DEF FreeSlots
<1>5. PICK k \in T : \A j \in T : k <= j
  BY <1>4, SmallestNat
<1>6. \E i \in 1 .. p.num : /\ After(p, i) \notin p.inprog
                            /\ \A j \in 1 .. i - 1 : After(p, j) \in p.inprog
  <2>1. \A j \in 1 .. k - 1 : After(p, j) \in p.inprog
    BY <1>1, <1>5
  <2> QED
    BY <1>5, <2>1
<1>7. \A i \in 1 .. p.num : After(p, i) \in 0 .. p.num - 1
  BY <1>1 DEF After
<1> QED
  BY <1>6, <1>7 DEF FirstFree, FreeSlots, Slots

(* The free Requests and those in progress make up the list.               *)
LEMMA SlotsSplit ==
    ASSUME NEW p, PoolTypeOK(p)
    PROVE  /\ IsFiniteSet(FreeSlots(p)) /\ IsFiniteSet(p.inprog)
           /\ Cardinality(FreeSlots(p)) \in Nat
           /\ Cardinality(p.inprog) \in Nat
           /\ Cardinality(FreeSlots(p)) + Cardinality(p.inprog) = p.num
<1>1. p.num \in Nat \ {0} /\ p.inprog \subseteq 0 .. p.num - 1
  BY DEF PoolTypeOK, Slots
<1>2. IsFiniteSet(0 .. p.num - 1) /\ Cardinality(0 .. p.num - 1) = p.num
  <2>1. 0 \in Int /\ p.num - 1 \in Int
    BY <1>1
  <2>2. /\ IsFiniteSet(0 .. p.num - 1)
        /\ Cardinality(0 .. p.num - 1)
              = IF 0 > p.num - 1 THEN 0 ELSE (p.num - 1) - 0 + 1
    BY <2>1, FS_Interval
  <2> QED
    BY <1>1, <2>2
<1>3. IsFiniteSet(p.inprog) /\ Cardinality(p.inprog) \in Nat
  BY <1>1, <1>2, FS_Subset, FS_CardinalityType
<1>4. (0 .. p.num - 1) \cap p.inprog = p.inprog
  BY <1>1
<1>5. /\ IsFiniteSet(FreeSlots(p))
      /\ Cardinality(FreeSlots(p)) = p.num - Cardinality(p.inprog)
  <2>1. /\ IsFiniteSet((0 .. p.num - 1) \ p.inprog)
        /\ Cardinality((0 .. p.num - 1) \ p.inprog)
              = Cardinality(0 .. p.num - 1)
                  - Cardinality((0 .. p.num - 1) \cap p.inprog)
    BY <1>2, FS_Difference
  <2> QED
    BY <1>2, <1>4, <2>1 DEF FreeSlots, Slots
<1>6. Cardinality(FreeSlots(p)) \in Nat
  BY <1>5, FS_CardinalityType
<1> QED
  BY <1>1, <1>3, <1>5, <1>6

(* Doubling adds as many free Requests as the list held and points next at *)
(* the first of them.                                                      *)
LEMMA DoubleFacts ==
    ASSUME NEW p, PoolTypeOK(p)
    PROVE  LET q == DoubleRequests(p)
           IN  /\ PoolTypeOK(q)
               /\ q.num = 2 * p.num /\ q.free = p.free + p.num
               /\ q.inprog = p.inprog /\ q.stray = p.stray
               /\ FreeSlots(q) # {}
               /\ Cardinality(FreeSlots(q)) = Cardinality(FreeSlots(p)) + p.num
<1> DEFINE q == DoubleRequests(p)
<1>1. /\ p \in [num : Nat \ {0}, next : Nat, free : Int,
                inprog : SUBSET Nat, stray : BOOLEAN]
      /\ p.inprog \subseteq 0 .. p.num - 1
  BY DEF PoolTypeOK, Slots
<1>2. q = [num |-> 2 * p.num, next |-> p.num, free |-> p.free + p.num,
           inprog |-> p.inprog, stray |-> p.stray]
  <2> DEFINE a == [p EXCEPT !.num = 2 * @]
             b == [a EXCEPT !.next = p.num]
  <2>1. q = [b EXCEPT !.free = @ + p.num]
    BY <1>1 DEF DoubleRequests
  <2> QED
    BY <1>1, <2>1
<1>3. p.num \in 0 .. 2 * p.num - 1 /\ p.inprog \subseteq 0 .. 2 * p.num - 1
  BY <1>1
<1>4. PoolTypeOK(q)
  BY <1>1, <1>2, <1>3 DEF PoolTypeOK, Slots
<1>5. p.num \in FreeSlots(q)
  BY <1>1, <1>2, <1>3 DEF FreeSlots, Slots
<1>6. /\ Cardinality(FreeSlots(p)) + Cardinality(p.inprog) = p.num
      /\ Cardinality(FreeSlots(q)) + Cardinality(p.inprog) = 2 * p.num
      /\ Cardinality(FreeSlots(p)) \in Nat /\ Cardinality(FreeSlots(q)) \in Nat
      /\ Cardinality(p.inprog) \in Nat
  BY <1>2, <1>4, SlotsSplit
<1>7. Cardinality(FreeSlots(q)) = Cardinality(FreeSlots(p)) + p.num
  BY <1>1, <1>6
<1> QED
  BY <1>2, <1>4, <1>5, <1>7

(* Locate leaves next at a free Request; it doubles the list at most once, *)
(* and only if LowWater or fewer Requests were free.                       *)
LEMMA LocateFacts ==
    ASSUME NEW p, PoolTypeOK(p), PoolCounted(p)
    PROVE  LET q == Locate(p)
           IN  /\ PoolTypeOK(q)
               /\ q.next \in FreeSlots(q)
               /\ q.inprog = p.inprog /\ q.stray = p.stray
               /\ q.free = Cardinality(FreeSlots(q)) - 1
               /\ \/ q.num = p.num
                  \/ /\ q.num = 2 * p.num
                     /\ Cardinality(FreeSlots(p)) <= LowWater
<1> DEFINE d == [p EXCEPT !.free = @ - 1]
           g == IF d.free < LowWater THEN DoubleRequests(d) ELSE d
<1>1. p \in [num : Nat \ {0}, next : Nat, free : Int,
             inprog : SUBSET Nat, stray : BOOLEAN]
  BY DEF PoolTypeOK
<1>2. /\ PoolTypeOK(d) /\ d.free = p.free - 1
      /\ d.num = p.num /\ d.next = p.next /\ d.inprog = p.inprog
      /\ d.stray = p.stray /\ FreeSlots(d) = FreeSlots(p)
  BY <1>1 DEF PoolTypeOK, Slots, FreeSlots
<1>3. p.free = Cardinality(FreeSlots(p)) /\ p.free \in Nat
  BY SlotsSplit DEF PoolCounted
<1>4. CASE d.next \notin d.inprog
  <2>1. Locate(p) = d
    BY <1>4 DEF Locate
  <2>2. d.next \in FreeSlots(d)
    BY <1>2, <1>4 DEF PoolTypeOK, FreeSlots
  <2> QED
    BY <1>2, <1>3, <2>1, <2>2
<1>5. CASE d.next \in d.inprog
  <2>1. /\ PoolTypeOK(g) /\ FreeSlots(g) # {}
        /\ g.inprog = p.inprog /\ g.stray = p.stray
        /\ g.free = Cardinality(FreeSlots(g)) - 1
        /\ \/ g.num = p.num
           \/ g.num = 2 * p.num /\ Cardinality(FreeSlots(p)) <= LowWater
    <3>1. CASE d.free < LowWater
      <4>1. g = DoubleRequests(d)
        BY <3>1
      <4>2. p.num \in Nat \ {0} /\ LowWater \in Nat
        BY <1>1, PoolAssumption
      <4>3. Cardinality(FreeSlots(p)) <= LowWater
        BY <1>2, <1>3, <3>1, <4>2
      <4> HIDE DEF d, g
      <4>4. /\ PoolTypeOK(DoubleRequests(d)) /\ FreeSlots(DoubleRequests(d)) # {}
            /\ g.num = 2 * d.num /\ g.free = d.free + d.num
            /\ g.inprog = d.inprog /\ g.stray = d.stray
            /\ Cardinality(FreeSlots(g)) = Cardinality(FreeSlots(d)) + d.num
        BY <1>2, <4>1, DoubleFacts
      <4>5. g.free = Cardinality(FreeSlots(g)) - 1
        BY <1>2, <1>3, <4>2, <4>4
      <4> QED
        BY <1>2, <4>1, <4>3, <4>4, <4>5
    <3>2. CASE ~(d.free < LowWater)
      <4>1. g = d
        BY <3>2
      <4>2. Cardinality(FreeSlots(d)) # 0
        BY <1>2, <1>3, <3>2, PoolAssumption
      <4>3. FreeSlots(d) # {}
        BY <4>2, FS_EmptySet
      <4> QED
        BY <1>2, <1>3, <4>1, <4>3
    <3> QED
      BY <3>1, <3>2
  <2>2. Locate(p) = Advance(g)
    BY <1>5, <2>1 DEF Locate
  <2> HIDE DEF g
  <2>3. FirstFree(g) \in FreeSlots(g)
    BY <2>1, FirstFreeIsFree
  <2>4. g \in [num : Nat \ {0}, next : Nat, free : Int,
               inprog : SUBSET Nat, stray : BOOLEAN]
    BY <2>1 DEF PoolTypeOK
  <2>5. Advance(g) = [num |-> g.num, next |-> FirstFree(g), free |-> g.free,
                      inprog |-> g.inprog, stray |-> g.stray]
    BY <2>4 DEF Advance
  <2>6. FreeSlots(Advance(g)) = FreeSlots(g) /\ Slots(Advance(g)) = Slots(g)
    BY <2>5 DEF FreeSlots, Slots
  <2>7. FirstFree(g) \in Slots(g) /\ FirstFree(g) \in Nat
    BY <2>3, <2>4 DEF FreeSlots, Slots
  <2>8. PoolTypeOK(Advance(g))
    BY <2>1, <2>4, <2>5, <2>6, <2>7 DEF PoolTypeOK
  <2> QED
    BY <2>1, <2>2, <2>3, <2>5, <2>6, <2>8
<1> QED
  BY <1>4, <1>5

(* get_request: the Request returned was free, it is the only one whose    *)
(* flag changes, the counter stays exact, and the list grows by one        *)
(* doubling at most, when LowWater or fewer Requests are left.             *)
LEMMA GetRequestFacts ==
    ASSUME NEW p, PoolTypeOK(p), PoolCounted(p)
    PROVE  LET q == GetRequest(p)
               r == GrantedRequest(p)
           IN  /\ PoolTypeOK(q) /\ PoolCounted(q)
               /\ r \in Slots(q) /\ r \notin p.inprog
               /\ q.inprog = p.inprog \cup {r} /\ q.stray = p.stray
               /\ \/ q.num = p.num
                  \/ /\ q.num = 2 * p.num
                     /\ Cardinality(FreeSlots(p)) <= LowWater
<1> DEFINE m == Locate(p)
           q == GetRequest(p)
           r == GrantedRequest(p)
<1>1. /\ PoolTypeOK(m) /\ m.next \in FreeSlots(m)
      /\ m.inprog = p.inprog /\ m.stray = p.stray
      /\ m.free = Cardinality(FreeSlots(m)) - 1
      /\ \/ m.num = p.num
         \/ m.num = 2 * p.num /\ Cardinality(FreeSlots(p)) <= LowWater
  BY LocateFacts
<1>2. /\ r = m.next
      /\ q = [m EXCEPT !.inprog = @ \cup {m.next},
                       !.next   = (m.next + 1) % m.num]
  BY DEF GrantedRequest, GetRequest
<1> HIDE DEF m, q, r
<1>3. m \in [num : Nat \ {0}, next : Nat, free : Int,
             inprog : SUBSET Nat, stray : BOOLEAN]
  BY <1>1 DEF PoolTypeOK
<1>4. q = [num |-> m.num, next |-> (m.next + 1) % m.num, free |-> m.free,
           inprog |-> m.inprog \cup {m.next}, stray |-> m.stray]
  <2> DEFINE a == [m EXCEPT !.inprog = @ \cup {m.next}]
  <2>1. q = [a EXCEPT !.next = (m.next + 1) % m.num]
    BY <1>2, <1>3
  <2> QED
    BY <1>3, <2>1
<1>5. r \in 0 .. m.num - 1 /\ r \notin m.inprog
  BY <1>1, <1>2 DEF FreeSlots, Slots
<1>6. (m.next + 1) % m.num \in 0 .. m.num - 1
  BY <1>3
<1>7. PoolTypeOK(q)
  <2>1. m.inprog \subseteq 0 .. m.num - 1
    BY <1>1 DEF PoolTypeOK, Slots
  <2>2. m.inprog \cup {r} \subseteq 0 .. m.num - 1
    BY <1>5, <2>1
  <2>3. m.inprog \cup {m.next} \in SUBSET Nat
    BY <1>2, <1>3, <2>2
  <2>4. q \in [num : Nat \ {0}, next : Nat, free : Int,
               inprog : SUBSET Nat, stray : BOOLEAN]
    BY <1>3, <1>4, <1>6, <2>3
  <2> QED
    BY <1>2, <1>4, <1>6, <2>2, <2>4 DEF PoolTypeOK, Slots
<1>8. FreeSlots(q) = FreeSlots(m) \ {r}
  BY <1>2, <1>4 DEF FreeSlots, Slots
<1>9. PoolCounted(q)
  <2>1. IsFiniteSet(FreeSlots(m)) /\ r \in FreeSlots(m)
    BY <1>1, <1>2, SlotsSplit
  <2>2. Cardinality(FreeSlots(q)) = Cardinality(FreeSlots(m)) - 1
    BY <1>8, <2>1, FS_RemoveElement
  <2> QED
    BY <1>1, <1>4, <2>2 DEF PoolCounted
<1>10. r \in Slots(q)
  BY <1>4, <1>5 DEF Slots
<1> QED
  BY <1>1, <1>2, <1>4, <1>5, <1>7, <1>9, <1>10 DEF q, r

(* release_request of a Request in progress lowers its flag, keeps the     *)
(* counter exact and writes nothing else.                                  *)
LEMMA ReleaseRequestFacts ==
    ASSUME NEW p, PoolTypeOK(p), PoolCounted(p), NEW r \in p.inprog
    PROVE  LET q == ReleaseRequest(p, r)
           IN  /\ PoolTypeOK(q) /\ PoolCounted(q)
               /\ q.inprog = p.inprog \ {r}
               /\ q.num = p.num /\ q.stray = p.stray
<1> DEFINE q == ReleaseRequest(p, r)
<1>1. /\ p \in [num : Nat \ {0}, next : Nat, free : Int,
                inprog : SUBSET Nat, stray : BOOLEAN]
      /\ p.next \in Slots(p) /\ p.inprog \subseteq Slots(p)
  BY DEF PoolTypeOK
<1>2. q = [num |-> p.num, next |-> p.next, free |-> p.free + 1,
           inprog |-> p.inprog \ {r}, stray |-> p.stray]
  <2> DEFINE a == [p EXCEPT !.free = @ + 1]
  <2>1. q = [a EXCEPT !.inprog = @ \ {r}]
    BY <1>1 DEF ReleaseRequest
  <2> QED
    BY <1>1, <2>1
<1>3. PoolTypeOK(q)
  BY <1>1, <1>2 DEF PoolTypeOK, Slots
<1>4. FreeSlots(q) = FreeSlots(p) \cup {r} /\ r \notin FreeSlots(p)
  BY <1>1, <1>2 DEF FreeSlots, Slots
<1>5. IsFiniteSet(FreeSlots(p))
  BY SlotsSplit
<1>6. Cardinality(FreeSlots(q)) = Cardinality(FreeSlots(p)) + 1
  BY <1>4, <1>5, FS_AddElement
<1>7. PoolCounted(q)
  BY <1>2, <1>6 DEF PoolCounted
<1> QED
  BY <1>2, <1>3, <1>7

(* A run of releases of different Requests, all in progress.               *)
LEMMA ReleaseEachFacts ==
    ASSUME NEW p, PoolTypeOK(p), PoolCounted(p), NEW S, IsFiniteSet(S),
           NEW f \in [S -> p.inprog], \A i, j \in S : f[i] = f[j] => i = j
    PROVE  LET q == ReleaseEach(p, f)
           IN  /\ PoolTypeOK(q) /\ PoolCounted(q)
               /\ q.inprog = p.inprog \ {f[i] : i \in S}
               /\ q.stray = p.stray
<1> DEFINE q == ReleaseEach(p, f)
           R == {f[i] : i \in S}
<1>1. /\ p \in [num : Nat \ {0}, next : Nat, free : Int,
                inprog : SUBSET Nat, stray : BOOLEAN]
      /\ p.next \in Slots(p) /\ p.inprog \subseteq Slots(p)
  BY DEF PoolTypeOK
<1>2. R \subseteq p.inprog /\ R \cap p.inprog = R /\ DOMAIN f = S
  OBVIOUS
<1>3. IsFiniteSet(R) /\ Cardinality(R) = Cardinality(S) /\ Cardinality(R) \in Nat
  <2>1. f \in Surjection(S, R) /\ f \in Injection(S, R)
    <3>1. f \in [S -> R]
      OBVIOUS
    <3>2. \A t \in R : \E i \in S : f[i] = t
      OBVIOUS
    <3>3. IsInjective(f)
      BY DEF IsInjective
    <3> HIDE DEF R
    <3> QED
      BY <3>1, <3>2, <3>3 DEF Surjection, Injection
  <2> QED
    BY <2>1, FS_Surjection, FS_CardinalityType
<1>4. q = [num |-> p.num, next |-> p.next, free |-> p.free + Cardinality(R),
           inprog |-> p.inprog \ R, stray |-> p.stray]
  <2>1. q = [p EXCEPT !.free = p.free + Cardinality(R), !.inprog = p.inprog \ R, !.stray = p.stray]
    <3>1. (p.stray \/ ~(R \subseteq p.inprog) \/ Cardinality(R) # Cardinality(DOMAIN f)) = p.stray
      BY <1>1, <1>2, <1>3
    <3>2. {f[i] : i \in DOMAIN f} = R
      BY <1>2
    <3> HIDE DEF R
    <3> QED
      BY <1>2, <3>1, <3>2 DEF ReleaseEach
  <2> HIDE DEF R, q
  <2> QED
    BY <1>1, <2>1
<1>5. PoolTypeOK(q)
  <2> HIDE DEF R, q
  <2> QED
    BY <1>1, <1>3, <1>4 DEF PoolTypeOK, Slots
<1>6. FreeSlots(q) = FreeSlots(p) \cup R /\ FreeSlots(p) \cap R = {}
  <2> HIDE DEF R, q
  <2> QED
    BY <1>1, <1>2, <1>4 DEF FreeSlots, Slots
<1>7. Cardinality(FreeSlots(q)) = Cardinality(FreeSlots(p)) + Cardinality(R)
  <2>1. IsFiniteSet(FreeSlots(p)) /\ Cardinality(FreeSlots(p)) \in Nat
    BY SlotsSplit
  <2>2. Cardinality(FreeSlots(p) \cup R)
           = Cardinality(FreeSlots(p)) + Cardinality(R) - Cardinality(FreeSlots(p) \cap R)
    BY <1>3, <2>1, FS_Union
  <2>3. Cardinality(FreeSlots(p) \cap R) = 0
    <3>1. Cardinality({}) = 0
      BY FS_EmptySet
    <3> QED
      BY ONLY <1>6, <3>1
  <2>4. Cardinality(FreeSlots(q)) = Cardinality(FreeSlots(p) \cup R)
    BY ONLY <1>6
  <2> HIDE DEF R, q
  <2> QED
    BY <1>3, <2>1, <2>2, <2>3, <2>4
<1>8. PoolCounted(q)
  <2> HIDE DEF R, q
  <2> QED
    BY <1>4, <1>7 DEF PoolCounted
<1>9. q.inprog = p.inprog \ R /\ q.stray = p.stray
  <2> HIDE DEF R, q
  <2> QED
    BY <1>4
<1> HIDE DEF q
<1> QED
  BY <1>5, <1>8, <1>9 DEF q
=============================================================================
