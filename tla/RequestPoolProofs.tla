--------------------------- MODULE RequestPoolProofs ---------------------------
(***************************************************************************)
(* Proofs about the request pool, for any number of clients, any initial   *)
(* list length, any growth threshold and any bound on the demand.          *)
(***************************************************************************)
EXTENDS RequestPool, PoolOpsProofs

(* The inductive invariant.  FreeCountExact is what makes the growth test  *)
(* of get_request sound: while the counter is exact, a list that is not    *)
(* doubled has a free Request, so the search ends before a full circle.    *)
IInv == /\ TypeOK
        /\ Exclusive
        /\ FreeCountExact
        /\ BoundedGrowth
        /\ pool.stray = FALSE

LEMMA InitialPoolFacts ==
    PoolTypeOK(InitialPool) /\ PoolCounted(InitialPool)
<1>1. InitialRequests \in Nat \ {0}
  BY PoolAssumption
<1>2. PoolTypeOK(InitialPool)
  BY <1>1 DEF PoolTypeOK, InitialPool, Slots
<1>3. Cardinality(InitialPool.inprog) = 0
  BY FS_EmptySet DEF InitialPool
<1>4. /\ Cardinality(FreeSlots(InitialPool)) \in Nat
      /\ Cardinality(FreeSlots(InitialPool)) + 0 = InitialPool.num
  BY <1>2, <1>3, SlotsSplit
<1> QED
  BY <1>1, <1>2, <1>4 DEF PoolCounted, InitialPool

(* The start state of cinit satisfies the invariant.                       *)
LEMMA InitIInv == Init => IInv
<1> SUFFICES ASSUME Init PROVE IInv
  OBVIOUS
<1>1. TypeOK /\ FreeCountExact
  BY InitialPoolFacts DEF Init, TypeOK, FreeCountExact
<1>2. Exclusive /\ BoundedGrowth /\ pool.stray = FALSE
  BY DEF Init, Exclusive, BoundedGrowth, InitialPool
<1> QED
  BY <1>1, <1>2 DEF IInv

LEMMA GetIInv ==
    ASSUME IInv, NEW c \in Clients, Get(c)
    PROVE  /\ IInv'
           /\ pool'.num # pool.num =>
                 pool'.num = 2 * pool.num /\ Cardinality(FreeSlots(pool)) <= LowWater
<1> DEFINE r == GrantedRequest(pool)
<1>1. /\ PoolTypeOK(pool) /\ PoolCounted(pool)
      /\ held \in [Clients -> SUBSET Nat]
      /\ pool.inprog = UNION {held[d] : d \in Clients}
      /\ \A d, e \in Clients : d # e => held[d] \cap held[e] = {}
  BY DEF IInv, TypeOK, FreeCountExact, Exclusive
<1>2. /\ PoolTypeOK(pool') /\ PoolCounted(pool')
      /\ r \in Slots(pool') /\ r \notin pool.inprog
      /\ pool'.inprog = pool.inprog \cup {r} /\ pool'.stray = pool.stray
      /\ \/ pool'.num = pool.num
         \/ /\ pool'.num = 2 * pool.num
            /\ Cardinality(FreeSlots(pool)) <= LowWater
  BY <1>1, GetRequestFacts DEF Get
<1>3. held' = [held EXCEPT ![c] = @ \cup {r}]
  BY DEF Get
<1> HIDE DEF r
<1>4. r \in Nat
  BY <1>2 DEF PoolTypeOK, Slots
<1>5. TypeOK'
  BY <1>1, <1>2, <1>3, <1>4 DEF TypeOK
<1>6. Exclusive'
  <2>1. \A d \in Clients : held'[d] = IF d = c THEN held[d] \cup {r} ELSE held[d]
    BY <1>1, <1>3
  <2>2. \A d \in Clients : r \notin held[d]
    BY <1>1, <1>2
  <2>3. pool'.inprog = UNION {held'[d] : d \in Clients}
    <3>1. \A x : x \in pool'.inprog <=> x \in pool.inprog \/ x = r
      BY <1>2
    <3>2. \A x : x \in pool.inprog <=> \E d \in Clients : x \in held[d]
      BY <1>1
    <3>3. \A x : (\E d \in Clients : x \in held'[d])
                  <=> (\E d \in Clients : x \in held[d]) \/ x = r
      BY <2>1
    <3>4. \A x : x \in pool'.inprog <=> \E d \in Clients : x \in held'[d]
      BY ONLY <3>1, <3>2, <3>3, Zenon
    <3> QED
      BY ONLY <3>4
  <2>4. \A d, e \in Clients : d # e => held'[d] \cap held'[e] = {}
    <3>1. \A d, e \in Clients : d # e => held[d] \cap held[e] = {}
      BY <1>1
    <3> QED
      BY ONLY <2>1, <2>2, <3>1
  <2> QED
    BY <2>3, <2>4 DEF Exclusive
<1>7. BoundedGrowth'
  <2>1. CASE pool'.num = pool.num
    BY <2>1 DEF IInv, BoundedGrowth
  <2>2. CASE /\ pool'.num = 2 * pool.num
             /\ Cardinality(FreeSlots(pool)) <= LowWater
    <3>1. /\ Cardinality(FreeSlots(pool)) + Cardinality(pool.inprog) = pool.num
          /\ Cardinality(FreeSlots(pool)) \in Nat /\ Cardinality(pool.inprog) \in Nat
      BY <1>1, SlotsSplit
    <3>2. Cardinality(pool.inprog) < MaxHeld
      BY DEF Get
    <3>3. pool'.num <= 2 * (MaxHeld + LowWater)
      BY <2>2, <3>1, <3>2, ClientsAssumption, PoolAssumption
    <3> QED
      BY <3>3 DEF BoundedGrowth
  <2> QED
    BY <1>2, <2>1, <2>2
<1> QED
  BY <1>2, <1>5, <1>6, <1>7 DEF IInv, FreeCountExact

LEMMA ReleaseIInv ==
    ASSUME IInv, NEW c \in Clients, NEW r \in held[c], Release(c, r)
    PROVE  IInv' /\ pool'.num = pool.num
<1>1. /\ PoolTypeOK(pool) /\ PoolCounted(pool)
      /\ held \in [Clients -> SUBSET Nat]
      /\ pool.inprog = UNION {held[d] : d \in Clients}
      /\ \A d, e \in Clients : d # e => held[d] \cap held[e] = {}
  BY DEF IInv, TypeOK, FreeCountExact, Exclusive
<1>2. r \in pool.inprog
  BY <1>1
<1>3. /\ PoolTypeOK(pool') /\ PoolCounted(pool')
      /\ pool'.inprog = pool.inprog \ {r}
      /\ pool'.num = pool.num /\ pool'.stray = pool.stray
  BY <1>1, <1>2, ReleaseRequestFacts DEF Release
<1>4. held' = [held EXCEPT ![c] = @ \ {r}]
  BY DEF Release
<1>5. TypeOK'
  BY <1>1, <1>3, <1>4 DEF TypeOK
<1>6. Exclusive'
  <2>1. \A d \in Clients : held'[d] = IF d = c THEN held[d] \ {r} ELSE held[d]
    BY <1>1, <1>4
  <2>2. \A d \in Clients : d # c => r \notin held[d]
    BY <1>1
  <2>3. pool'.inprog = UNION {held'[d] : d \in Clients}
    <3>1. \A x : x \in pool'.inprog <=> x \in pool.inprog /\ x # r
      BY <1>3
    <3>2. \A x : x \in pool.inprog <=> \E d \in Clients : x \in held[d]
      BY <1>1
    <3>3. \A x : (\E d \in Clients : x \in held'[d])
                  <=> (\E d \in Clients : x \in held[d]) /\ x # r
      BY <2>1, <2>2
    <3> QED
      BY <3>1, <3>2, <3>3
  <2>4. \A d, e \in Clients : d # e => held'[d] \cap held'[e] = {}
    BY <1>1, <2>1
  <2> QED
    BY <2>3, <2>4 DEF Exclusive
<1> QED
  BY <1>3, <1>5, <1>6 DEF IInv, FreeCountExact, BoundedGrowth

(* Every step of a client keeps the invariant, and the list grows only by  *)
(* one doubling at a time and only when few Requests are left.             *)
LEMMA NextIInv ==
    ASSUME IInv, [Next]_vars
    PROVE  /\ IInv'
           /\ [pool'.num # pool.num =>
                 /\ pool'.num = 2 * pool.num
                 /\ Cardinality(FreeSlots(pool)) <= LowWater]_vars
<1>1. CASE \E c \in Clients : Get(c)
  BY <1>1, GetIInv
<1>2. CASE \E c \in Clients : \E r \in held[c] : Release(c, r)
  BY <1>2, ReleaseIInv
<1>3. CASE UNCHANGED vars
  <2>1. pool' = pool /\ held' = held
    BY <1>3 DEF vars
  <2> QED
    BY <2>1, <1>3 DEF IInv, TypeOK, Exclusive, FreeCountExact, BoundedGrowth
<1> QED
  BY <1>1, <1>2, <1>3 DEF Next

(* The invariant holds throughout every execution.                         *)
THEOREM Invariance == Spec => []IInv
<1>1. IInv /\ [Next]_vars => IInv'
  BY NextIInv
<1> QED
  BY InitIInv, <1>1, PTL DEF Spec

(* The pool fields keep their types and stay within the list.              *)
THEOREM TypeCorrect == Spec => []TypeOK
<1>1. IInv => TypeOK
  BY DEF IInv
<1> QED
  BY Invariance, <1>1, PTL

(* No Request is ever in the hands of two connections.                     *)
THEOREM ExclusiveAlways == Spec => []Exclusive
<1>1. IInv => Exclusive
  BY DEF IInv
<1> QED
  BY Invariance, <1>1, PTL

(* freeRequests always counts the free Requests.                           *)
THEOREM FreeCountAlways == Spec => []FreeCountExact
<1>1. IInv => FreeCountExact
  BY DEF IInv
<1> QED
  BY Invariance, <1>1, PTL

(* The list never exceeds twice the peak demand plus the threshold.        *)
THEOREM BoundedGrowthAlways == Spec => []BoundedGrowth
<1>1. IInv => BoundedGrowth
  BY DEF IInv
<1> QED
  BY Invariance, <1>1, PTL

(* The redo of get_request is never taken.                                 *)
THEOREM GrowsOnlyWhenLowAlways == Spec => GrowsOnlyWhenLow
<1>1. IInv /\ [Next]_vars =>
        [pool'.num # pool.num =>
            /\ pool'.num = 2 * pool.num
            /\ Cardinality(FreeSlots(pool)) <= LowWater]_vars
  BY NextIInv
<1> QED
  BY Invariance, <1>1, PTL DEF Spec, GrowsOnlyWhenLow
=============================================================================
