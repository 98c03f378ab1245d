------------------------------- MODULE PoolOps -------------------------------
(***************************************************************************)
(* The bookkeeping of the request pool of src/src/mrhttp/internals/app.c:  *)
(* a Python list of Request objects that only ever grows, the index the    *)
(* next search starts at, and a counter of the free ones.  A Request is    *)
(* named by its position in the list.  The operators are pure: they map a  *)
(* pool to a pool, so the modules with state (RequestPool, Connection) can *)
(* do several of them in the one callback that does them in the code.      *)
(***************************************************************************)
EXTENDS Integers, FiniteSets

CONSTANTS InitialRequests,  (* Requests made at start-up, 128 in app.py      *)
          LowWater          (* growth threshold of get_request, 10 in app.c  *)

ASSUME PoolAssumption ==
       /\ InitialRequests \in Nat \ {0}
       /\ LowWater \in Nat

(* Definitions named for what they leave out or get wrong (Uncounted,       *)
(* Blindly, ...) precede the one they vary and are used by nothing: the     *)
(* README's table says which property notices each.                         *)

(* The fields of MrhttpApp the pool uses.  inprog is the set of Requests   *)
(* whose inprog flag is up; stray records that a Request that was not in   *)
(* progress has been released, which writes outside of the Request.        *)
InitialPool == [num    |-> InitialRequests,
                next   |-> 0,
                free   |-> InitialRequests,
                inprog |-> {},
                stray  |-> FALSE]

Slots(p) == 0 .. p.num - 1

FreeSlots(p) == Slots(p) \ p.inprog

DoubleUncounted(p) == [p EXCEPT !.num = 2 * @, !.next = p.num]

(* expand_requests appends as many fresh Requests as the list holds.       *)
DoubleRequests(p) ==
    [p EXCEPT !.num = 2 * @, !.next = p.num, !.free = @ + p.num]

(* The while loop of get_request: the first free Request after next, going *)
(* around the list.                                                        *)
After(p, k) == (p.next + k) % p.num

FirstFree(p) ==
    LET k == CHOOSE k \in 1 .. p.num :
               /\ After(p, k) \notin p.inprog
               /\ \A j \in 1 .. k - 1 : After(p, j) \in p.inprog
    IN  After(p, k)

AdvanceBlindly(p) == p
Advance(p) == [p EXCEPT !.next = FirstFree(p)]

(* get_request up to the point where next is the Request it will return.   *)
(* The second doubling is the redo of a search that went all the way round.*)
LocateGrowingAlways(p) ==
    LET q == [p EXCEPT !.free = @ - 1]
    IN  IF q.next \notin q.inprog THEN q ELSE Advance(DoubleRequests(q))

LocateGrowingEarly(p) ==
    LET q == [p EXCEPT !.free = @ - 1]
        g == IF q.free <= LowWater THEN DoubleRequests(q) ELSE q
    IN  IF q.next \notin q.inprog THEN q ELSE Advance(g)

Locate(p) ==
    LET q == [p EXCEPT !.free = @ - 1]
        g == IF q.free < LowWater THEN DoubleRequests(q) ELSE q
    IN  IF q.next \notin q.inprog THEN q
        ELSE IF FreeSlots(g) # {} THEN Advance(g)
        ELSE Advance(DoubleRequests(g))

GrantedRequest(p) == Locate(p).next

GetRequestOffTheEnd(p) ==
    LET q == Locate(p)
    IN  [q EXCEPT !.inprog = @ \cup {q.next}, !.next = q.next + 1]

GetRequest(p) ==
    LET q == Locate(p)
    IN  [q EXCEPT !.inprog = @ \cup {q.next},
                  !.next   = (q.next + 1) % q.num]

ReleaseRequest(p, r) ==
    IF r \in p.inprog
    THEN [p EXCEPT !.free = @ + 1, !.inprog = @ \ {r}]
    ELSE [p EXCEPT !.stray = TRUE]

(* A run of release_request calls, one for each element of the domain of f.*)
(* Releasing a Request twice in the run is a stray release too.            *)
ReleaseEach(p, f) ==
    LET R == {f[i] : i \in DOMAIN f}
    IN  [p EXCEPT !.free   = @ + Cardinality(R \cap p.inprog),
                  !.inprog = @ \ R,
                  !.stray  = \/ @
                             \/ ~(R \subseteq p.inprog)
                             \/ Cardinality(R) # Cardinality(DOMAIN f)]

-----------------------------------------------------------------------------
PoolTypeOK(p) ==
    /\ p \in [num : Nat \ {0}, next : Nat, free : Int,
              inprog : SUBSET Nat, stray : BOOLEAN]
    /\ p.next \in Slots(p)
    /\ p.inprog \subseteq Slots(p)

(* The counter and the flags agree.                                        *)
PoolCounted(p) == p.free = Cardinality(FreeSlots(p))
=============================================================================
