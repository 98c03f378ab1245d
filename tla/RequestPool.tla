------------------------------ MODULE RequestPool ------------------------------
(***************************************************************************)
(* The request pool of app.c and the connections that use it.  Each client *)
(* takes Requests (Protocol_init, Protocol_on_body, Protocol_handle_request*)
(* all call MrhttpApp_get_request) and releases those it took, in any      *)
(* order.                                                                  *)
(***************************************************************************)
EXTENDS PoolOps

CONSTANTS Clients,  (* the connections                                      *)
          MaxHeld   (* bound: Requests in progress at the same time         *)

ASSUME ClientsAssumption == MaxHeld \in Nat

VARIABLES pool,     (* the pool fields of MrhttpApp                         *)
          held      (* held[c]: the Requests client c took and still has    *)

vars == <<pool, held>>

Init == /\ pool = InitialPool
        /\ held = [c \in Clients |-> {}]

Get(c) ==
    /\ Cardinality(pool.inprog) < MaxHeld
    /\ pool' = GetRequest(pool)
    /\ held' = [held EXCEPT ![c] = @ \cup {GrantedRequest(pool)}]

Release(c, r) ==
    /\ pool' = ReleaseRequest(pool, r)
    /\ held' = [held EXCEPT ![c] = @ \ {r}]

Next == \E c \in Clients : Get(c) \/ \E r \in held[c] : Release(c, r)

Spec == Init /\ [][Next]_vars

-----------------------------------------------------------------------------
TypeOK ==
    /\ PoolTypeOK(pool)
    /\ held \in [Clients -> SUBSET Nat]

(* get_request never returns a Request that somebody still uses, and the   *)
(* inprog flags say exactly who uses what: two clients never share one.    *)
Exclusive ==
    /\ pool.inprog = UNION {held[c] : c \in Clients}
    /\ \A c, d \in Clients : c # d => held[c] \cap held[d] = {}

(* freeRequests, updated incrementally by get, release and double, is the  *)
(* number of Requests whose flag is down (the check left commented out in  *)
(* release_request), so it is never negative between two calls.            *)
FreeCountExact == PoolCounted(pool)

(* The list at most doubles what the demand of the busiest moment needs:   *)
(* an idle server does not grow it, whatever the order of releases.        *)
BoundedGrowth ==
    pool.num = InitialRequests \/ pool.num <= 2 * (MaxHeld + LowWater)

(* get_request doubles the list once at most, and only when LowWater or    *)
(* fewer Requests are left: the redo after a full circle is never taken.   *)
GrowsOnlyWhenLow ==
    [][pool'.num # pool.num => /\ pool'.num = 2 * pool.num
                               /\ Cardinality(FreeSlots(pool)) <= LowWater]_vars
=============================================================================
