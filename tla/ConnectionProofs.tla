-------------------------- MODULE ConnectionProofs --------------------------
(***************************************************************************)
(* That no two messages ever share a Request, and that the pool knows of   *)
(* every Request in use: proved for every number of connections, routes,   *)
(* sizes of the pool and of bursts, with clients that go away at any time. *)
(*                                                                         *)
(* Left out is only a value that is neither str nor bytes, returned by a   *)
(* handler whose response waits in a queue: task_done then frees entries   *)
(* it does not step over (see README).                                     *)
(*                                                                         *)
(* Then what passes the queue of a connection: its responses leave in the  *)
(* order of its requests, and its Requests all come back, whatever order   *)
(* the coroutines end in.  Nothing is answered twice on any route.         *)
(***************************************************************************)
EXTENDS Connection, PoolOpsProofs, SequenceTheorems

NoObjects == "object" \notin PageResults \cup TaskResults

Messages == [conn : Conns, msg : Int, cookie : BOOLEAN]
Entries == [msg : Int, req : Int, task : BOOLEAN, result : {"pending", "cancelling", "text", "raise"}]
IsLookup(w) == w.m \in Messages /\ w.req \in Int /\ w.route \in Kinds

Types ==
    /\ PoolTypeOK(pool) /\ PoolCounted(pool) /\ ~pool.stray
    /\ phase \in [Conns -> {"none", "init", "open", "aborting", "lost"}]
    /\ request \in [Conns -> Int]
    /\ queue \in [Conns -> Seq(Entries)]
    /\ qstart \in [Conns -> Nat]
    /\ \A c \in Conns : qstart[c] <= Len(queue[c])
    /\ \A w \in waiting : IsLookup(w)
    /\ sent \in [Conns -> Int]

Positions(c) == qstart[c] + 1 .. Len(queue[c])
LookupsOf(c) == {w \in waiting : w.m.conn = c}

(* The Requests of messages that wait, and all that c has.                 *)
Parked(c) == {queue[c][i].req : i \in Positions(c)} \cup {w.req : w \in LookupsOf(c)}
HeldBy(c) == Parked(c) \cup (IF Live(c) THEN {request[c]} ELSE {})

(* Within a connection each use has a Request to itself ...                *)
OnePerUse(c) ==
    /\ \A i, j \in Positions(c) : queue[c][i].req = queue[c][j].req => i = j
    /\ \A v, w \in LookupsOf(c) : v.req = w.req => v = w
    /\ \A i \in Positions(c), w \in LookupsOf(c) : queue[c][i].req # w.req
    /\ Live(c) => request[c] \notin Parked(c)

(* ... with the lines of its message, as long as it waits.                 *)
HasLines(r, conn, n) == r \in DOMAIN lines /\ lines[r].conn = conn /\ lines[r].msg = n

LinesKept(c) ==
    /\ \A i \in Positions(c) : HasLines(queue[c][i].req, c, queue[c][i].msg)
    /\ \A w \in LookupsOf(c) : w.req \in DOMAIN lines /\ lines[w.req] = w.m

(* The inductive invariant: that the flags of all Requests in use are up   *)
(* is what keeps the pool from handing one out again, so neither of the    *)
(* two properties is inductive without the other.                          *)
IInv ==
    /\ Types
    /\ \A c \in Conns : HeldBy(c) \subseteq pool.inprog /\ OnePerUse(c) /\ LinesKept(c)
    /\ \A c, d \in Conns : c # d => HeldBy(c) \cap HeldBy(d) = {}

-----------------------------------------------------------------------------
(* A set of numbers from a + 1 on without gaps is an interval.             *)
LEMMA Prefix ==
    ASSUME NEW a \in Nat, NEW b \in Nat, NEW K \in SUBSET (a + 1 .. b), a <= b,
           \A i \in K : \A j \in a + 1 .. i : j \in K
    PROVE  K = a + 1 .. a + Cardinality(K) /\ a + Cardinality(K) \in a .. b
<1> DEFINE T == {k \in a + 1 .. b + 1 : k \notin K}
<1>1. T \in SUBSET Nat /\ b + 1 \in T
  OBVIOUS
<1>2. PICK t \in T : \A j \in T : t <= j
  BY <1>1, SmallestNat
<1>3. t \in Nat /\ a + 1 <= t /\ t <= b + 1 /\ t \notin K
  BY <1>1, <1>2
<1>4. K = a + 1 .. t - 1
  <2>1. ASSUME NEW i \in K PROVE i \in a + 1 .. t - 1
    <3>1. i \in Nat /\ a + 1 <= i
      OBVIOUS
    <3>2. t <= i => t \in K
      BY <1>3, <3>1
    <3> QED
      BY <1>3, <3>1, <3>2
  <2>2. ASSUME NEW i \in a + 1 .. t - 1 PROVE i \in K
    BY <1>2, <1>3
  <2> QED
    BY <2>1, <2>2
<1>5. Cardinality(a + 1 .. t - 1) = t - 1 - a
  <2>1. a + 1 \in Int /\ t - 1 \in Int
    BY <1>3
  <2>2. Cardinality(a + 1 .. t - 1) = IF a + 1 > t - 1 THEN 0 ELSE (t - 1) - (a + 1) + 1
    BY <2>1, FS_Interval
  <2> QED
    BY <1>3, <2>2
<1> QED
  BY <1>3, <1>4, <1>5

-----------------------------------------------------------------------------
(* What the invariant says of the properties.                              *)
LEMMA HeldIs ==
    ASSUME NEW c \in Conns PROVE Held(c) = HeldBy(c)
<1>1. ASSUME NEW u \in Uses(c) PROVE u[3] \in HeldBy(c)
  BY DEF Uses, HeldBy, Parked, Positions, LookupsOf
<1>2. ASSUME NEW r \in HeldBy(c) PROVE \E u \in Uses(c) : u[3] = r
  <2>1. CASE Live(c) /\ r = request[c]
    <3>1. <<"current", 0, r>> \in Uses(c)
      BY <2>1 DEF Uses
    <3> QED
      BY <3>1
  <2>2. ASSUME NEW i \in Positions(c), r = queue[c][i].req
        PROVE  \E u \in Uses(c) : u[3] = r
    <3>1. <<"queued", i, r>> \in Uses(c)
      BY <2>2 DEF Uses, Positions
    <3> QED
      BY <3>1
  <2>3. ASSUME NEW w \in LookupsOf(c), r = w.req
        PROVE  \E u \in Uses(c) : u[3] = r
    <3>1. <<"waiting", w.m.msg, r>> \in Uses(c)
      BY <2>3 DEF Uses, LookupsOf
    <3> QED
      BY <3>1
  <2> QED
    BY <2>1, <2>2, <2>3 DEF HeldBy, Parked
<1> QED
  BY <1>1, <1>2 DEF Held

LEMMA OneUse ==
    ASSUME NEW c \in Conns, OnePerUse(c), NEW u \in Uses(c), NEW v \in Uses(c), u[3] = v[3]
    PROVE  u = v
<1> DEFINE IsCurrent(x) == Live(c) /\ x = <<"current", 0, request[c]>>
           IsQueued(x) == \E i \in Positions(c) : x = <<"queued", i, queue[c][i].req>>
           IsWaiting(x) == \E w \in LookupsOf(c) : x = <<"waiting", w.m.msg, w.req>>
<1>1. \A x \in Uses(c) : IsCurrent(x) \/ IsQueued(x) \/ IsWaiting(x)
  BY DEF Uses, Positions, LookupsOf
<1>2. \A x : (IsQueued(x) \/ IsWaiting(x)) => x[3] \in Parked(c)
  BY DEF Parked
<1>3. ASSUME NEW x, NEW y, IsCurrent(x), IsQueued(y) \/ IsWaiting(y) PROVE x[3] # y[3]
  BY <1>2, <1>3 DEF OnePerUse
<1>4. ASSUME NEW x, NEW y, IsQueued(x), IsWaiting(y) PROVE x[3] # y[3]
  BY <1>4 DEF OnePerUse
<1>5. ASSUME NEW x, NEW y, IsQueued(x), IsQueued(y), x[3] = y[3] PROVE x = y
  BY <1>5 DEF OnePerUse
<1>6. ASSUME NEW x, NEW y, IsWaiting(x), IsWaiting(y), x[3] = y[3] PROVE x = y
  BY <1>6 DEF OnePerUse
<1> HIDE DEF IsQueued, IsWaiting
<1> QED
  BY <1>1, <1>3, <1>4, <1>5, <1>6

LEMMA IInvImplies == IInv => RequestsKept /\ PoolAgrees
<1> SUFFICES ASSUME IInv PROVE RequestsKept /\ PoolAgrees
  OBVIOUS
<1>1. RequestsNotShared
  <2> SUFFICES ASSUME NEW c \in Conns, NEW d \in Conns, NEW u \in Uses(c), NEW v \in Uses(d),
                      u[3] = v[3]
               PROVE  c = d /\ u = v
    BY DEF RequestsNotShared
  <2>1. u[3] \in HeldBy(c) /\ v[3] \in HeldBy(d)
    BY HeldIs DEF Held
  <2>2. c = d
    BY <2>1 DEF IInv
  <2> QED
    BY <2>2, OneUse DEF IInv
<1>2. ParkedKeepLines
  <2>1. ASSUME NEW w \in waiting PROVE w.req \in DOMAIN lines /\ lines[w.req] = w.m
    <3>1. w.m.conn \in Conns
      BY DEF IInv, Types, IsLookup, Messages
    <3> QED
      BY <3>1 DEF IInv, LinesKept, LookupsOf
  <2>2. ASSUME NEW c \in Conns, NEW i \in qstart[c] + 1 .. Len(queue[c])
        PROVE  HasLines(queue[c][i].req, c, queue[c][i].msg)
    BY DEF IInv, LinesKept, Positions
  <2> QED
    BY <2>1, <2>2 DEF ParkedKeepLines, HasLines
<1>3. PoolAgrees
  BY HeldIs DEF IInv, Types, PoolAgrees
<1> QED
  BY <1>1, <1>2, <1>3 DEF RequestsKept

-----------------------------------------------------------------------------
LEMMA InitIInv == Init => IInv
<1> SUFFICES ASSUME Init PROVE IInv
  OBVIOUS
<1>1. PoolTypeOK(pool) /\ PoolCounted(pool) /\ ~pool.stray
  <2>1. InitialRequests \in Nat \ {0}
    BY PoolAssumption
  <2>2. pool = [num |-> InitialRequests, next |-> 0, free |-> InitialRequests,
                inprog |-> {}, stray |-> FALSE]
    BY DEF Init, InitialPool
  <2>3. Cardinality(0 .. InitialRequests - 1) = InitialRequests
    BY <2>1, FS_Interval
  <2>4. PoolTypeOK(pool) /\ ~pool.stray
    BY <2>1, <2>2 DEF PoolTypeOK, Slots
  <2>5. FreeSlots(pool) = 0 .. InitialRequests - 1
    BY <2>2 DEF FreeSlots, Slots
  <2> QED
    BY <2>2, <2>3, <2>4, <2>5 DEF PoolCounted
<1>2. Types
  BY <1>1 DEF Init, Types, NoRequest
<1>3. ASSUME NEW c \in Conns PROVE HeldBy(c) = {} /\ Positions(c) = {} /\ LookupsOf(c) = {} /\ ~Live(c)
  BY DEF Init, HeldBy, Parked, Positions, LookupsOf, Live
<1> QED
  BY <1>2, <1>3 DEF IInv, OnePerUse, LinesKept

(* A step of one connection: it takes the Requests G, which nobody has,    *)
(* gives back the Requests F, which are its own, and fills or resets only  *)
(* its own.  The other connections are where they were.                    *)
LEMMA StepOfOne ==
    ASSUME IInv, Types', NEW c \in Conns, NEW G, NEW F,
           \A d \in Conns \ {c} : /\ phase'[d] = phase[d] /\ request'[d] = request[d]
                                  /\ queue'[d] = queue[d] /\ qstart'[d] = qstart[d]
                                  /\ LookupsOf(d)' = LookupsOf(d),
           pool'.inprog = (pool.inprog \cup G) \ F,
           G \cap pool.inprog = {},
           F \subseteq HeldBy(c),
           HeldBy(c)' \subseteq (HeldBy(c) \cup G) \ F,
           \A r \in pool.inprog \ HeldBy(c) :
               r \in DOMAIN lines => r \in DOMAIN lines' /\ lines'[r] = lines[r],
           OnePerUse(c)', LinesKept(c)'
    PROVE  IInv'
<1>1. ASSUME NEW d \in Conns \ {c}
      PROVE  /\ HeldBy(d)' = HeldBy(d) /\ OnePerUse(d)' /\ LinesKept(d)'
             /\ HeldBy(d)' \subseteq pool'.inprog /\ HeldBy(d)' \cap HeldBy(c)' = {}
  <2>1. /\ HeldBy(d) \subseteq pool.inprog /\ OnePerUse(d) /\ LinesKept(d)
        /\ HeldBy(d) \cap HeldBy(c) = {}
    BY DEF IInv
  <2>2. /\ phase'[d] = phase[d] /\ request'[d] = request[d]
        /\ queue'[d] = queue[d] /\ qstart'[d] = qstart[d]
        /\ LookupsOf(d)' = LookupsOf(d)
    OBVIOUS
  <2>3. /\ Positions(d)' = Positions(d) /\ Parked(d)' = Parked(d) /\ Live(d)' = Live(d)
        /\ HeldBy(d)' = HeldBy(d)
    BY <2>2 DEF Positions, Parked, Live, HeldBy
  <2>4. OnePerUse(d)'
    BY <2>1, <2>2, <2>3 DEF OnePerUse
  <2>5. \A r \in Parked(d) : r \in DOMAIN lines => r \in DOMAIN lines' /\ lines'[r] = lines[r]
    BY <2>1 DEF HeldBy
  <2>6. LinesKept(d)'
    BY <2>1, <2>2, <2>3, <2>5 DEF LinesKept, HasLines, Parked
  <2> QED
    BY <2>1, <2>3, <2>4, <2>6
<1>2. HeldBy(c)' \subseteq pool'.inprog
  BY DEF IInv
<1>3. ASSUME NEW d \in Conns, NEW e \in Conns, d # e PROVE HeldBy(d)' \cap HeldBy(e)' = {}
  <2>1. HeldBy(d) \cap HeldBy(e) = {}
    BY <1>3 DEF IInv
  <2> QED
    BY <1>1, <1>3, <2>1
<1> QED
  BY <1>1, <1>2, <1>3 DEF IInv

(* The queue keeps its places, though a result in it may change.           *)
SameShape(c) ==
    /\ qstart'[c] = qstart[c] /\ Len(queue'[c]) = Len(queue[c])
    /\ \A i \in Positions(c) : queue'[c][i].req = queue[c][i].req /\ queue'[c][i].msg = queue[c][i].msg

OthersStay(c) ==
    \A d \in Conns \ {c} : /\ phase'[d] = phase[d] /\ request'[d] = request[d]
                           /\ queue'[d] = queue[d] /\ qstart'[d] = qstart[d]

(* Nothing is filled or reset but what is in R.                            *)
LinesBut(R) ==
    \A r \in DOMAIN lines : r \in R \/ (r \in DOMAIN lines' /\ lines'[r] = lines[r])

CurrentOf(c) == IF Live(c) THEN {request[c]} ELSE {}

(* Only the current Request of a connection changes.                       *)
LEMMA CurrentChanges ==
    ASSUME IInv, Types', NEW c \in Conns, NEW G, NEW F,
           SameShape(c), OthersStay(c), UNCHANGED waiting, LinesBut(CurrentOf(c)),
           pool'.inprog = (pool.inprog \cup G) \ F,
           G \cap pool.inprog = {}, F \subseteq CurrentOf(c),
           Live(c)' => request'[c] \in G \/ (request'[c] \in CurrentOf(c) /\ F = {})
    PROVE  IInv'
<1>1. HeldBy(c) \subseteq pool.inprog /\ OnePerUse(c) /\ LinesKept(c)
  BY DEF IInv
<1>2. Positions(c)' = Positions(c) /\ Parked(c)' = Parked(c) /\ LookupsOf(c)' = LookupsOf(c)
  BY DEF SameShape, Positions, Parked, LookupsOf
<1>3. CurrentOf(c) \cap Parked(c) = {} /\ HeldBy(c) = Parked(c) \cup CurrentOf(c)
  BY <1>1 DEF OnePerUse, CurrentOf, HeldBy
<1>4. HeldBy(c)' = Parked(c) \cup CurrentOf(c)'
  BY <1>2 DEF HeldBy, CurrentOf
<1>5. CurrentOf(c)' \subseteq G \cup (CurrentOf(c) \ F)
  BY DEF CurrentOf
<1>6. HeldBy(c)' \subseteq (HeldBy(c) \cup G) \ F
  BY <1>1, <1>3, <1>4, <1>5
<1>7. OnePerUse(c)'
  <2>1. Live(c)' => request'[c] \notin Parked(c)
    BY <1>1, <1>3
  <2> QED
    BY <1>1, <1>2, <2>1 DEF OnePerUse, SameShape
<1>8. LinesKept(c)'
  <2>1. \A r \in Parked(c) : r \in DOMAIN lines => r \in DOMAIN lines' /\ lines'[r] = lines[r]
    BY <1>3 DEF LinesBut
  <2> QED
    BY <1>1, <1>2, <2>1 DEF LinesKept, HasLines, Parked, SameShape
<1>9. \A d \in Conns \ {c} : LookupsOf(d)' = LookupsOf(d)
  BY DEF LookupsOf
<1>10. \A r \in pool.inprog \ HeldBy(c) : r \in DOMAIN lines => r \in DOMAIN lines' /\ lines'[r] = lines[r]
  BY <1>3 DEF LinesBut
<1> QED
  BY <1>3, <1>6, <1>7, <1>8, <1>9, <1>10, StepOfOne DEF OthersStay

(* What get_request gives is nobody's.                                     *)
LEMMA Granted ==
    ASSUME IInv
    PROVE  LET q == GetRequest(pool)
               r == GrantedRequest(pool)
           IN  /\ PoolTypeOK(q) /\ PoolCounted(q) /\ ~q.stray
               /\ r \in Int /\ r \notin pool.inprog
               /\ q.inprog = pool.inprog \cup {r}
<1>1. PoolTypeOK(pool) /\ PoolCounted(pool) /\ ~pool.stray
  BY DEF IInv, Types
<1>2. GrantedRequest(pool) \in Slots(GetRequest(pool)) /\ PoolTypeOK(GetRequest(pool))
  BY <1>1, GetRequestFacts
<1>3. GrantedRequest(pool) \in Int
  BY <1>2 DEF Slots
<1> QED
  BY <1>1, <1>3, GetRequestFacts

LEMMA Released ==
    ASSUME NEW p, PoolTypeOK(p), PoolCounted(p), ~p.stray, NEW r \in p.inprog
    PROVE  LET q == ReleaseRequest(p, r)
           IN  /\ PoolTypeOK(q) /\ PoolCounted(q) /\ ~q.stray
               /\ q.inprog = p.inprog \ {r}
BY ReleaseRequestFacts

(* pipeline_queue: one place more, at the end.                             *)
LEMMA QueueGrows ==
    ASSUME Types, NEW c \in Conns, NEW entry \in Entries, PipelineQueue(c, entry)
    PROVE  /\ queue' \in [Conns -> Seq(Entries)] /\ qstart' \in [Conns -> Nat]
           /\ \A d \in Conns : qstart'[d] <= Len(queue'[d])
           /\ \A d \in Conns \ {c} : queue'[d] = queue[d] /\ qstart'[d] = qstart[d]
           /\ LET k == Len(queue'[c])
              IN  /\ k \in Positions(c)' /\ queue'[c][k] = entry
                  /\ \A i \in Positions(c)' \ {k} : i \in Positions(c) /\ queue'[c][i] = queue[c][i]
                  /\ \A i \in Positions(c) : i \in Positions(c)' \ {k}
<1>1. /\ queue \in [Conns -> Seq(Entries)] /\ qstart \in [Conns -> Nat]
      /\ qstart[c] <= Len(queue[c]) /\ queue[c] \in Seq(Entries)
      /\ \A d \in Conns : qstart[d] <= Len(queue[d])
  BY DEF Types
<1>2. CASE PipelineEmpty(c)
  <2>1. /\ queue' = [queue EXCEPT ![c] = <<entry>>] /\ qstart' = [qstart EXCEPT ![c] = 0]
        /\ qstart[c] = Len(queue[c])
    BY <1>2 DEF PipelineQueue, PipelineEmpty
  <2>2. <<entry>> \in Seq(Entries) /\ Len(<<entry>>) = 1 /\ <<entry>>[1] = entry
    OBVIOUS
  <2>3. /\ queue'[c] = <<entry>> /\ qstart'[c] = 0
        /\ queue' \in [Conns -> Seq(Entries)] /\ qstart' \in [Conns -> Nat]
        /\ \A d \in Conns \ {c} : queue'[d] = queue[d] /\ qstart'[d] = qstart[d]
    BY <1>1, <2>1, <2>2
  <2>4. Positions(c) = {} /\ Positions(c)' = {1}
    BY <1>1, <2>1, <2>2, <2>3 DEF Positions
  <2>5. Len(queue'[c]) = 1 /\ queue'[c][1] = entry
    BY <2>2, <2>3
  <2>6. ASSUME NEW d \in Conns PROVE qstart'[d] <= Len(queue'[d])
    <3>1. CASE d = c
      BY <2>3, <2>5, <3>1
    <3>2. CASE d # c
      BY <1>1, <2>3, <3>2
    <3> QED
      BY <3>1, <3>2
  <2> QED
    BY <2>3, <2>4, <2>5, <2>6
<1>3. CASE ~PipelineEmpty(c)
  <2>1. /\ queue' = [queue EXCEPT ![c] = Append(queue[c], entry)] /\ qstart' = qstart
    BY <1>1, <1>3 DEF PipelineQueue
  <2>2. /\ Append(queue[c], entry) \in Seq(Entries)
        /\ Len(Append(queue[c], entry)) = Len(queue[c]) + 1
        /\ Append(queue[c], entry)[Len(queue[c]) + 1] = entry
        /\ \A i \in 1 .. Len(queue[c]) : Append(queue[c], entry)[i] = queue[c][i]
        /\ Len(queue[c]) \in Nat
    BY <1>1
  <2>3. /\ queue'[c] = Append(queue[c], entry)
        /\ queue' \in [Conns -> Seq(Entries)]
        /\ \A d \in Conns \ {c} : queue'[d] = queue[d]
    BY <1>1, <2>1, <2>2
  <2>4. Positions(c)' = qstart[c] + 1 .. Len(queue[c]) + 1 /\ qstart[c] \in Nat
    BY <1>1, <2>1, <2>2, <2>3 DEF Positions
  <2>5. \A d \in Conns : qstart'[d] <= Len(queue'[d])
    BY <1>1, <2>1, <2>2, <2>3
  <2> QED
    BY <1>1, <2>1, <2>2, <2>3, <2>4, <2>5 DEF Positions
<1> QED
  BY <1>2, <1>3

(* What a request that is handled does, in the words of this module.       *)
LEMMA HandleShapes ==
    ASSUME NEW c, NEW req, NEW m, NEW route, NEW result, NEW ln, NEW hd, NEW id, NEW failure,
           HandleRequest(c, req, m, route, result, ln, hd, id, failure), result # "object"
    PROVE  LET fresh == ParksRequest(c, req, route)
               p     == IF fresh THEN GetRequest(pool) ELSE pool
               cur   == IF fresh THEN GrantedRequest(pool) ELSE request[c]
               entry == [msg |-> m.msg, req |-> req, task |-> IsCoro(route),
                         result |-> IF IsCoro(route) THEN "pending" ELSE result]
           IN  /\ request' = [request EXCEPT ![c] = cur]
               /\ \/ /\ pool' = IF req # cur THEN ReleaseRequest(p, req) ELSE p
                     /\ lines' = Reset(ln, {req})
                     /\ UNCHANGED <<queue, qstart>>
                  \/ /\ IsCoro(route) \/ ~PipelineEmpty(c)
                     /\ PipelineQueue(c, entry)
                     /\ pool' = p /\ lines' = ln
                  \/ /\ pool' = p /\ lines' = ln
                     /\ UNCHANGED <<queue, qstart>>
BY DEF HandleRequest

-----------------------------------------------------------------------------
(* A message takes a place in the queue, with a Request no other message   *)
(* that waits has.                                                         *)
LEMMA QueueTakes ==
    ASSUME IInv, NEW c \in Conns, NEW entry \in Entries, PipelineQueue(c, entry),
           LookupsOf(c)' \subseteq LookupsOf(c),
           entry.req \notin {queue[c][i].req : i \in Positions(c)},
           entry.req \notin {w.req : w \in LookupsOf(c)'},
           Live(c)' => request'[c] \notin Parked(c) \cup {entry.req},
           LinesBut({entry.req}), entry.req \in DOMAIN lines',
           lines'[entry.req].conn = c, lines'[entry.req].msg = entry.msg
    PROVE  OnePerUse(c)' /\ LinesKept(c)' /\ Parked(c)' \subseteq Parked(c) \cup {entry.req}
<1> DEFINE k == Len(queue'[c])
<1>1. /\ k \in Positions(c)' /\ queue'[c][k] = entry
      /\ \A i \in Positions(c)' \ {k} : i \in Positions(c) /\ queue'[c][i] = queue[c][i]
  BY QueueGrows DEF IInv
<1>2. OnePerUse(c) /\ LinesKept(c)
  BY DEF IInv
<1> HIDE DEF k
<1>3. Parked(c)' \subseteq Parked(c) \cup {entry.req}
  BY <1>1 DEF Parked
<1>4. OnePerUse(c)'
  <2>1. ASSUME NEW i \in Positions(c)', NEW j \in Positions(c)', queue'[c][i].req = queue'[c][j].req
        PROVE  i = j
    <3>1. i # k => i \in Positions(c) /\ queue'[c][i] = queue[c][i]
      BY <1>1
    <3>2. j # k => j \in Positions(c) /\ queue'[c][j] = queue[c][j]
      BY <1>1
    <3> QED
      BY <1>1, <1>2, <2>1, <3>1, <3>2 DEF OnePerUse
  <2>2. ASSUME NEW i \in Positions(c)', NEW w \in LookupsOf(c)' PROVE queue'[c][i].req # w.req
    <3>1. CASE i = k
      BY <1>1, <3>1
    <3>2. CASE i # k
      BY <1>1, <1>2, <3>2 DEF OnePerUse
    <3> QED
      BY <3>1, <3>2
  <2>3. \A v, w \in LookupsOf(c)' : v.req = w.req => v = w
    BY <1>2 DEF OnePerUse
  <2>4. Live(c)' => request'[c] \notin Parked(c)'
    BY <1>3
  <2> QED
    BY <2>1, <2>2, <2>3, <2>4 DEF OnePerUse
<1>5. LinesKept(c)'
  <2>1. ASSUME NEW i \in Positions(c)' PROVE HasLines(queue[c][i].req, c, queue[c][i].msg)'
    <3>1. CASE i = k
      BY <1>1, <3>1 DEF HasLines
    <3>2. CASE i # k
      <4>1. i \in Positions(c) /\ queue'[c][i] = queue[c][i] /\ queue[c][i].req # entry.req
        BY <1>1, <3>2
      <4>2. HasLines(queue[c][i].req, c, queue[c][i].msg)
        BY <1>2, <4>1 DEF LinesKept
      <4> QED
        BY <4>1, <4>2 DEF HasLines, LinesBut
    <3> QED
      BY <3>1, <3>2
  <2>2. ASSUME NEW w \in LookupsOf(c)' PROVE w.req \in DOMAIN lines' /\ lines'[w.req] = w.m
    <3>1. w \in LookupsOf(c) /\ w.req # entry.req
      OBVIOUS
    <3>2. w.req \in DOMAIN lines /\ lines[w.req] = w.m
      BY <1>2, <3>1 DEF LinesKept
    <3> QED
      BY <3>1, <3>2 DEF LinesBut
  <2> QED
    BY <2>1, <2>2 DEF LinesKept
<1> QED
  BY <1>3, <1>4, <1>5

(* A message is parked for its session, with the Request it was read into. *)
LEMMA LookupTakes ==
    ASSUME IInv, NEW c \in Conns, NEW w, waiting' = waiting \cup {w}, w.m.conn = c,
           UNCHANGED <<queue, qstart>>,
           w.req \notin Parked(c), Live(c)' => request'[c] \notin Parked(c) \cup {w.req},
           LinesBut({w.req}), w.req \in DOMAIN lines', lines'[w.req] = w.m
    PROVE  OnePerUse(c)' /\ LinesKept(c)' /\ Parked(c)' = Parked(c) \cup {w.req}
<1>1. OnePerUse(c) /\ LinesKept(c)
  BY DEF IInv
<1>2. Positions(c)' = Positions(c) /\ queue'[c] = queue[c] /\ LookupsOf(c)' = LookupsOf(c) \cup {w}
  BY DEF Positions, LookupsOf
<1>3. Parked(c)' = Parked(c) \cup {w.req}
  BY <1>2 DEF Parked
<1>4. \A r \in Parked(c) : r \in DOMAIN lines => r \in DOMAIN lines' /\ lines'[r] = lines[r]
  BY DEF LinesBut
<1>5. OnePerUse(c)'
  BY <1>1, <1>2, <1>3 DEF OnePerUse, Parked
<1>6. LinesKept(c)'
  BY <1>1, <1>2, <1>4 DEF LinesKept, HasLines, Parked
<1> QED
  BY <1>3, <1>5, <1>6

(* A lookup is answered, and its message does not wait on.                 *)
LEMMA LookupGone ==
    ASSUME IInv, NEW c \in Conns, NEW w \in LookupsOf(c), LookupsOf(c)' = LookupsOf(c) \ {w},
           UNCHANGED <<queue, qstart, request, phase>>, LinesBut({w.req})
    PROVE  OnePerUse(c)' /\ LinesKept(c)' /\ Parked(c)' = Parked(c) \ {w.req}
<1>1. OnePerUse(c) /\ LinesKept(c)
  BY DEF IInv
<1>2. Positions(c)' = Positions(c) /\ queue'[c] = queue[c] /\ Live(c)' = Live(c) /\ request'[c] = request[c]
  BY DEF Positions, Live
<1>3. Parked(c)' = Parked(c) \ {w.req}
  BY <1>1, <1>2 DEF Parked, OnePerUse
<1>4. \A r \in Parked(c)' : r \in DOMAIN lines => r \in DOMAIN lines' /\ lines'[r] = lines[r]
  BY <1>3 DEF LinesBut
<1>5. OnePerUse(c)'
  BY <1>1, <1>2, <1>3 DEF OnePerUse
<1>6. LinesKept(c)'
  BY <1>1, <1>2, <1>4 DEF LinesKept, HasLines, Parked
<1> QED
  BY <1>3, <1>5, <1>6

-----------------------------------------------------------------------------
(* The steps that do not touch what waits.                                 *)
LEMMA ProtocolInitIInv ==
    ASSUME IInv, NEW c \in Conns, ProtocolInit(c) PROVE IInv'
<1> DEFINE r == GrantedRequest(pool)
<1>1. /\ phase[c] = "none" /\ phase' = [phase EXCEPT ![c] = "init"]
      /\ pool' = GetRequest(pool) /\ request' = [request EXCEPT ![c] = r]
      /\ UNCHANGED <<queue, qstart, waiting, lines, sent>>
  BY DEF ProtocolInit
<1>2. /\ PoolTypeOK(pool') /\ PoolCounted(pool') /\ ~pool'.stray
      /\ r \in Int /\ r \notin pool.inprog /\ pool'.inprog = pool.inprog \cup {r}
  BY <1>1, Granted
<1> HIDE DEF r
<1>3. Types'
  BY <1>1, <1>2 DEF IInv, Types
<1>4. request'[c] = r /\ OthersStay(c) /\ SameShape(c) /\ LinesBut(CurrentOf(c))
  BY <1>1 DEF IInv, Types, OthersStay, SameShape, LinesBut
<1>5. /\ pool'.inprog = (pool.inprog \cup {r}) \ {} /\ {r} \cap pool.inprog = {}
      /\ {} \subseteq CurrentOf(c) /\ request'[c] \in {r} /\ UNCHANGED waiting
  BY <1>1, <1>2, <1>4
<1> QED
  BY ONLY IInv, <1>3, <1>4, <1>5, CurrentChanges

LEMMA ConnectionMadeIInv ==
    ASSUME IInv, NEW c \in Conns, ConnectionMade(c) PROVE IInv'
<1>1. /\ phase[c] = "init" /\ phase' = [phase EXCEPT ![c] = "open"]
      /\ UNCHANGED <<pool, request, queue, qstart, waiting, lines, sent>>
  BY DEF ConnectionMade
<1>2. Types' /\ OthersStay(c) /\ SameShape(c) /\ LinesBut(CurrentOf(c))
  BY <1>1 DEF IInv, Types, OthersStay, SameShape, LinesBut
<1>3. request'[c] \in CurrentOf(c)
  BY <1>1 DEF CurrentOf, Live
<1>4. /\ pool'.inprog = (pool.inprog \cup {}) \ {} /\ {} \cap pool.inprog = {}
      /\ {} \subseteq CurrentOf(c) /\ UNCHANGED waiting
  BY <1>1
<1> QED
  BY ONLY IInv, <1>2, <1>3, <1>4, CurrentChanges

LEMMA TaskEndsIInv ==
    ASSUME NoObjects, IInv, NEW c \in Conns, NEW i \in DOMAIN queue[c], NEW result \in Results,
           TaskEnds(c, i, result)
    PROVE  IInv'
<1>1. /\ queue' = [queue EXCEPT ![c] = [queue[c] EXCEPT ![i] = [queue[c][i] EXCEPT !.result = result]]]
      /\ UNCHANGED <<pool, phase, request, qstart, waiting, lines, sent>>
      /\ result \in {"text", "raise"}
  BY DEF TaskEnds, NoObjects, Results
<1>2. queue[c] \in Seq(Entries) /\ queue[c][i] \in Entries /\ queue \in [Conns -> Seq(Entries)]
  BY DEF IInv, Types
<1> DEFINE e == [queue[c][i] EXCEPT !.result = result]
           q == [queue[c] EXCEPT ![i] = e]
<1>3. e \in Entries /\ e.req = queue[c][i].req /\ e.msg = queue[c][i].msg
  BY <1>1, <1>2 DEF Entries
<1> HIDE DEF e
<1>4. /\ q \in Seq(Entries) /\ Len(q) = Len(queue[c]) /\ q[i] = e
      /\ \A j \in 1 .. Len(queue[c]) : j # i => q[j] = queue[c][j]
  BY <1>2, <1>3
<1>5. queue' = [queue EXCEPT ![c] = q]
  BY <1>1 DEF e
<1> HIDE DEF q
<1>6. /\ queue'[c] = q /\ queue' \in [Conns -> Seq(Entries)]
      /\ \A d \in Conns \ {c} : queue'[d] = queue[d]
  BY <1>2, <1>4, <1>5
<1>7. Types'
  <2>1. ASSUME NEW d \in Conns PROVE qstart'[d] <= Len(queue'[d])
    BY <1>1, <1>4, <1>6 DEF IInv, Types
  <2> QED
    BY <1>1, <1>6, <2>1 DEF IInv, Types
<1>8. SameShape(c)
  <2>1. \A j \in Positions(c) : j \in 1 .. Len(queue[c])
    BY <1>2 DEF Positions, IInv, Types
  <2> QED
    BY <1>1, <1>3, <1>4, <1>6, <2>1 DEF SameShape
<1>9. OthersStay(c) /\ LinesBut(CurrentOf(c)) /\ (Live(c)' => request'[c] \in CurrentOf(c))
  BY <1>1, <1>6 DEF OthersStay, LinesBut, CurrentOf, Live
<1>10. /\ pool'.inprog = (pool.inprog \cup {}) \ {} /\ {} \cap pool.inprog = {}
       /\ {} \subseteq CurrentOf(c) /\ UNCHANGED waiting
  BY <1>1
<1> QED
  BY ONLY IInv, <1>7, <1>8, <1>9, <1>10, CurrentChanges

LEMMA ConnectionLostIInv ==
    ASSUME IInv, NEW c \in Conns, ConnectionLost(c) PROVE IInv'
<1>1. /\ phase[c] \in {"aborting", "open"} /\ phase' = [phase EXCEPT ![c] = "lost"]
      /\ pool' = ReleaseRequest(pool, request[c])
      /\ lines' = Reset(lines, {request[c]})
      /\ queue' = [queue EXCEPT ![c] = PipelineCancel(c)]
      /\ UNCHANGED <<request, qstart, waiting, sent>>
  BY DEF ConnectionLost
<1>2. /\ queue[c] \in Seq(Entries) /\ queue \in [Conns -> Seq(Entries)]
      /\ PoolTypeOK(pool) /\ PoolCounted(pool) /\ ~pool.stray
  BY DEF IInv, Types
<1>3. CurrentOf(c) = {request[c]} /\ request[c] \in pool.inprog /\ ~Live(c)'
  BY <1>1 DEF CurrentOf, Live, IInv, Types, HeldBy
<1>4. /\ PoolTypeOK(pool') /\ PoolCounted(pool') /\ ~pool'.stray
      /\ pool'.inprog = pool.inprog \ {request[c]}
  BY <1>1, <1>2, <1>3, Released
<1> DEFINE q == PipelineCancel(c)
<1>5. /\ q \in Seq(Entries) /\ Len(q) = Len(queue[c])
      /\ \A i \in 1 .. Len(queue[c]) : q[i].req = queue[c][i].req /\ q[i].msg = queue[c][i].msg
  <2>1. ASSUME NEW i \in 1 .. Len(queue[c])
        PROVE  q[i] \in Entries /\ q[i].req = queue[c][i].req /\ q[i].msg = queue[c][i].msg
    <3>1. queue[c][i] \in Entries
      BY <1>2
    <3>2. q[i] \in {queue[c][i], [queue[c][i] EXCEPT !.result = "cancelling"]}
      BY <1>2 DEF PipelineCancel
    <3> HIDE DEF q
    <3> QED
      BY <3>1, <3>2 DEF Entries
  <2>2. DOMAIN q = 1 .. Len(queue[c]) /\ Len(queue[c]) \in Nat /\ q = [i \in 1 .. Len(queue[c]) |-> q[i]]
    BY <1>2 DEF PipelineCancel
  <2> HIDE DEF q
  <2> QED
    BY <2>1, <2>2
<1> HIDE DEF q
<1>6. /\ queue'[c] = q /\ queue' \in [Conns -> Seq(Entries)]
      /\ \A d \in Conns \ {c} : queue'[d] = queue[d]
  BY <1>1, <1>2, <1>5 DEF q
<1>7. Types'
  <2>1. ASSUME NEW d \in Conns PROVE qstart'[d] <= Len(queue'[d])
    BY <1>1, <1>5, <1>6 DEF IInv, Types
  <2> QED
    BY <1>1, <1>4, <1>6, <2>1 DEF IInv, Types
<1>8. SameShape(c)
  <2>1. \A j \in Positions(c) : j \in 1 .. Len(queue[c])
    BY <1>2 DEF Positions, IInv, Types
  <2> QED
    BY <1>1, <1>5, <1>6, <2>1 DEF SameShape
<1>9. OthersStay(c) /\ LinesBut(CurrentOf(c))
  BY <1>1, <1>3, <1>6 DEF IInv, Types, OthersStay, LinesBut, Reset
<1>10. /\ pool'.inprog = (pool.inprog \cup {}) \ {request[c]} /\ {} \cap pool.inprog = {}
       /\ {request[c]} \subseteq CurrentOf(c) /\ UNCHANGED waiting
  BY <1>1, <1>3, <1>4
<1> QED
  BY ONLY IInv, <1>3, <1>7, <1>8, <1>9, <1>10, CurrentChanges

-----------------------------------------------------------------------------
(* A message just read, held by the current Request.                       *)
LEMMA Filled ==
    ASSUME NEW r, NEW m
    PROVE  LET ln == Fill(lines, r, m)
           IN  /\ r \in DOMAIN ln /\ ln[r] = m
               /\ \A x \in DOMAIN lines : x = r \/ (x \in DOMAIN ln /\ ln[x] = lines[x])
BY DEF Fill

LEMMA CurrentIs ==
    ASSUME IInv, NEW c \in Conns, Live(c)
    PROVE  /\ CurrentOf(c) = {request[c]} /\ request[c] \in pool.inprog
           /\ request[c] \notin Parked(c) /\ HeldBy(c) = Parked(c) \cup {request[c]}
           /\ request[c] \in Int
BY DEF IInv, Types, CurrentOf, HeldBy, OnePerUse

(* The current Request is parked: the next message gets a new one.         *)
LEMMA CurrentParks ==
    ASSUME IInv, Types', NEW c \in Conns, Live(c), OthersStay(c),
           \A d \in Conns \ {c} : LookupsOf(d)' = LookupsOf(d),
           pool' = GetRequest(pool), request'[c] = GrantedRequest(pool),
           LinesBut({request[c]}), OnePerUse(c)', LinesKept(c)',
           Parked(c)' \subseteq Parked(c) \cup {request[c]}
    PROVE  IInv'
<1> DEFINE G == {GrantedRequest(pool)}
<1>1. /\ pool'.inprog = pool.inprog \cup G /\ G \cap pool.inprog = {} /\ request'[c] \in G
  BY Granted
<1>2. HeldBy(c) = Parked(c) \cup {request[c]} /\ HeldBy(c) \subseteq pool.inprog
  BY CurrentIs DEF IInv
<1>3. HeldBy(c)' \subseteq Parked(c)' \cup G
  BY <1>1 DEF HeldBy
<1> HIDE DEF G
<1>4. /\ pool'.inprog = (pool.inprog \cup G) \ {}
      /\ {} \subseteq HeldBy(c)
      /\ HeldBy(c)' \subseteq (HeldBy(c) \cup G) \ {}
  BY <1>1, <1>2, <1>3
<1>5. \A r \in pool.inprog \ HeldBy(c) : r \in DOMAIN lines => r \in DOMAIN lines' /\ lines'[r] = lines[r]
  BY <1>2 DEF LinesBut
<1>6. \A d \in Conns \ {c} : /\ phase'[d] = phase[d] /\ request'[d] = request[d]
                             /\ queue'[d] = queue[d] /\ qstart'[d] = qstart[d]
                             /\ LookupsOf(d)' = LookupsOf(d)
  BY DEF OthersStay
<1> QED
  BY <1>1, <1>4, <1>5, <1>6, StepOfOne

LEMMA HandleCurrent ==
    ASSUME IInv, NEW c \in Conns, NEW m \in Messages, m.conn = c, NEW route,
           NEW result \in {"text", "raise"}, NEW hd, NEW id, NEW failure, Live(c),
           UNCHANGED <<phase, waiting>>, sent' \in [Conns -> Int],
           HandleRequest(c, request[c], m, route, result, Fill(lines, request[c], m), hd, id, failure)
    PROVE  IInv'
<1> DEFINE req   == request[c]
           ln    == Fill(lines, req, m)
           new   == GrantedRequest(pool)
           fresh == ParksRequest(c, req, route)
           p     == IF fresh THEN GetRequest(pool) ELSE pool
           cur   == IF fresh THEN new ELSE req
           entry == [msg |-> m.msg, req |-> req, task |-> IsCoro(route),
                     result |-> IF IsCoro(route) THEN "pending" ELSE result]
           Now   == /\ pool' = IF req # cur THEN ReleaseRequest(p, req) ELSE p
                    /\ lines' = Reset(ln, {req})
                    /\ UNCHANGED <<queue, qstart>>
           Later == /\ IsCoro(route) \/ ~PipelineEmpty(c)
                    /\ PipelineQueue(c, entry)
                    /\ pool' = p /\ lines' = ln
           Not   == /\ pool' = p /\ lines' = ln
                    /\ UNCHANGED <<queue, qstart>>
<1>1. request' = [request EXCEPT ![c] = cur] /\ (Now \/ Later \/ Not)
  <2>1. result # "object"
    OBVIOUS
  <2> QED
    BY ONLY <2>1, HandleShapes,
            HandleRequest(c, request[c], m, route, result, Fill(lines, request[c], m), hd, id, failure)
<1>2. /\ CurrentOf(c) = {req} /\ req \in pool.inprog /\ req \notin Parked(c) /\ req \in Int
      /\ Live(c)'
  BY CurrentIs DEF Live
<1>3. /\ PoolTypeOK(pool) /\ PoolCounted(pool) /\ ~pool.stray
      /\ request \in [Conns -> Int] /\ queue \in [Conns -> Seq(Entries)] /\ qstart \in [Conns -> Nat]
  BY DEF IInv, Types
<1>4. /\ PoolTypeOK(GetRequest(pool)) /\ PoolCounted(GetRequest(pool)) /\ ~GetRequest(pool).stray
      /\ new \in Int /\ new \notin pool.inprog
      /\ GetRequest(pool).inprog = pool.inprog \cup {new}
  BY Granted
<1>5. /\ req \in DOMAIN ln /\ ln[req] = m
      /\ \A x \in DOMAIN lines : x = req \/ (x \in DOMAIN ln /\ ln[x] = lines[x])
  BY Filled
<1>6. entry \in Entries /\ entry.req = req /\ entry.msg = m.msg
  <2>1. m.msg \in Int
    BY DEF Messages
  <2>2. (IF IsCoro(route) THEN "pending" ELSE result) \in {"pending", "cancelling", "text", "raise"}
    OBVIOUS
  <2>3. IsCoro(route) \in BOOLEAN
    BY DEF IsCoro
  <2> QED
    BY <1>2, <2>1, <2>2, <2>3 DEF Entries
<1> HIDE DEF ln, new, fresh, entry
<1>7. request'[c] = cur /\ request' \in [Conns -> Int] /\ \A d \in Conns \ {c} : request'[d] = request[d]
  BY <1>1, <1>2, <1>3, <1>4
<1>8. /\ PoolTypeOK(p) /\ PoolCounted(p) /\ ~p.stray /\ req \in p.inprog
      /\ p.inprog = pool.inprog \cup (IF fresh THEN {new} ELSE {})
      /\ req # cur <=> fresh
  <2>1. CASE fresh
    <3>1. p = GetRequest(pool) /\ cur = new
      BY <2>1
    <3> QED
      BY <1>2, <1>4, <2>1, <3>1
  <2>2. CASE ~fresh
    <3>1. p = pool /\ cur = req
      BY <2>2
    <3> QED
      BY <1>2, <1>3, <2>2, <3>1
  <2> QED
    BY <2>1, <2>2
<1> HIDE DEF p
<1>9. ASSUME UNCHANGED <<queue, qstart>> PROVE OthersStay(c) /\ SameShape(c)
  BY <1>7, <1>9 DEF OthersStay, SameShape
<1>10. CASE Now
  <2> DEFINE G == IF fresh THEN {new} ELSE {}
             F == IF fresh THEN {req} ELSE {}
  <2>1. /\ PoolTypeOK(pool') /\ PoolCounted(pool') /\ ~pool'.stray
        /\ pool'.inprog = p.inprog \ F
    <3>1. CASE fresh
      <4>1. pool' = ReleaseRequest(p, req)
        BY <1>8, <1>10, <3>1
      <4> QED
        BY <1>8, <3>1, <4>1, Released
    <3>2. CASE ~fresh
      BY <1>8, <1>10, <3>2
    <3> QED
      BY <3>1, <3>2
  <2>2. Types'
    BY <1>7, <1>10, <2>1 DEF IInv, Types
  <2>3. LinesBut(CurrentOf(c))
    BY <1>2, <1>5, <1>10 DEF LinesBut, Reset
  <2>4. /\ pool'.inprog = (pool.inprog \cup G) \ F
        /\ G \cap pool.inprog = {} /\ F \subseteq CurrentOf(c)
        /\ request'[c] \in G \/ (request'[c] \in CurrentOf(c) /\ F = {})
        /\ UNCHANGED waiting
    BY <1>2, <1>4, <1>7, <1>8, <2>1
  <2> HIDE DEF G, F
  <2> QED
    BY ONLY IInv, <1>9, <1>10, <2>2, <2>3, <2>4, CurrentChanges
<1>11. CASE Not
  <2> DEFINE G == IF fresh THEN {new} ELSE {}
  <2>1. Types'
    BY <1>7, <1>8, <1>11 DEF IInv, Types
  <2>2. LinesBut(CurrentOf(c))
    BY <1>2, <1>5, <1>11 DEF LinesBut
  <2>3. /\ pool'.inprog = (pool.inprog \cup G) \ {}
        /\ G \cap pool.inprog = {} /\ {} \subseteq CurrentOf(c)
        /\ request'[c] \in G \/ (request'[c] \in CurrentOf(c) /\ {} = {})
        /\ UNCHANGED waiting
    BY <1>2, <1>4, <1>7, <1>8, <1>11
  <2> HIDE DEF G
  <2> QED
    BY ONLY IInv, <1>9, <1>11, <2>1, <2>2, <2>3, CurrentChanges
<1>12. CASE Later
  <2>1. fresh
    BY <1>12 DEF fresh, ParksRequest
  <2>2. pool' = GetRequest(pool) /\ request'[c] = new /\ lines' = ln
    BY <1>7, <1>12, <2>1 DEF p
  <2>3. /\ queue' \in [Conns -> Seq(Entries)] /\ qstart' \in [Conns -> Nat]
        /\ \A d \in Conns : qstart'[d] <= Len(queue'[d])
        /\ \A d \in Conns \ {c} : queue'[d] = queue[d] /\ qstart'[d] = qstart[d]
    BY <1>6, <1>12, QueueGrows DEF IInv
  <2>4. Types'
    BY <1>4, <1>7, <2>2, <2>3 DEF IInv, Types
  <2>5. OthersStay(c) /\ LinesBut({req})
    BY <1>5, <1>7, <2>2, <2>3 DEF OthersStay, LinesBut
  <2>6. \A d \in Conns : LookupsOf(d)' = LookupsOf(d)
    BY DEF LookupsOf
  <2>7. new \notin Parked(c) \cup {req}
    BY <1>2, <1>4 DEF IInv, HeldBy
  <2>8. entry.req \in DOMAIN lines' /\ lines'[entry.req].conn = c /\ lines'[entry.req].msg = entry.msg
    BY <1>5, <1>6, <2>2
  <2>9. /\ entry.req \notin {queue[c][i].req : i \in Positions(c)}
        /\ entry.req \notin {w.req : w \in LookupsOf(c)'}
        /\ LookupsOf(c)' \subseteq LookupsOf(c)
        /\ request'[c] \notin Parked(c) \cup {entry.req}
        /\ LinesBut({entry.req})
    BY <1>2, <1>6, <2>2, <2>5, <2>6, <2>7 DEF Parked
  <2>10. OnePerUse(c)' /\ LinesKept(c)' /\ Parked(c)' \subseteq Parked(c) \cup {req}
    BY <1>6, <1>12, <2>8, <2>9, QueueTakes
  <2> QED
    BY <2>2, <2>4, <2>5, <2>6, <2>10, CurrentParks DEF new
<1> QED
  BY <1>1, <1>10, <1>11, <1>12

(* A message whose session lookup has been answered, with the Request it   *)
(* waited with.                                                            *)
LEMMA ReplyIInv ==
    ASSUME NoObjects, IInv, NEW w \in waiting, NEW result \in ResultsOf(w.route), SessionReply(w, result)
    PROVE  IInv'
<1> DEFINE c == w.m.conn
           req == w.req
           entry == [msg |-> w.m.msg, req |-> w.req, task |-> IsCoro(w.route),
                     result |-> IF IsCoro(w.route) THEN "pending" ELSE result]
<1>1. /\ IsLookup(w) /\ w.m \in Messages /\ c \in Conns /\ w.req \in Int /\ w.m.msg \in Int
      /\ PoolTypeOK(pool) /\ PoolCounted(pool) /\ ~pool.stray
      /\ request \in [Conns -> Int]
  BY DEF IInv, Types, IsLookup, Messages
<1>2. /\ waiting' = waiting \ {w} /\ UNCHANGED <<phase, sent>>
      /\ \/ ~Closed(c) /\ HandleRequest(c, w.req, w.m, w.route, result, lines, heads, sessions, <<w.m.msg>>)
         \/ UNCHANGED <<pool, request, queue, qstart, lines>>
  BY DEF SessionReply
<1>3. w \in LookupsOf(c) /\ OnePerUse(c) /\ LinesKept(c) /\ HeldBy(c) \subseteq pool.inprog
  BY <1>1 DEF LookupsOf, IInv
<1>4. req \in Parked(c) /\ req \in HeldBy(c) /\ req \in pool.inprog
  BY <1>3 DEF Parked, HeldBy
<1>5. LookupsOf(c)' = LookupsOf(c) \ {w} /\ \A d \in Conns \ {c} : LookupsOf(d)' = LookupsOf(d)
  BY <1>2 DEF LookupsOf
<1>6. \A v \in waiting' : IsLookup(v)
  BY <1>2 DEF IInv, Types
<1>7. req \notin {queue[c][i].req : i \in Positions(c)} /\ req \notin {v.req : v \in LookupsOf(c)'}
  BY <1>3, <1>5 DEF OnePerUse
<1>8. Live(c)' = Live(c) /\ (Live(c) => request[c] \notin Parked(c))
  BY <1>2, <1>3 DEF Live, OnePerUse
<1> HIDE DEF c
\* The step in general: w leaves waiting, nothing is granted.
<1>9. ASSUME NEW F, F \subseteq {req}, UNCHANGED <<queue, qstart, request>>,
             PoolTypeOK(pool'), PoolCounted(pool'), ~pool'.stray,
             pool'.inprog = pool.inprog \ F, LinesBut({req})
      PROVE  IInv'
  <2>1. OnePerUse(c)' /\ LinesKept(c)' /\ Parked(c)' = Parked(c) \ {req}
    BY <1>1, <1>2, <1>3, <1>5, <1>9, LookupGone
  <2>2. Types'
    BY <1>2, <1>6, <1>9 DEF IInv, Types
  <2>3. HeldBy(c)' \subseteq HeldBy(c) \ {req}
    BY <1>4, <1>8, <1>9, <2>1 DEF HeldBy
  <2>4. /\ pool'.inprog = (pool.inprog \cup {}) \ F /\ {} \cap pool.inprog = {}
        /\ F \subseteq HeldBy(c) /\ HeldBy(c)' \subseteq (HeldBy(c) \cup {}) \ F
    BY <1>4, <1>9, <2>3
  <2>5. \A r \in pool.inprog \ HeldBy(c) : r \in DOMAIN lines => r \in DOMAIN lines' /\ lines'[r] = lines[r]
    BY <1>4, <1>9 DEF LinesBut
  <2>6. \A d \in Conns \ {c} : /\ phase'[d] = phase[d] /\ request'[d] = request[d]
                               /\ queue'[d] = queue[d] /\ qstart'[d] = qstart[d]
                               /\ LookupsOf(d)' = LookupsOf(d)
    BY <1>2, <1>5, <1>9
  <2>7. c \in Conns /\ OnePerUse(c)' /\ LinesKept(c)'
    BY <1>1, <2>1
  <2> QED
    BY ONLY IInv, <2>2, <2>4, <2>5, <2>6, <2>7, StepOfOne
<1>10. CASE UNCHANGED <<pool, request, queue, qstart, lines>>
  <2> DEFINE F == {}
  <2>1. /\ F \subseteq {req} /\ UNCHANGED <<queue, qstart, request>>
        /\ PoolTypeOK(pool') /\ PoolCounted(pool') /\ ~pool'.stray
        /\ pool'.inprog = pool.inprog \ F
    BY <1>1, <1>10
  <2>2. LinesBut({req})
    BY <1>10 DEF LinesBut
  <2> HIDE DEF F
  <2> QED
    BY ONLY <1>9, <2>1, <2>2
<1>11. ASSUME ~Closed(c), HandleRequest(c, w.req, w.m, w.route, result, lines, heads, sessions, <<w.m.msg>>)
       PROVE  IInv'
  <2>1. Live(c) /\ request[c] # req
    BY <1>4, <1>8, <1>11 DEF Live, Closed
  <2>2. ~ParksRequest(c, w.req, w.route)
    BY <2>1 DEF ParksRequest
  <2>3. result \in {"text", "raise"} /\ result # "object"
    BY ConnectionAssumption DEF NoObjects, ResultsOf, Results
  <2>4. /\ request' = [request EXCEPT ![c] = request[c]]
        /\ \/ /\ pool' = ReleaseRequest(pool, req)
              /\ lines' = Reset(lines, {req})
              /\ UNCHANGED <<queue, qstart>>
           \/ /\ PipelineQueue(c, entry)
              /\ pool' = pool /\ lines' = lines
           \/ /\ pool' = pool /\ lines' = lines
              /\ UNCHANGED <<queue, qstart>>
    <3> DEFINE fresh == ParksRequest(c, req, w.route)
               p     == IF fresh THEN GetRequest(pool) ELSE pool
               cur   == IF fresh THEN GrantedRequest(pool) ELSE request[c]
    <3>1. /\ request' = [request EXCEPT ![c] = cur]
          /\ \/ /\ pool' = IF req # cur THEN ReleaseRequest(p, req) ELSE p
                /\ lines' = Reset(lines, {req})
                /\ UNCHANGED <<queue, qstart>>
             \/ /\ PipelineQueue(c, entry)
                /\ pool' = p /\ lines' = lines
             \/ /\ pool' = p /\ lines' = lines
                /\ UNCHANGED <<queue, qstart>>
      BY ONLY <1>11, <2>3, HandleShapes
    <3>2. p = pool /\ cur = request[c] /\ req # cur
      BY <2>1, <2>2
    <3> HIDE DEF p, cur, entry
    <3> QED
      BY <3>1, <3>2
  <2>5. UNCHANGED request
    BY <1>1, <2>4
  <2>6. CASE /\ pool' = ReleaseRequest(pool, req)
             /\ lines' = Reset(lines, {req})
             /\ UNCHANGED <<queue, qstart>>
    <3>1. /\ PoolTypeOK(pool') /\ PoolCounted(pool') /\ ~pool'.stray
          /\ pool'.inprog = pool.inprog \ {req}
      BY <1>1, <1>4, <2>6, Released
    <3>2. LinesBut({req})
      BY <2>6 DEF LinesBut, Reset
    <3> QED
      BY <1>9, <2>5, <2>6, <3>1, <3>2
  <2>7. CASE UNCHANGED <<pool, lines, queue, qstart>>
    BY <1>10, <2>5, <2>7
  <2>8. CASE PipelineQueue(c, entry) /\ pool' = pool /\ lines' = lines
    <3>1. entry \in Entries /\ entry.req = req /\ entry.msg = w.m.msg
      <4>1. (IF IsCoro(w.route) THEN "pending" ELSE result) \in {"pending", "cancelling", "text", "raise"}
        BY <2>3
      <4>2. IsCoro(w.route) \in BOOLEAN
        BY DEF IsCoro
      <4> QED
        BY <1>1, <4>1, <4>2 DEF Entries
    <3>2. req \in DOMAIN lines /\ lines[req] = w.m /\ w.m.conn = c
      BY <1>3 DEF LinesKept, c
    <3> HIDE DEF entry
    <3>3. /\ queue' \in [Conns -> Seq(Entries)] /\ qstart' \in [Conns -> Nat]
          /\ \A d \in Conns : qstart'[d] <= Len(queue'[d])
          /\ \A d \in Conns \ {c} : queue'[d] = queue[d] /\ qstart'[d] = qstart[d]
      BY <1>1, <2>8, <3>1, QueueGrows DEF IInv
    <3>4. Types'
      BY <1>2, <1>6, <2>5, <2>8, <3>3 DEF IInv, Types
    <3>5. /\ LookupsOf(c)' \subseteq LookupsOf(c)
          /\ entry.req \notin {queue[c][i].req : i \in Positions(c)}
          /\ entry.req \notin {v.req : v \in LookupsOf(c)'}
          /\ request'[c] \notin Parked(c) \cup {entry.req}
          /\ LinesBut({entry.req}) /\ entry.req \in DOMAIN lines'
          /\ lines'[entry.req].conn = c /\ lines'[entry.req].msg = entry.msg
      BY <1>5, <1>7, <1>8, <2>1, <2>5, <2>8, <3>1, <3>2 DEF LinesBut
    <3>6. OnePerUse(c)' /\ LinesKept(c)' /\ Parked(c)' \subseteq Parked(c) \cup {entry.req}
      BY <1>1, <2>8, <3>1, <3>5, QueueTakes
    <3>7. HeldBy(c)' \subseteq (HeldBy(c) \cup {}) \ {}
      BY <1>4, <1>8, <2>5, <3>1, <3>6 DEF HeldBy
    <3>8. /\ pool'.inprog = (pool.inprog \cup {}) \ {} /\ {} \cap pool.inprog = {}
          /\ {} \subseteq HeldBy(c)
          /\ \A r \in pool.inprog \ HeldBy(c) : r \in DOMAIN lines => r \in DOMAIN lines' /\ lines'[r] = lines[r]
      BY <2>8
    <3>9. \A d \in Conns \ {c} : /\ phase'[d] = phase[d] /\ request'[d] = request[d]
                                 /\ queue'[d] = queue[d] /\ qstart'[d] = qstart[d]
                                 /\ LookupsOf(d)' = LookupsOf(d)
      BY <1>2, <1>5, <2>5, <3>3
    <3> QED
      BY ONLY IInv, <1>1, <3>4, <3>6, <3>7, <3>8, <3>9, StepOfOne
  <2> QED
    BY <2>4, <2>6, <2>7, <2>8
<1> QED
  BY <1>2, <1>10, <1>11 DEF c

(* What protocol_task_done finishes are the first entries of the queue.    *)
LEMMA ReadyPrefix ==
    ASSUME IInv, NEW c \in Conns
    PROVE  LET ready == ReadyEntries(c)
               last  == qstart[c] + Cardinality(ready)
           IN  /\ ready = qstart[c] + 1 .. last /\ last \in qstart[c] .. Len(queue[c])
               /\ ready # {} => queue[c][last].result # "object"
<1> DEFINE q     == queue[c]
           ready == ReadyEntries(c)
           last  == qstart[c] + Cardinality(ready)
<1>1. /\ qstart[c] \in Nat /\ qstart[c] <= Len(q) /\ Len(q) \in Nat /\ q \in Seq(Entries)
  BY DEF IInv, Types
<1>2. \A i \in 1 .. Len(q) : q[i].result # "object"
  <2>1. ASSUME NEW i \in 1 .. Len(q) PROVE q[i].result # "object"
    <3>1. q[i] \in Entries
      BY <1>1
    <3> QED
      BY <3>1 DEF Entries
  <2> QED
    BY <2>1
<1>3. ready \in SUBSET (qstart[c] + 1 .. Len(q)) /\ \A i \in ready : \A j \in qstart[c] + 1 .. i : j \in ready
  BY <1>1 DEF ReadyEntries
<1> HIDE DEF ready, q
<1>4. ready = qstart[c] + 1 .. last /\ last \in qstart[c] .. Len(q)
  BY ONLY <1>1, <1>3, Prefix
<1>5. ready # {} => last \in 1 .. Len(q)
  BY <1>1, <1>4
<1> QED
  BY <1>2, <1>4, <1>5 DEF ready, q

LEMMA TaskDoneReleases ==
    ASSUME IInv, NEW c \in Conns, TaskDone(c)
    PROVE  /\ PoolTypeOK(pool') /\ PoolCounted(pool') /\ ~pool'.stray
           /\ pool'.inprog = pool.inprog \ {queue[c][i].req : i \in FreedEntries(c)}
<1> DEFINE q     == queue[c]
           freed == FreedEntries(c)
           f     == [i \in freed |-> q[i].req]
           F     == {q[i].req : i \in freed}
<1>1. pool' = ReleaseEach(pool, f)
  BY DEF TaskDone
<1>2. /\ qstart[c] \in Nat /\ Len(q) \in Nat /\ q \in Seq(Entries)
      /\ PoolTypeOK(pool) /\ PoolCounted(pool) /\ ~pool.stray
      /\ OnePerUse(c) /\ Parked(c) \subseteq pool.inprog
  BY DEF IInv, Types, HeldBy
<1>3. freed \in SUBSET Positions(c) /\ F \subseteq Parked(c)
  BY DEF ReadyEntries, FreedEntries, Positions, Parked
<1> HIDE DEF freed
<1>4. IsFiniteSet(freed)
  <2>1. IsFiniteSet(qstart[c] + 1 .. Len(q))
    <3>1. qstart[c] + 1 \in Int /\ Len(q) \in Int
      BY <1>2
    <3> QED
      BY ONLY <3>1, FS_Interval
  <2> QED
    BY <1>3, <2>1, FS_Subset DEF Positions
<1>5. f \in [freed -> pool.inprog]
  BY <1>2, <1>3
<1>6. \A i, j \in freed : f[i] = f[j] => i = j
  BY <1>2, <1>3 DEF OnePerUse
<1>7. {f[i] : i \in freed} = F
  OBVIOUS
<1> HIDE DEF f, F
<1>8. LET p == ReleaseEach(pool, f)
      IN  /\ PoolTypeOK(p) /\ PoolCounted(p)
          /\ p.inprog = pool.inprog \ {f[i] : i \in freed}
          /\ p.stray = pool.stray
  BY ONLY <1>2, <1>4, <1>5, <1>6, ReleaseEachFacts
<1> QED
  BY <1>1, <1>2, <1>7, <1>8 DEF F, freed

(* They leave it, and give back all their Requests but those of responses  *)
(* nobody can be sent.                                                     *)
LEMMA TaskDoneIInv ==
    ASSUME IInv, NEW c \in Conns, TaskDone(c) PROVE IInv'
<1> DEFINE q     == queue[c]
           ready == ReadyEntries(c)
           freed == FreedEntries(c)
           last  == qstart[c] + Cardinality(ready)
           f     == [i \in freed |-> q[i].req]
           text  == {i \in ready : q[i].result = "text" /\ ~Closed(c)}
           reset == {q[i].req : i \in freed \cup text}
           F     == {q[i].req : i \in freed}
<1>1. /\ pool' = ReleaseEach(pool, f)
      /\ lines' = Reset(lines, reset)
      /\ qstart' = [qstart EXCEPT ![c] = IF ready # {} /\ q[last].result = "object" THEN @ ELSE last]
      /\ UNCHANGED <<phase, request, queue, waiting, sent>>
  BY DEF TaskDone
<1>2. /\ qstart[c] \in Nat /\ qstart[c] <= Len(q) /\ Len(q) \in Nat /\ q \in Seq(Entries)
      /\ qstart \in [Conns -> Nat]
      /\ PoolTypeOK(pool) /\ PoolCounted(pool) /\ ~pool.stray
  BY DEF IInv, Types
<1>3. OnePerUse(c) /\ LinesKept(c) /\ HeldBy(c) \subseteq pool.inprog /\ Parked(c) \subseteq HeldBy(c)
  BY DEF IInv, HeldBy
<1>4. freed \subseteq ready /\ ready \subseteq Positions(c) /\ text \subseteq ready
  BY DEF ReadyEntries, FreedEntries, Positions
<1>5. ready = qstart[c] + 1 .. last /\ last \in qstart[c] .. Len(q)
      /\ (ready # {} => q[last].result # "object")
  BY ReadyPrefix
<1> HIDE DEF ready, freed
<1>6. qstart' = [qstart EXCEPT ![c] = last]
  BY <1>1, <1>5
<1>7. /\ Positions(c)' = last + 1 .. Len(q)
      /\ Positions(c) = ready \cup Positions(c)' /\ ready \cap Positions(c)' = {}
  <2>1. Positions(c)' = last + 1 .. Len(q)
    BY <1>1, <1>2, <1>6 DEF Positions
  <2>2. Positions(c) = qstart[c] + 1 .. Len(q)
    BY DEF Positions
  <2> HIDE DEF last, q
  <2> QED
    BY ONLY <1>2, <1>5, <2>1, <2>2
<1> HIDE DEF last
<1>8. /\ F \subseteq {q[i].req : i \in ready} /\ reset \subseteq {q[i].req : i \in ready}
       /\ {q[i].req : i \in ready} \subseteq Parked(c)
  BY <1>4 DEF Parked
<1>9. /\ PoolTypeOK(pool') /\ PoolCounted(pool') /\ ~pool'.stray
      /\ pool'.inprog = pool.inprog \ F
  BY TaskDoneReleases DEF freed
<1>10. Types'
  <2>1. qstart' \in [Conns -> Nat] /\ \A d \in Conns : qstart'[d] <= Len(queue'[d])
    <3>1. last \in Nat /\ last <= Len(q)
      BY <1>2, <1>5
    <3> QED
      BY <1>1, <1>2, <1>6, <3>1 DEF IInv, Types
  <2> QED
    BY <1>1, <1>9, <2>1 DEF IInv, Types
<1>11. /\ Parked(c)' \subseteq Parked(c) /\ Parked(c)' \cap {q[i].req : i \in ready} = {}
       /\ LookupsOf(c)' = LookupsOf(c) /\ Live(c)' = Live(c)
  <2>1. LookupsOf(c)' = LookupsOf(c) /\ Live(c)' = Live(c) /\ queue'[c] = q
    BY <1>1 DEF LookupsOf, Live
  <2>2. Parked(c)' = {q[i].req : i \in Positions(c)'} \cup {w.req : w \in LookupsOf(c)}
    BY <2>1 DEF Parked
  <2>3. {q[i].req : i \in Positions(c)'} \cap {q[i].req : i \in ready} = {}
    BY <1>3, <1>7 DEF OnePerUse
  <2>4. {w.req : w \in LookupsOf(c)} \cap {q[i].req : i \in ready} = {}
    BY <1>3, <1>4 DEF OnePerUse
  <2>5. Parked(c)' \subseteq Parked(c)
    BY <1>7, <2>2 DEF Parked
  <2> QED
    BY <2>1, <2>2, <2>3, <2>4, <2>5
<1>12. OnePerUse(c)'
  BY <1>1, <1>3, <1>7, <1>11 DEF OnePerUse
<1>13. LinesKept(c)'
  <2>1. \A r \in Parked(c)' : r \in DOMAIN lines => r \in DOMAIN lines' /\ lines'[r] = lines[r]
    BY <1>1, <1>8, <1>11 DEF Reset
  <2> QED
    BY <1>1, <1>3, <1>7, <1>11, <2>1 DEF LinesKept, HasLines, Parked
<1>14. HeldBy(c)' \subseteq HeldBy(c) \ F
  <2>1. F \cap Parked(c)' = {} /\ F \subseteq Parked(c)
    BY <1>8, <1>11
  <2>2. Live(c) => request[c] \notin F
    BY <1>3, <2>1 DEF OnePerUse
  <2> HIDE DEF F
  <2> QED
    BY <1>1, <1>11, <2>1, <2>2 DEF HeldBy
<1>15. \A r \in pool.inprog \ HeldBy(c) : r \in DOMAIN lines => r \in DOMAIN lines' /\ lines'[r] = lines[r]
  BY <1>1, <1>3, <1>8 DEF Reset
<1>16. \A d \in Conns \ {c} : /\ phase'[d] = phase[d] /\ request'[d] = request[d]
                              /\ queue'[d] = queue[d] /\ qstart'[d] = qstart[d]
                              /\ LookupsOf(d)' = LookupsOf(d)
  BY <1>1, <1>2, <1>6 DEF LookupsOf
<1>17. /\ pool'.inprog = (pool.inprog \cup {}) \ F /\ {} \cap pool.inprog = {}
       /\ F \subseteq HeldBy(c) /\ HeldBy(c)' \subseteq (HeldBy(c) \cup {}) \ F
  BY <1>3, <1>8, <1>9, <1>14
<1> HIDE DEF F
<1> QED
  BY ONLY IInv, <1>10, <1>12, <1>13, <1>15, <1>16, <1>17, StepOfOne

-----------------------------------------------------------------------------
LEMMA DataReceivedIInv ==
    ASSUME NoObjects, IInv, NEW c \in Conns, NEW route \in Routes,
           NEW cookie \in BOOLEAN, NEW up \in BOOLEAN, NEW more \in BOOLEAN,
           NEW result \in ResultsOf(route), DataReceived(c, route, cookie, up, result, more)
    PROVE  IInv'
<1> DEFINE req   == request[c]
           t     == IF target[c] = NoRequest THEN req ELSE target[c]
           m     == [conn |-> c, msg |-> sent[c] + 1, cookie |-> cookie]
           ln    == Fill(lines, req, m)
           hd    == Fill(heads, t, m)
           id    == IF WantsSession(route) THEN LoadSession(req, hd) ELSE sessions
           found == req \in DOMAIN id
           waits == WantsSession(route) /\ found /\ up
           fails == ~waits /\ Fails(c, route, result)
           wrote == IF WantsSession(route) /\ found THEN <<m.msg>> ELSE <<m.msg, m.msg>>
           Quiet == lines' = ln /\ UNCHANGED <<pool, phase, request, queue, qstart, waiting>>
           Waits == AwaitSession(c, m, req, route, id[req]) /\ lines' = ln /\ UNCHANGED <<phase, queue, qstart>>
           Does  == /\ HandleRequest(c, req, m, route, result, ln, hd, id, wrote)
                    /\ phase' = [phase EXCEPT ![c] = IF fails THEN "aborting" ELSE @]
                    /\ UNCHANGED waiting
<1>1. phase[c] = "open" /\ sent' = [sent EXCEPT ![c] = @ + 1] /\ (Quiet \/ Waits \/ Does)
  BY DEF DataReceived
<1>2. result \in {"text", "raise"} /\ route \in Kinds
  BY ConnectionAssumption DEF NoObjects, ResultsOf, Results
<1>3. /\ m \in Messages /\ m.conn = c /\ sent' \in [Conns -> Int] /\ phase \in [Conns -> {"none", "init", "open", "aborting", "lost"}]
      /\ request \in [Conns -> Int]
  BY <1>1 DEF IInv, Types, Messages
<1>4. /\ Live(c) /\ CurrentOf(c) = {req} /\ req \in pool.inprog /\ req \notin Parked(c) /\ req \in Int
  BY <1>1, CurrentIs DEF Live
<1>5. /\ req \in DOMAIN ln /\ ln[req] = m
      /\ \A x \in DOMAIN lines : x = req \/ (x \in DOMAIN ln /\ ln[x] = lines[x])
  BY Filled
<1> HIDE DEF m
<1>6. CASE Does
  <2>1. ~fails
    BY <1>2 DEF Fails
  <2>2. UNCHANGED phase
    BY <1>3, <1>6, <2>1
  <2>3. HandleRequest(c, request[c], m, route, result, Fill(lines, request[c], m), hd, id, wrote)
    BY <1>6
  <2> HIDE DEF hd, id, wrote
  <2> QED
    BY ONLY IInv, <1>2, <1>3, <1>4, <1>6, <2>2, <2>3, HandleCurrent
<1> HIDE DEF ln
<1>7. CASE Quiet
  <2>1. Types'
    BY <1>3, <1>7 DEF IInv, Types
  <2>2. OthersStay(c) /\ SameShape(c) /\ LinesBut(CurrentOf(c))
    BY <1>4, <1>5, <1>7 DEF OthersStay, SameShape, LinesBut
  <2>3. /\ pool'.inprog = (pool.inprog \cup {}) \ {} /\ {} \cap pool.inprog = {}
        /\ {} \subseteq CurrentOf(c) /\ UNCHANGED waiting /\ request'[c] \in CurrentOf(c)
    BY <1>4, <1>7
  <2> QED
    BY ONLY IInv, <2>1, <2>2, <2>3, CurrentChanges
<1>8. CASE Waits
  <2> DEFINE w   == [m |-> m, req |-> req, route |-> route, session |-> id[req]]
             new == GrantedRequest(pool)
  <2>1. /\ waiting' = waiting \cup {w} /\ pool' = GetRequest(pool)
        /\ request' = [request EXCEPT ![c] = new]
        /\ lines' = ln /\ UNCHANGED <<phase, queue, qstart>>
    BY <1>8 DEF AwaitSession
  <2>2. IsLookup(w) /\ w.m = m /\ w.m.conn = c /\ w.req = req
    BY <1>2, <1>3, <1>4 DEF IsLookup
  <2>3. /\ PoolTypeOK(pool') /\ PoolCounted(pool') /\ ~pool'.stray
        /\ new \in Int /\ new \notin pool.inprog
    BY <2>1, Granted
  <2> HIDE DEF w, new
  <2>4. Types'
    BY <1>3, <2>1, <2>2, <2>3 DEF IInv, Types
  <2>5. request'[c] = new /\ OthersStay(c) /\ LinesBut({req})
    BY <1>3, <1>5, <2>1 DEF OthersStay, LinesBut
  <2>6. request'[c] \notin Parked(c) \cup {req}
    BY <1>4, <2>3, <2>5 DEF IInv, HeldBy
  <2>7. OnePerUse(c)' /\ LinesKept(c)' /\ Parked(c)' = Parked(c) \cup {w.req}
    BY <1>4, <1>5, <2>1, <2>2, <2>5, <2>6, LookupTakes
  <2>8. \A d \in Conns \ {c} : LookupsOf(d)' = LookupsOf(d)
    BY <2>1, <2>2 DEF LookupsOf
  <2>9. Parked(c)' \subseteq Parked(c) \cup {request[c]} /\ LinesBut({request[c]})
        /\ request'[c] = GrantedRequest(pool)
    BY <2>2, <2>5, <2>7 DEF new
  <2> QED
    BY ONLY IInv, <1>4, <2>1, <2>4, <2>5, <2>7, <2>8, <2>9, CurrentParks
<1> QED
  BY <1>1, <1>6, <1>7, <1>8

LEMMA NextIInv == NoObjects /\ IInv /\ [Next]_vars => IInv'
<1> SUFFICES ASSUME NoObjects, IInv, [Next]_vars PROVE IInv'
  OBVIOUS
<1>1. ASSUME NEW c \in Conns, Receive(c) PROVE IInv'
  BY <1>1, DataReceivedIInv DEF Receive
<1>2. ASSUME NEW c \in Conns, TaskSettles(c) PROVE IInv'
  BY <1>2, TaskEndsIInv DEF TaskSettles
<1>3. ASSUME NEW c \in Conns, ProtocolInit(c) \/ ConnectionMade(c) \/ TaskDone(c) \/ ConnectionLost(c)
      PROVE  IInv'
  BY <1>3, ProtocolInitIInv, ConnectionMadeIInv, TaskDoneIInv, ConnectionLostIInv
<1>4. ASSUME NEW w \in waiting, Reply(w) PROVE IInv'
  BY <1>4, ReplyIInv DEF Reply
<1>5. CASE UNCHANGED vars
  <2>1. UNCHANGED <<pool, phase, request, queue, qstart, waiting, lines, sent>>
    BY <1>5 DEF vars
  <2>2. Types'
    BY <2>1 DEF IInv, Types
  <2>3. ASSUME NEW c \in Conns
        PROVE  HeldBy(c)' = HeldBy(c) /\ Positions(c)' = Positions(c) /\ LookupsOf(c)' = LookupsOf(c)
               /\ Parked(c)' = Parked(c) /\ Live(c)' = Live(c)
    BY <2>1 DEF HeldBy, Parked, Positions, LookupsOf, Live
  <2>4. ASSUME NEW c \in Conns PROVE HeldBy(c)' \subseteq pool'.inprog /\ OnePerUse(c)' /\ LinesKept(c)'
    BY <2>1, <2>3 DEF IInv, OnePerUse, LinesKept, HasLines
  <2> QED
    BY <2>2, <2>3, <2>4 DEF IInv
<1> QED
  BY ONLY <1>1, <1>2, <1>3, <1>4, <1>5, [Next]_vars DEF Next

LEMMA Invariance == ASSUME NoObjects PROVE Spec => []IInv
<1>1. IInv /\ [Next]_vars => IInv'
  BY NextIInv
<1> QED
  BY InitIInv, <1>1, PTL DEF Spec

(* A message that waits, for a coroutine, its session or its turn, has its *)
(* Request to itself, with its own lines: whichever other message of       *)
(* whichever client comes, is answered or is given up meanwhile.           *)
THEOREM RequestsKeptAlways == ASSUME NoObjects PROVE Spec => []RequestsKept
BY Invariance, IInvImplies, PTL

(* Every Request in use has its flag up, none is released twice, and the   *)
(* count of the free ones stays exact, through all callbacks.              *)
THEOREM PoolAgreesAlways == ASSUME NoObjects PROVE Spec => []PoolAgrees
BY Invariance, IInvImplies, PTL

-----------------------------------------------------------------------------
(* Headers.  As long as each data_received holds one request, the Request  *)
(* the headers are put into is the one the rest of the message goes to.    *)
HeadersGoAlong ==
    /\ heads = lines /\ misread = {}
    /\ target = [c \in Conns |-> NoRequest]

LEMMA HandleHeads ==
    ASSUME NEW c, NEW req, NEW m, NEW route, NEW result, NEW ln, NEW id, NEW failure,
           HandleRequest(c, req, m, route, result, ln, ln, id, failure),
           misread = {}, req \in DOMAIN ln, ln[req] = m
    PROVE  heads' = lines' /\ misread' = {}
BY DEF HandleRequest

LEMMA ReceiveHeads ==
    ASSUME ~Bursts, HeadersGoAlong, NEW c \in Conns, Receive(c)
    PROVE  HeadersGoAlong'
<1>1. PICK route \in Routes, cookie \in BOOLEAN, up \in BOOLEAN, more \in BOOLEAN :
          \E result \in ResultsOf(route) : DataReceived(c, route, cookie, up, result, more)
  BY DEF Receive
<1>2. PICK result \in ResultsOf(route) : DataReceived(c, route, cookie, up, result, more)
  BY <1>1
<1> DEFINE req == request[c]
           m   == [conn |-> c, msg |-> sent[c] + 1, cookie |-> cookie]
           ln  == Fill(lines, req, m)
<1>3. req \in DOMAIN ln /\ ln[req] = m
  BY Filled
<1>4. /\ target' = [target EXCEPT ![c] = NoRequest]
      /\ \/ lines' = ln /\ heads' = ln /\ misread' = misread
         \/ \E id, failure : HandleRequest(c, req, m, route, result, ln, ln, id, failure)
  <2>1. (IF target[c] = NoRequest THEN request[c] ELSE target[c]) = req
    BY DEF HeadersGoAlong
  <2>2. ~more /\ heads = lines
    BY <1>2 DEF DataReceived, HeadersGoAlong
  <2> QED
    BY <1>2, <2>1, <2>2 DEF DataReceived
<1> HIDE DEF ln, m
<1>5. heads' = lines' /\ misread' = {}
  <2>1. misread = {}
    BY DEF HeadersGoAlong
  <2>2. ASSUME NEW id, NEW failure, HandleRequest(c, req, m, route, result, ln, ln, id, failure)
        PROVE  heads' = lines' /\ misread' = {}
    BY ONLY <1>3, <2>1, <2>2, HandleHeads
  <2> QED
    BY <1>4, <2>1, <2>2
<1> QED
  BY <1>4, <1>5 DEF HeadersGoAlong

LEMMA NextHeads ==
    ASSUME ~Bursts, IInv, HeadersGoAlong, [Next]_vars
    PROVE  HeadersGoAlong'
<1>1. ASSUME NEW c \in Conns, ProtocolInit(c) \/ ConnectionMade(c) PROVE HeadersGoAlong'
  BY <1>1 DEF ProtocolInit, ConnectionMade, HeadersGoAlong
<1>2. ASSUME NEW c \in Conns, Receive(c) PROVE HeadersGoAlong'
  BY <1>2, ReceiveHeads
<1>3. ASSUME NEW c \in Conns, TaskSettles(c) PROVE HeadersGoAlong'
  BY <1>3 DEF TaskSettles, TaskEnds, HeadersGoAlong
<1>4. ASSUME NEW c \in Conns, TaskDone(c) \/ ConnectionLost(c) PROVE HeadersGoAlong'
  BY <1>4 DEF TaskDone, ConnectionLost, HeadersGoAlong
<1>5. ASSUME NEW w \in waiting, Reply(w) PROVE HeadersGoAlong'
  <2>1. PICK result \in ResultsOf(w.route) : SessionReply(w, result)
    BY <1>5 DEF Reply
  <2>2. w.req \in DOMAIN lines /\ lines[w.req] = w.m
    BY IInvImplies DEF RequestsKept, ParkedKeepLines
  <2>3. heads = lines /\ misread = {}
    BY DEF HeadersGoAlong
  <2>4. CASE UNCHANGED <<lines, heads, misread>>
    BY <2>1, <2>3, <2>4 DEF SessionReply, HeadersGoAlong
  <2>5. CASE HandleRequest(w.m.conn, w.req, w.m, w.route, result, lines, heads, sessions, <<w.m.msg>>)
    <3>1. HandleRequest(w.m.conn, w.req, w.m, w.route, result, lines, lines, sessions, <<w.m.msg>>)
      BY <2>3, <2>5
    <3>2. heads' = lines' /\ misread' = {}
      BY ONLY <2>2, <2>3, <3>1, HandleHeads
    <3>3. target' = target
      BY <2>1 DEF SessionReply
    <3> QED
      BY <3>2, <3>3 DEF HeadersGoAlong
  <2> QED
    BY <2>1, <2>4, <2>5 DEF SessionReply
<1>6. CASE UNCHANGED vars
  BY <1>6 DEF vars, HeadersGoAlong
<1> QED
  BY <1>1, <1>2, <1>3, <1>4, <1>5, <1>6 DEF Next

(* Sessions.  The session_id of a Request that nobody has is gone; one in  *)
(* the Request of a connection was left there by a page that raised.       *)
IdsAreLeft(c) ==
    phase[c] \in {"init", "open"} /\ request[c] \in DOMAIN sessions
        => sessions[request[c]] \in left

SessionsInv ==
    /\ DOMAIN sessions \subseteq pool.inprog
    /\ \A c \in Conns : IdsAreLeft(c)
    /\ LookupsAreOwn

(* A step of connection c, which takes no Request of another one and fills *)
(* none of theirs.                                                         *)
LEMMA SessionsOfOne ==
    ASSUME IInv, SessionsInv, NEW c \in Conns,
           \A d \in Conns \ {c} : phase'[d] = phase[d] /\ request'[d] = request[d],
           left \subseteq left',
           DOMAIN sessions' \subseteq pool'.inprog,
           \A r \in DOMAIN sessions' :
               r \in HeldBy(c) \/ (r \in DOMAIN sessions /\ sessions'[r] = sessions[r]),
           IdsAreLeft(c)',
           \A w \in waiting' : w \in waiting \/ w.session = w.m \/ w.session \in left'
    PROVE  SessionsInv'
<1>1. LookupsAreOwn'
  BY DEF SessionsInv, LookupsAreOwn
<1>2. ASSUME NEW d \in Conns \ {c} PROVE IdsAreLeft(d)'
  <2> SUFFICES ASSUME phase[d] \in {"init", "open"}, request[d] \in DOMAIN sessions'
               PROVE  sessions'[request[d]] \in left'
    BY DEF IdsAreLeft
  <2>1. request[d] \in HeldBy(d) /\ HeldBy(d) \cap HeldBy(c) = {}
    BY DEF IInv, HeldBy, Live
  <2>2. request[d] \in DOMAIN sessions /\ sessions'[request[d]] = sessions[request[d]]
    BY <2>1
  <2> QED
    BY <2>2 DEF SessionsInv, IdsAreLeft
<1> QED
  BY <1>1, <1>2 DEF SessionsInv

(* A message that is handled with the Request it holds, id being the       *)
(* session_ids when its handler is called: only that Request may have a    *)
(* session_id of its own.                                                  *)
LEMMA HandleSessions ==
    ASSUME IInv, SessionsInv, NEW c \in Conns, NEW m, NEW req \in HeldBy(c), NEW route,
           NEW result \in {"text", "raise"}, NEW ln, NEW hd, NEW id, NEW failure,
           HandleRequest(c, req, m, route, result, ln, hd, id, failure),
           phase'[c] = phase[c], Live(c),
           \A d \in Conns \ {c} : phase'[d] = phase[d],
           \A w \in waiting' : w \in waiting,
           DOMAIN id \subseteq pool.inprog,
           \A r \in DOMAIN id : r = req \/ (r \in DOMAIN sessions /\ id[r] = sessions[r])
    PROVE  SessionsInv'
<1> DEFINE fresh == ParksRequest(c, req, route)
           p     == IF fresh THEN GetRequest(pool) ELSE pool
           cur   == IF fresh THEN GrantedRequest(pool) ELSE request[c]
           plain == route \notin {"cached", "async", "asyncsession"}
           Now   == /\ pool' = IF req # cur THEN ReleaseRequest(p, req) ELSE p
                    /\ sessions' = Reset(id, {req})
           Later == /\ IsCoro(route) \/ ~PipelineEmpty(c)
                    /\ pool' = p /\ sessions' = id
           Not   == plain /\ result = "raise" /\ pool' = p /\ sessions' = id
<1>1. /\ request' = [request EXCEPT ![c] = cur]
      /\ left' = IF plain /\ result = "raise" /\ req = cur /\ req \in DOMAIN id
                 THEN left \cup {id[req]} ELSE left
      /\ Now \/ Later \/ Not
  BY ONLY HandleRequest(c, req, m, route, result, ln, hd, id, failure),
          result \in {"text", "raise"} DEF HandleRequest
<1>2. request \in [Conns -> Int] /\ HeldBy(c) \subseteq pool.inprog
  BY DEF IInv, Types
<1>3. GetRequest(pool).inprog = pool.inprog \cup {GrantedRequest(pool)}
      /\ GrantedRequest(pool) \notin pool.inprog /\ GrantedRequest(pool) \in Int
  BY Granted
<1>4. cur \in Int
  BY <1>2, <1>3
<1>5. request'[c] = cur /\ \A d \in Conns \ {c} : request'[d] = request[d]
  BY <1>1, <1>2, <1>4
<1>6. pool.inprog \subseteq p.inprog
  BY <1>3
<1>7. left \subseteq left'
  BY <1>1
<1>8. /\ DOMAIN sessions' \subseteq DOMAIN id
      /\ \A r \in DOMAIN sessions' : sessions'[r] = id[r]
      /\ Now => req \notin DOMAIN sessions'
  BY <1>1 DEF Reset
<1>9. DOMAIN sessions' \subseteq pool'.inprog
  <2>1. CASE Now
    <3>1. p.inprog \ {req} \subseteq pool'.inprog
      BY <2>1 DEF ReleaseRequest
    <3> QED
      BY <1>6, <1>8, <2>1, <3>1
  <2>2. CASE pool' = p
    BY <1>6, <1>8, <2>2
  <2> QED
    BY <1>1, <2>1, <2>2
<1>10. IdsAreLeft(c)'
  <2> SUFFICES ASSUME phase'[c] \in {"init", "open"}, cur \in DOMAIN sessions'
               PROVE  sessions'[cur] \in left'
    BY <1>5 DEF IdsAreLeft
  <2>1. cur \in DOMAIN id /\ sessions'[cur] = id[cur] /\ cur \in pool.inprog
    BY <1>8
  <2>2. ~fresh /\ cur = request[c]
    BY <1>3, <2>1
  <2>3. CASE req = cur
    <3>1. ~Now
      BY <1>8, <2>3
    <3>2. ~Later
      BY <2>2, <2>3 DEF ParksRequest
    <3>3. Not
      BY <1>1, <3>1, <3>2
    <3> QED
      BY <1>1, <2>1, <2>3, <3>3
  <2>4. CASE req # cur
    <3>1. cur \in DOMAIN sessions /\ id[cur] = sessions[cur]
      BY <2>1, <2>4
    <3>2. sessions[cur] \in left
      BY <2>2, <3>1 DEF SessionsInv, IdsAreLeft
    <3> QED
      BY <1>7, <2>1, <3>1, <3>2
  <2> QED
    BY <2>3, <2>4
<1>11. \A r \in DOMAIN sessions' :
           r \in HeldBy(c) \/ (r \in DOMAIN sessions /\ sessions'[r] = sessions[r])
  BY <1>8
<1> HIDE DEF cur
<1> QED
  BY <1>5, <1>7, <1>9, <1>10, <1>11, SessionsOfOne

LEMMA LoadedSessions ==
    ASSUME NEW req, NEW hd, NEW m, req \in DOMAIN hd, hd[req] = m, SessionsInv, req \in pool.inprog
    PROVE  LET id == LoadSession(req, hd)
           IN  /\ DOMAIN id \subseteq pool.inprog
               /\ \A r \in DOMAIN id : r = req \/ (r \in DOMAIN sessions /\ id[r] = sessions[r])
               /\ req \in DOMAIN id => id[req] = m \/ (req \in DOMAIN sessions /\ id[req] = sessions[req])
BY DEF LoadSession, Fill, SessionsInv

LEMMA ReceiveSessions ==
    ASSUME NoObjects, IInv, HeadersGoAlong, SessionsInv, NEW c \in Conns, Receive(c)
    PROVE  SessionsInv'
<1>1. PICK route \in Routes, cookie \in BOOLEAN, up \in BOOLEAN, more \in BOOLEAN :
          \E result \in ResultsOf(route) : DataReceived(c, route, cookie, up, result, more)
  BY DEF Receive
<1>2. PICK result \in ResultsOf(route) : DataReceived(c, route, cookie, up, result, more)
  BY <1>1
<1> DEFINE req   == request[c]
           m     == [conn |-> c, msg |-> sent[c] + 1, cookie |-> cookie]
           ln    == Fill(lines, req, m)
           hd    == Fill(heads, req, m)
           id    == IF WantsSession(route) THEN LoadSession(req, hd) ELSE sessions
           found == req \in DOMAIN id
           waits == WantsSession(route) /\ found /\ up
           fails == ~waits /\ Fails(c, route, result)
           wrote == IF WantsSession(route) /\ found THEN <<m.msg>> ELSE <<m.msg, m.msg>>
           Quiet == UNCHANGED <<pool, phase, request, waiting, sessions, left>>
           Waits == /\ waits /\ AwaitSession(c, m, req, route, id[req])
                    /\ sessions' = id /\ UNCHANGED <<phase, left>>
           Does  == /\ HandleRequest(c, req, m, route, result, ln, hd, id, wrote)
                    /\ phase' = [phase EXCEPT ![c] = IF fails THEN "aborting" ELSE @]
                    /\ UNCHANGED waiting
<1>3. phase[c] = "open" /\ (Quiet \/ Waits \/ Does)
  <2>1. (IF target[c] = NoRequest THEN request[c] ELSE target[c]) = req
    BY DEF HeadersGoAlong
  <2> QED
    BY <1>2, <2>1 DEF DataReceived
<1>4. result \in {"text", "raise"}
  BY ConnectionAssumption DEF NoObjects, ResultsOf, Results
<1>5. /\ Live(c) /\ req \in HeldBy(c) /\ req \in pool.inprog
      /\ request \in [Conns -> Int]
      /\ phase \in [Conns -> {"none", "init", "open", "aborting", "lost"}]
  BY <1>3, CurrentIs DEF Live, IInv, Types
<1>6. req \in DOMAIN hd /\ hd[req] = m
  BY DEF Fill
<1> HIDE DEF hd, m
<1>7. /\ DOMAIN id \subseteq pool.inprog
      /\ \A r \in DOMAIN id : r = req \/ (r \in DOMAIN sessions /\ id[r] = sessions[r])
      /\ waits => id[req] = m \/ (req \in DOMAIN sessions /\ id[req] = sessions[req])
  <2>1. CASE WantsSession(route)
    BY <1>5, <1>6, <2>1, LoadedSessions
  <2>2. CASE ~WantsSession(route)
    BY <2>2 DEF SessionsInv
  <2> QED
    BY <2>1, <2>2
<1> HIDE DEF id
<1>8. CASE Quiet
  BY <1>8 DEF SessionsInv, LookupsAreOwn, IdsAreLeft
<1>9. CASE Waits
  <2> DEFINE new == GrantedRequest(pool)
  <2>1. /\ waiting' = waiting \cup {[m |-> m, req |-> req, route |-> route, session |-> id[req]]}
        /\ pool' = GetRequest(pool) /\ request' = [request EXCEPT ![c] = new]
    BY <1>9 DEF AwaitSession
  <2>2. new \notin pool.inprog /\ new \in Int /\ pool'.inprog = pool.inprog \cup {new}
    BY <2>1, Granted
  <2> HIDE DEF new
  <2>3. IdsAreLeft(c)'
    <3>1. request'[c] = new /\ new \notin DOMAIN sessions'
      BY <1>5, <1>7, <1>9, <2>1, <2>2
    <3> QED
      BY <3>1 DEF IdsAreLeft
  <2>4. \A w \in waiting' : w \in waiting \/ w.session = w.m \/ w.session \in left'
    <3>1. id[req] = m \/ id[req] \in left
      BY <1>3, <1>7, <1>9 DEF SessionsInv, IdsAreLeft
    <3> QED
      BY <1>9, <2>1, <3>1
  <2>5. \A d \in Conns \ {c} : phase'[d] = phase[d] /\ request'[d] = request[d]
    BY <1>5, <1>9, <2>1
  <2>6. /\ left \subseteq left' /\ DOMAIN sessions' \subseteq pool'.inprog
        /\ \A r \in DOMAIN sessions' :
               r \in HeldBy(c) \/ (r \in DOMAIN sessions /\ sessions'[r] = sessions[r])
    BY <1>5, <1>7, <1>9, <2>2
  <2> QED
    BY <2>3, <2>4, <2>5, <2>6, SessionsOfOne
<1>10. CASE Does
  <2>1. phase' = phase
    BY <1>4, <1>5, <1>10 DEF Fails
  <2>2. \A w \in waiting' : w \in waiting
    BY <1>10
  <2>3. HandleRequest(c, req, m, route, result, ln, hd, id, wrote)
    BY <1>10
  <2>4. /\ Live(c) /\ req \in HeldBy(c) /\ phase'[c] = phase[c]
        /\ \A d \in Conns \ {c} : phase'[d] = phase[d]
    BY <1>5, <2>1
  <2>5. /\ DOMAIN id \subseteq pool.inprog
        /\ \A r \in DOMAIN id : r = req \/ (r \in DOMAIN sessions /\ id[r] = sessions[r])
    BY <1>7
  <2> HIDE DEF ln, wrote, req
  <2> QED
    BY ONLY IInv, SessionsInv, c \in Conns, <1>4, <2>2, <2>3, <2>4, <2>5, HandleSessions
<1> QED
  BY <1>3, <1>8, <1>9, <1>10

LEMMA ReplySessions ==
    ASSUME NoObjects, IInv, SessionsInv, NEW w \in waiting, Reply(w)
    PROVE  SessionsInv'
<1> DEFINE c == w.m.conn
<1>1. PICK result \in ResultsOf(w.route) : SessionReply(w, result)
  BY DEF Reply
<1>2. c \in Conns /\ w.req \in HeldBy(c) /\ HeldBy(c) \subseteq pool.inprog
  BY DEF IInv, Types, IsLookup, Messages, HeldBy, Parked, LookupsOf
<1>3. waiting' = waiting \ {w} /\ UNCHANGED phase
  BY <1>1 DEF SessionReply
<1>4. CASE UNCHANGED <<pool, request, sessions, left>>
  BY <1>3, <1>4 DEF SessionsInv, LookupsAreOwn, IdsAreLeft
<1>5. ASSUME ~Closed(c), HandleRequest(c, w.req, w.m, w.route, result, lines, heads, sessions, <<w.m.msg>>)
      PROVE  SessionsInv'
  <2>1. result \in {"text", "raise"}
    BY ConnectionAssumption DEF NoObjects, ResultsOf, Results
  <2>2. Live(c)
    BY <1>5 DEF Closed, Live
  <2>3. DOMAIN sessions \subseteq pool.inprog
    BY DEF SessionsInv
  <2> HIDE DEF c
  <2> QED
    BY <1>2, <1>3, <1>5, <2>1, <2>2, <2>3, HandleSessions
<1> QED
  BY <1>1, <1>4, <1>5 DEF SessionReply

LEMMA NextSessions ==
    ASSUME NoObjects, IInv, HeadersGoAlong, SessionsInv, [Next]_vars
    PROVE  SessionsInv'
<1>1. ASSUME NEW c \in Conns, ProtocolInit(c) PROVE SessionsInv'
  <2> DEFINE new == GrantedRequest(pool)
  <2>1. new \notin pool.inprog /\ new \in Int /\ GetRequest(pool).inprog = pool.inprog \cup {new}
    BY Granted
  <2>2. /\ pool' = GetRequest(pool) /\ request' = [request EXCEPT ![c] = new]
        /\ phase' = [phase EXCEPT ![c] = "init"]
        /\ UNCHANGED <<waiting, sessions, left>>
    BY <1>1 DEF ProtocolInit
  <2>3. request \in [Conns -> Int] /\ phase \in [Conns -> {"none", "init", "open", "aborting", "lost"}]
    BY DEF IInv, Types
  <2> HIDE DEF new
  <2>4. request'[c] = new /\ \A d \in Conns \ {c} : phase'[d] = phase[d] /\ request'[d] = request[d]
    BY <2>1, <2>2, <2>3
  <2>5. IdsAreLeft(c)'
    BY <2>1, <2>2, <2>4 DEF IdsAreLeft, SessionsInv
  <2>6. /\ left \subseteq left' /\ DOMAIN sessions' \subseteq pool'.inprog
        /\ \A r \in DOMAIN sessions' : r \in DOMAIN sessions /\ sessions'[r] = sessions[r]
        /\ \A w \in waiting' : w \in waiting
    BY <2>1, <2>2 DEF SessionsInv
  <2> QED
    BY <2>4, <2>5, <2>6, SessionsOfOne
<1>2. ASSUME NEW c \in Conns, ConnectionMade(c) PROVE SessionsInv'
  <2>1. /\ phase[c] = "init" /\ phase' = [phase EXCEPT ![c] = "open"]
        /\ UNCHANGED <<pool, request, waiting, sessions, left>>
    BY <1>2 DEF ConnectionMade
  <2>2. \A d \in Conns : phase'[d] \in {"init", "open"} => phase[d] \in {"init", "open"}
    BY <2>1 DEF IInv, Types
  <2> QED
    BY <2>1, <2>2 DEF SessionsInv, LookupsAreOwn, IdsAreLeft
<1>3. ASSUME NEW c \in Conns, Receive(c) PROVE SessionsInv'
  BY <1>3, ReceiveSessions
<1>4. ASSUME NEW c \in Conns, TaskSettles(c) PROVE SessionsInv'
  <2>1. UNCHANGED <<pool, phase, request, waiting, sessions, left>>
    BY <1>4 DEF TaskSettles, TaskEnds
  <2> QED
    BY <2>1 DEF SessionsInv, LookupsAreOwn, IdsAreLeft
<1>5. ASSUME NEW c \in Conns, TaskDone(c) PROVE SessionsInv'
  <2> DEFINE freed == FreedEntries(c)
             F == {queue[c][i].req : i \in freed}
  <2>1. /\ pool' = ReleaseEach(pool, [i \in freed |-> queue[c][i].req])
        /\ UNCHANGED <<phase, request, waiting, left>>
        /\ \E R : F \subseteq R /\ sessions' = Reset(sessions, R)
    BY <1>5 DEF TaskDone
  <2>2. pool'.inprog = pool.inprog \ F
    BY <2>1 DEF ReleaseEach
  <2> HIDE DEF F
  <2>3. /\ DOMAIN sessions' \subseteq DOMAIN sessions \ F
        /\ \A r \in DOMAIN sessions' : sessions'[r] = sessions[r]
    BY <2>1 DEF Reset
  <2>4. DOMAIN sessions' \subseteq pool'.inprog
    BY <2>2, <2>3 DEF SessionsInv
  <2> QED
    BY <2>1, <2>3, <2>4 DEF SessionsInv, LookupsAreOwn, IdsAreLeft
<1>6. ASSUME NEW c \in Conns, ConnectionLost(c) PROVE SessionsInv'
  <2>1. /\ pool' = ReleaseRequest(pool, request[c]) /\ phase' = [phase EXCEPT ![c] = "lost"]
        /\ sessions' = Reset(sessions, {request[c]}) /\ UNCHANGED <<request, waiting, left>>
    BY <1>6 DEF ConnectionLost
  <2>2. pool.inprog \ {request[c]} \subseteq pool'.inprog
    BY <2>1 DEF ReleaseRequest
  <2>3. /\ DOMAIN sessions' \subseteq DOMAIN sessions \ {request[c]}
        /\ \A r \in DOMAIN sessions' : sessions'[r] = sessions[r]
    BY <2>1 DEF Reset
  <2>4. DOMAIN sessions' \subseteq pool'.inprog
    BY <2>2, <2>3 DEF SessionsInv
  <2>5. \A d \in Conns : phase'[d] \in {"init", "open"} => phase[d] \in {"init", "open"}
    BY <2>1 DEF IInv, Types
  <2> QED
    BY <2>1, <2>3, <2>4, <2>5 DEF SessionsInv, LookupsAreOwn, IdsAreLeft
<1>7. ASSUME NEW w \in waiting, Reply(w) PROVE SessionsInv'
  BY <1>7, ReplySessions
<1>8. CASE UNCHANGED vars
  <2>1. UNCHANGED <<pool, phase, request, waiting, sessions, left>>
    BY <1>8 DEF vars
  <2> QED
    BY <2>1 DEF SessionsInv, LookupsAreOwn, IdsAreLeft
<1> QED
  BY <1>1, <1>2, <1>3, <1>4, <1>5, <1>6, <1>7, <1>8 DEF Next

(* A page handler, and the session lookup before it, see the headers of    *)
(* the message they serve, and what waits keeps them: if no data_received  *)
(* holds more than one request (with bursts the parser puts the headers    *)
(* elsewhere, see README).  The session looked up is the one its cookie    *)
(* names, or one that a page which raised left in the Request.             *)
THEOREM HeadersAreOwnAlways == ASSUME NoObjects, ~Bursts PROVE Spec => []HeadersAreOwn
<1>1. Init => HeadersGoAlong /\ SessionsInv
  BY DEF Init, HeadersGoAlong, SessionsInv, IdsAreLeft, LookupsAreOwn, InitialPool
<1>2. IInv /\ HeadersGoAlong /\ [Next]_vars => HeadersGoAlong'
  BY NextHeads
<1>3. IInv /\ HeadersGoAlong /\ SessionsInv /\ [Next]_vars => SessionsInv'
  BY NextSessions
<1>4. IInv /\ HeadersGoAlong /\ SessionsInv => HeadersAreOwn
  <2> SUFFICES ASSUME IInv, HeadersGoAlong, SessionsInv PROVE HeadersAreOwn
    OBVIOUS
  <2>1. ParkedKeepLines
    BY IInvImplies DEF RequestsKept
  <2>2. ParkedKeepHeaders /\ misread = {}
    BY <2>1 DEF HeadersGoAlong, ParkedKeepLines, ParkedKeepHeaders
  <2> QED
    BY <2>2 DEF SessionsInv, HeadersAreOwn
<1>5. Spec => []IInv
  BY Invariance
<1> QED
  BY <1>1, <1>2, <1>3, <1>4, <1>5, PTL DEF Spec

-----------------------------------------------------------------------------
(* Pages that return text and coroutines that return text or raise pass    *)
(* the queue.  (Others overtake or leave Requests behind, see README.)     *)
OnlyQueued ==
    /\ Routes \subseteq {"page", "async"}
    /\ PageResults = {"text"}
    /\ "object" \notin TaskResults

(* What ResponsesInOrder rests on: out and the queue behind it are all the *)
(* messages received, one after the other.                                 *)
Backlog(c) == Len(queue[c]) - qstart[c]

OutThenQueue(c) ==
    /\ \A i \in Positions(c) : queue[c][i].msg = Len(out[c]) + (i - qstart[c])
    /\ sent[c] = Len(out[c]) + Backlog(c)

InOrder(c) ==
    /\ out[c] \in Seq(Int)
    /\ \A i \in 1 .. Len(out[c]) : out[c][i] = i
    /\ phase[c] \in {"none", "init"} =>
          Len(out[c]) = 0 /\ Len(queue[c]) = 0 /\ qstart[c] = 0 /\ sent[c] = 0
    /\ phase[c] = "open" => OutThenQueue(c)

OrderInv ==
    /\ IInv
    /\ waiting = {}
    /\ DOMAIN out = Conns
    /\ \A c \in Conns : InOrder(c)

-----------------------------------------------------------------------------
LEMMA OnlyText ==
    ASSUME OnlyQueued
    PROVE  NoObjects /\ \A route \in Routes : ~WantsSession(route) /\ ResultsOf(route) = {"text"}
<1>1. "object" \notin PageResults \cup TaskResults
  BY DEF OnlyQueued
<1> QED
  BY <1>1 DEF OnlyQueued, NoObjects, WantsSession, ResultsOf

LEMMA InitOrder == Init => OrderInv
<1> SUFFICES ASSUME Init PROVE OrderInv
  OBVIOUS
<1>1. IInv
  BY InitIInv
<1>2. ASSUME NEW c \in Conns PROVE InOrder(c)
  BY DEF Init, InOrder
<1> QED
  BY <1>1, <1>2 DEF Init, OrderInv

(* A step of one connection: of the others nothing changes that counts.    *)
LEMMA OrderOfOne ==
    ASSUME OrderInv, IInv', waiting' = {}, NEW c \in Conns, InOrder(c)', DOMAIN out' = Conns,
           \A d \in Conns \ {c} : /\ phase'[d] = phase[d] /\ queue'[d] = queue[d]
                                  /\ qstart'[d] = qstart[d] /\ sent'[d] = sent[d]
                                  /\ out'[d] = out[d]
    PROVE  OrderInv'
<1>1. ASSUME NEW d \in Conns \ {c} PROVE InOrder(d)'
  <2>1. InOrder(d)
    BY DEF OrderInv
  <2> QED
    BY <2>1 DEF InOrder, OutThenQueue, Backlog, Positions
<1> QED
  BY <1>1 DEF OrderInv

(* A message goes out at once if the queue is empty, else behind it.       *)
LEMMA ReceiveShape ==
    ASSUME OnlyQueued, OrderInv, NEW c \in Conns, Receive(c)
    PROVE  /\ phase[c] = "open" /\ sent' = [sent EXCEPT ![c] = @ + 1]
           /\ UNCHANGED <<phase, waiting>>
           /\ \/ /\ PipelineEmpty(c) /\ UNCHANGED <<queue, qstart, pool, request>>
                 /\ out' = [out EXCEPT ![c] = @ \o <<sent[c] + 1>>]
              \/ /\ \E entry \in Entries : /\ entry.msg = sent[c] + 1 /\ entry.req = request[c]
                                          /\ PipelineQueue(c, entry)
                 /\ pool' = GetRequest(pool)
                 /\ request' = [request EXCEPT ![c] = GrantedRequest(pool)]
                 /\ UNCHANGED out
<1>1. PICK route \in Routes, cookie \in BOOLEAN, up \in BOOLEAN, more \in BOOLEAN :
          \E result \in ResultsOf(route) : DataReceived(c, route, cookie, up, result, more)
  BY DEF Receive
<1>2. DataReceived(c, route, cookie, up, "text", more) /\ ~WantsSession(route)
      /\ route \in {"page", "async"}
  BY <1>1, OnlyText DEF OnlyQueued
<1> DEFINE m == [conn |-> c, msg |-> sent[c] + 1, cookie |-> cookie]
           entry == [msg |-> m.msg, req |-> request[c], task |-> IsCoro(route),
                     result |-> IF IsCoro(route) THEN "pending" ELSE "text"]
<1>3. PICK ln, hd, id, wrote :
          /\ phase[c] = "open" /\ sent' = [sent EXCEPT ![c] = @ + 1] /\ UNCHANGED waiting
          /\ HandleRequest(c, request[c], m, route, "text", ln, hd, id, wrote)
          /\ phase' = [phase EXCEPT ![c] = IF FALSE THEN "aborting" ELSE @]
  BY <1>2 DEF DataReceived, Fails
<1>4. phase' = phase
  BY <1>3 DEF OrderInv, IInv, Types
<1>5. entry \in Entries /\ entry.msg = sent[c] + 1 /\ entry.req = request[c]
  <2>1. sent[c] + 1 \in Int /\ request[c] \in Int /\ IsCoro(route) \in BOOLEAN
    BY DEF OrderInv, IInv, Types, IsCoro
  <2> QED
    BY <2>1 DEF Entries
<1>6. request \in [Conns -> Int]
  BY DEF OrderInv, IInv, Types
<1> HIDE DEF entry
<1>7. CASE route = "page" /\ PipelineEmpty(c)
  <2>1. ~IsCoro(route) /\ ~ParksRequest(c, request[c], route)
    BY <1>7 DEF IsCoro, ParksRequest
  <2>2. /\ Write(c, <<m.msg>>) /\ UNCHANGED <<queue, qstart>> /\ pool' = pool
        /\ request' = [request EXCEPT ![c] = request[c]]
    BY <1>3, <1>7, <2>1 DEF HandleRequest
  <2> QED
    BY <1>3, <1>4, <1>6, <1>7, <2>2 DEF Write
<1>8. CASE route = "async" \/ ~PipelineEmpty(c)
  <2>1. ParksRequest(c, request[c], route)
    BY <1>8 DEF ParksRequest, IsCoro
  <2>2. /\ PipelineQueue(c, entry) /\ UNCHANGED out /\ pool' = GetRequest(pool)
        /\ request' = [request EXCEPT ![c] = GrantedRequest(pool)]
    BY <1>2, <1>3, <1>8, <2>1 DEF HandleRequest, IsCoro, entry
  <2> QED
    BY <1>3, <1>4, <1>5, <2>2
<1> QED
  BY <1>2, <1>7, <1>8

LEMMA ReceiveOrder ==
    ASSUME OnlyQueued, OrderInv, IInv', NEW c \in Conns, Receive(c)
    PROVE  OrderInv'
<1>1. /\ InOrder(c) /\ waiting' = {} /\ phase[c] = "open" /\ phase' = phase /\ DOMAIN out = Conns
      /\ sent' = [sent EXCEPT ![c] = @ + 1] /\ sent \in [Conns -> Int]
      /\ queue \in [Conns -> Seq(Entries)] /\ qstart \in [Conns -> Nat] /\ qstart[c] <= Len(queue[c])
  BY ReceiveShape DEF OrderInv, IInv, Types
<1>2. OutThenQueue(c) /\ out[c] \in Seq(Int) /\ sent[c] \in Int /\ sent'[c] = sent[c] + 1
  BY <1>1 DEF InOrder
<1>3. CASE PipelineEmpty(c) /\ UNCHANGED <<queue, qstart>> /\ out' = [out EXCEPT ![c] = @ \o <<sent[c] + 1>>]
  <2>1. out'[c] = Append(out[c], sent[c] + 1) /\ DOMAIN out' = Conns
    BY <1>1, <1>2, <1>3
  <2>2. sent[c] = Len(out[c])
    BY <1>1, <1>2, <1>3 DEF OutThenQueue, Backlog, PipelineEmpty
  <2>3. Len(out'[c]) = Len(out[c]) + 1 /\ out'[c] \in Seq(Int)
        /\ \A i \in 1 .. Len(out'[c]) : out'[c][i] = i
    BY <1>1, <1>2, <2>1, <2>2 DEF InOrder
  <2>4. OutThenQueue(c)'
    BY <1>1, <1>2, <1>3, <2>2, <2>3 DEF OutThenQueue, Backlog, PipelineEmpty, Positions
  <2>5. InOrder(c)'
    BY <1>1, <2>3, <2>4 DEF InOrder
  <2> QED
    BY <1>1, <1>3, <2>1, <2>5, OrderOfOne
<1>4. ASSUME NEW entry, entry.msg = sent[c] + 1, PipelineQueue(c, entry), UNCHANGED out
      PROVE  OrderInv'
  <2>1. /\ queue'[c] = IF PipelineEmpty(c) THEN <<entry>> ELSE Append(queue[c], entry)
        /\ qstart'[c] = IF PipelineEmpty(c) THEN 0 ELSE qstart[c]
        /\ \A d \in Conns \ {c} : queue'[d] = queue[d] /\ qstart'[d] = qstart[d]
    BY <1>1, <1>4 DEF PipelineQueue
  <2>2. ASSUME PipelineEmpty(c) PROVE OutThenQueue(c)'
    <3>1. sent[c] = Len(out[c])
      BY <1>1, <1>2, <2>2 DEF OutThenQueue, Backlog, PipelineEmpty
    <3>2. queue'[c] = <<entry>> /\ qstart'[c] = 0
      BY <2>1, <2>2
    <3> QED
      BY <1>2, <1>4, <3>1, <3>2 DEF OutThenQueue, Backlog, Positions
  <2>3. ASSUME ~PipelineEmpty(c) PROVE OutThenQueue(c)'
    <3>1. queue'[c] = Append(queue[c], entry) /\ qstart'[c] = qstart[c]
      BY <2>1, <2>3
    <3>2. /\ Len(queue'[c]) = Len(queue[c]) + 1 /\ queue'[c][Len(queue[c]) + 1] = entry
          /\ \A i \in 1 .. Len(queue[c]) : queue'[c][i] = queue[c][i]
      <4>1. queue[c] \in Seq(Entries)
        BY <1>1
      <4> QED
        BY <3>1, <4>1
    <3>3. /\ Len(queue[c]) \in Nat /\ qstart[c] \in Nat /\ Len(out[c]) \in Nat /\ out' = out
          /\ sent[c] = Len(out[c]) + (Len(queue[c]) - qstart[c]) /\ sent'[c] = sent[c] + 1
      BY <1>1, <1>2, <1>4 DEF OutThenQueue, Backlog
    <3>4. sent'[c] = Len(out'[c]) + Backlog(c)'
      <4>1. Backlog(c)' = (Len(queue[c]) + 1) - qstart[c]
        BY <3>1, <3>2 DEF Backlog
      <4> DEFINE L == Len(queue[c])
                 O == Len(out[c])
                 f == qstart[c]
                 s == sent[c]
      <4>2. /\ L \in Nat /\ f \in Nat /\ O \in Nat /\ s = O + (L - f) /\ sent'[c] = s + 1
            /\ Backlog(c)' = (L + 1) - f /\ Len(out'[c]) = O
        BY <3>3, <4>1
      <4> HIDE DEF L, O, f, s
      <4>3. s + 1 = O + ((L + 1) - f)
        BY <4>2
      <4> QED
        BY <4>2, <4>3
    <3>5. ASSUME NEW i \in Positions(c)' PROVE queue'[c][i].msg = Len(out'[c]) + (i - qstart'[c])
      <4>1. i \in qstart[c] + 1 .. Len(queue[c]) + 1
        BY <3>1, <3>2, <3>5 DEF Positions
      <4>2. CASE i = Len(queue[c]) + 1
        <5>1. queue'[c][i].msg = sent[c] + 1 /\ qstart'[c] = qstart[c] /\ Len(out'[c]) = Len(out[c])
          BY <1>4, <3>1, <3>2, <3>3, <4>2
        <5> DEFINE L == Len(queue[c])
                   O == Len(out[c])
                   f == qstart[c]
                   s == sent[c]
        <5>2. L \in Nat /\ f \in Nat /\ O \in Nat /\ s = O + (L - f) /\ i = L + 1
          BY <3>3, <4>2
        <5> HIDE DEF L, O, f, s
        <5>3. s + 1 = O + (i - f)
          BY <5>2
        <5> QED
          BY <5>1, <5>3 DEF O, f, s
      <4>3. CASE i # Len(queue[c]) + 1
        <5>1. i \in Positions(c) /\ i \in 1 .. Len(queue[c])
          BY <3>3, <4>1, <4>3 DEF Positions
        <5>2. queue[c][i].msg = Len(out[c]) + (i - qstart[c])
          BY <1>2, <5>1 DEF OutThenQueue
        <5> QED
          BY <3>1, <3>2, <3>3, <5>1, <5>2
      <4> QED
        BY <4>2, <4>3
    <3> QED
      BY <3>4, <3>5 DEF OutThenQueue
  <2>4. InOrder(c)'
    BY <1>1, <1>4, <2>2, <2>3 DEF InOrder
  <2> QED
    BY <1>1, <1>4, <2>1, <2>4, OrderOfOne
<1> QED
  BY <1>3, <1>4, ReceiveShape

(* A task that ends leaves its response where it is in the queue.          *)
LEMMA TaskEndsOrder ==
    ASSUME OrderInv, IInv', NEW c \in Conns, TaskSettles(c)
    PROVE  OrderInv'
<1>1. PICK i \in DOMAIN queue[c], result \in Results : TaskEnds(c, i, result)
  BY DEF TaskSettles
<1>2. /\ queue' = [queue EXCEPT ![c][i].result = result]
      /\ UNCHANGED <<phase, qstart, waiting, sent, out>>
      /\ InOrder(c) /\ queue \in [Conns -> Seq(Entries)] /\ qstart \in [Conns -> Nat]
  BY <1>1 DEF TaskEnds, OrderInv, IInv, Types
<1>3. /\ queue'[c] = [queue[c] EXCEPT ![i].result = result]
      /\ \A d \in Conns \ {c} : queue'[d] = queue[d]
  BY <1>2
<1>4. /\ Len(queue'[c]) = Len(queue[c])
      /\ \A k \in 1 .. Len(queue[c]) : queue'[c][k].msg = queue[c][k].msg
  <2>1. queue[c] \in Seq(Entries)
    BY <1>2
  <2>2. ASSUME NEW k \in 1 .. Len(queue[c]) PROVE queue'[c][k].msg = queue[c][k].msg
    <3>1. queue[c][k] \in Entries
      BY <2>1
    <3> QED
      BY <1>3, <2>1, <3>1 DEF Entries
  <2> QED
    BY <1>3, <2>1, <2>2
<1>5. InOrder(c)'
  BY <1>2, <1>4 DEF InOrder, OutThenQueue, Backlog, Positions
<1> QED
  BY <1>2, <1>3, <1>5, OrderOfOne DEF OrderInv

(* ... and goes out when all before it have, at the head of the queue.     *)
LEMMA TaskDoneOrder ==
    ASSUME OrderInv, IInv', NEW c \in Conns, TaskDone(c)
    PROVE  OrderInv'
<1> DEFINE q     == queue[c]
           ready == ReadyEntries(c)
           n     == Cardinality(ready)
           last  == qstart[c] + n
           ns    == [k \in 1 .. n |-> q[qstart[c] + k].msg]
<1>1. /\ Write(c, ns)
      /\ qstart' = [qstart EXCEPT ![c] = IF ready # {} /\ q[last].result = "object" THEN @ ELSE last]
      /\ UNCHANGED <<phase, queue, waiting, sent>>
      /\ InOrder(c) /\ qstart \in [Conns -> Nat] /\ qstart[c] \in Nat /\ Len(q) \in Nat
      /\ q \in Seq(Entries) /\ qstart[c] <= Len(q) /\ DOMAIN out = Conns
  BY DEF TaskDone, OrderInv, IInv, Types
<1>2. ready = qstart[c] + 1 .. last /\ last \in qstart[c] .. Len(q)
      /\ (ready # {} => q[last].result # "object")
  BY ReadyPrefix DEF OrderInv
<1> HIDE DEF ready
<1>3. qstart'[c] = last /\ \A d \in Conns \ {c} : qstart'[d] = qstart[d]
  BY <1>1, <1>2
<1>4. n \in Nat
  <2>1. IsFiniteSet(ready)
    BY <1>1, <1>2, FS_Interval
  <2> QED
    BY <2>1, FS_CardinalityType
<1> HIDE DEF n
<1>5. CASE phase[c] = "open"
  <2>1. out'[c] = out[c] \o ns /\ DOMAIN out' = Conns /\ \A d \in Conns \ {c} : out'[d] = out[d]
    BY <1>1, <1>5 DEF Write
  <2>2. OutThenQueue(c) /\ out[c] \in Seq(Int) /\ Len(out[c]) \in Nat
    BY <1>1, <1>5 DEF InOrder
  <2>3. \A k \in 1 .. n : ns[k] = Len(out[c]) + k
    <3>1. ASSUME NEW k \in 1 .. n PROVE ns[k] = Len(out[c]) + k
      <4>1. qstart[c] + k \in Positions(c) /\ (qstart[c] + k) - qstart[c] = k
        BY <1>1, <1>2, <1>4 DEF Positions
      <4>2. q[qstart[c] + k].msg = Len(out[c]) + ((qstart[c] + k) - qstart[c])
        BY <2>2, <4>1 DEF OutThenQueue
      <4> QED
        BY <4>1, <4>2
    <3> QED
      BY <3>1
  <2>4. ns \in Seq(Int) /\ Len(ns) = n
    <3>1. \A k \in 1 .. n : Len(out[c]) + k \in Int
      BY <2>2
    <3>2. ns \in [1 .. n -> Int]
      BY <2>3, <3>1
    <3> QED
      BY <1>4, <3>2
  <2> HIDE DEF ns
  <2>5. out'[c] \in Seq(Int) /\ Len(out'[c]) = Len(out[c]) + n
    <3>1. out[c] \o ns \in Seq(Int) /\ Len(out[c] \o ns) = Len(out[c]) + Len(ns)
      BY ONLY <2>2, <2>4, ConcatProperties
    <3> QED
      BY <2>1, <2>4, <3>1
  <2>6. \A i \in 1 .. Len(out'[c]) : out'[c][i] = i
    <3>1. ASSUME NEW i \in 1 .. Len(out'[c]) PROVE out'[c][i] = i
      <4>1. CASE i <= Len(out[c])
        BY <1>1, <2>1, <2>2, <2>4, <4>1 DEF InOrder
      <4>2. CASE i > Len(out[c])
        <5>1. out'[c][i] = ns[i - Len(out[c])] /\ i - Len(out[c]) \in 1 .. n
          BY <1>4, <2>1, <2>2, <2>4, <2>5, <4>2
        <5> QED
          BY <2>2, <2>3, <5>1
      <4> QED
        BY <2>2, <4>1, <4>2
    <3> QED
      BY <3>1
  <2>7. OutThenQueue(c)'
    <3>1. queue'[c] = q /\ qstart'[c] = qstart[c] + n /\ sent'[c] = sent[c]
      BY <1>1, <1>3
    <3>2. sent'[c] = Len(out'[c]) + (Len(queue'[c]) - qstart'[c])
      BY <1>1, <1>4, <2>2, <2>5, <3>1 DEF OutThenQueue, Backlog
    <3>3. ASSUME NEW i \in qstart[c] + n + 1 .. Len(q)
          PROVE  q[i].msg = Len(out'[c]) + (i - (qstart[c] + n))
      <4>1. i \in Positions(c)
        BY <1>1, <1>4 DEF Positions
      <4>2. q[i].msg = Len(out[c]) + (i - qstart[c])
        BY <2>2, <4>1 DEF OutThenQueue
      <4> QED
        BY ONLY <1>1, <1>4, <2>2, <2>5, <4>2, i \in Int
    <3> QED
      BY <3>1, <3>2, <3>3 DEF OutThenQueue, Backlog, Positions
  <2>8. InOrder(c)'
    BY <1>1, <1>5, <2>5, <2>6, <2>7 DEF InOrder
  <2> QED
    BY <1>1, <1>3, <2>1, <2>8, OrderOfOne DEF OrderInv
<1>6. CASE phase[c] # "open"
  <2>1. DOMAIN out' = Conns /\ \A d \in Conns : out'[d] = out[d]
    BY <1>1, <1>6 DEF Write
  <2>2. phase[c] \in {"none", "init"} => qstart'[c] = 0
    BY <1>1, <1>2, <1>3 DEF InOrder
  <2>3. InOrder(c)'
    BY <1>1, <1>6, <2>1, <2>2 DEF InOrder
  <2> QED
    BY <1>1, <1>3, <2>1, <2>3, OrderOfOne DEF OrderInv
<1> QED
  BY <1>5, <1>6

LEMMA LostOrder ==
    ASSUME OrderInv, IInv', NEW c \in Conns, ConnectionLost(c)
    PROVE  OrderInv'
<1>1. /\ phase' = [phase EXCEPT ![c] = "lost"] /\ queue' = [queue EXCEPT ![c] = PipelineCancel(c)]
      /\ UNCHANGED <<qstart, waiting, sent, out>>
      /\ phase \in [Conns -> {"none", "init", "open", "aborting", "lost"}]
  BY DEF ConnectionLost, OrderInv, IInv, Types
<1>2. InOrder(c)'
  BY <1>1 DEF OrderInv, InOrder
<1>3. \A d \in Conns \ {c} : phase'[d] = phase[d] /\ queue'[d] = queue[d]
  BY <1>1 DEF OrderInv, IInv, Types
<1> QED
  BY <1>1, <1>2, <1>3, OrderOfOne DEF OrderInv

LEMMA NewOrder ==
    ASSUME OrderInv, IInv', NEW c \in Conns, ProtocolInit(c) \/ ConnectionMade(c)
    PROVE  OrderInv'
<1>1. /\ phase[c] \in {"none", "init"} /\ \A d \in Conns \ {c} : phase'[d] = phase[d]
      /\ UNCHANGED <<queue, qstart, waiting, sent, out>>
  BY DEF ProtocolInit, ConnectionMade, OrderInv, IInv, Types
<1>2. InOrder(c)'
  BY <1>1 DEF OrderInv, InOrder, OutThenQueue, Backlog, Positions
<1> QED
  BY <1>1, <1>2, OrderOfOne DEF OrderInv

-----------------------------------------------------------------------------
LEMMA NextOrder == OnlyQueued /\ OrderInv /\ IInv' /\ [Next]_vars => OrderInv'
<1> SUFFICES ASSUME OnlyQueued, OrderInv, IInv', [Next]_vars PROVE OrderInv'
  OBVIOUS
<1>1. ASSUME NEW c \in Conns,
             \/ ProtocolInit(c) \/ ConnectionMade(c) \/ Receive(c)
             \/ TaskSettles(c) \/ TaskDone(c) \/ ConnectionLost(c)
      PROVE  OrderInv'
  BY <1>1, NewOrder, ReceiveOrder, TaskEndsOrder, TaskDoneOrder, LostOrder
<1>2. ASSUME NEW w \in waiting, Reply(w) PROVE OrderInv'
  BY <1>2 DEF OrderInv
<1>3. CASE UNCHANGED vars
  BY <1>3 DEF vars, OrderInv, InOrder, OutThenQueue, Backlog, Positions
<1> QED
  BY ONLY <1>1, <1>2, <1>3, [Next]_vars DEF Next

LEMMA OrderAlways == ASSUME OnlyQueued PROVE Spec => []OrderInv
<1>1. NoObjects
  BY OnlyText
<1>2. Spec => []IInv
  BY <1>1, Invariance
<1>3. OrderInv /\ IInv' /\ [Next]_vars => OrderInv'
  BY NextOrder
<1> QED
  BY InitOrder, <1>2, <1>3, PTL DEF Spec

(* HTTP pipelining: the responses leave in the order of the requests, none *)
(* twice and none skipped, whatever order the coroutines finish in.        *)
THEOREM ResponsesInOrderAlways == ASSUME OnlyQueued PROVE Spec => []ResponsesInOrder
<1>1. OrderInv => ResponsesInOrder
  BY DEF OrderInv, InOrder, ResponsesInOrder
<1> QED
  BY OrderAlways, <1>1, PTL

-----------------------------------------------------------------------------
(* Every Request in use is held for something, by some connection.         *)
NobodyLost == \A c \in Conns : phase[c] # "lost"

LeakInv == NobodyLost => \A r \in pool.inprog : \E c \in Conns : r \in HeldBy(c)

LEMMA LeakOfOne ==
    ASSUME LeakInv, NobodyLost' => NobodyLost, NEW c \in Conns, UNCHANGED waiting,
           \A d \in Conns \ {c} : /\ phase'[d] = phase[d] /\ request'[d] = request[d]
                                  /\ queue'[d] = queue[d] /\ qstart'[d] = qstart[d],
           NobodyLost' => /\ pool'.inprog \subseteq pool.inprog \cup HeldBy(c)'
                          /\ HeldBy(c) \cap pool'.inprog \subseteq HeldBy(c)'
    PROVE  LeakInv'
<1> SUFFICES ASSUME NobodyLost', NEW r \in pool'.inprog PROVE \E d \in Conns : r \in HeldBy(d)'
  BY DEF LeakInv
<1>1. CASE r \in HeldBy(c)'
  BY <1>1
<1>2. CASE r \notin HeldBy(c)'
  <2>1. PICK d \in Conns \ {c} : r \in HeldBy(d)
    BY <1>2 DEF LeakInv
  <2>2. HeldBy(d)' = HeldBy(d)
    BY DEF HeldBy, Parked, Positions, LookupsOf, Live
  <2> QED
    BY <2>1, <2>2
<1> QED
  BY <1>1, <1>2

LEMMA ReceiveLeak ==
    ASSUME OnlyQueued, OrderInv, LeakInv, NEW c \in Conns, Receive(c)
    PROVE  LeakInv'
<1>1. /\ phase[c] = "open" /\ UNCHANGED <<phase, waiting>> /\ request \in [Conns -> Int] /\ Types
  BY ReceiveShape DEF OrderInv, IInv, Types
<1>2. CASE UNCHANGED <<queue, qstart, pool, request>>
  BY <1>1, <1>2 DEF LeakInv, NobodyLost, HeldBy, Parked, Positions, LookupsOf, Live
<1>3. ASSUME NEW entry \in Entries, entry.req = request[c], PipelineQueue(c, entry),
             pool' = GetRequest(pool), request' = [request EXCEPT ![c] = GrantedRequest(pool)]
      PROVE  LeakInv'
  <2> DEFINE k   == Len(queue'[c])
             new == GrantedRequest(pool)
  <2>1. pool'.inprog = pool.inprog \cup {new} /\ request'[c] = new
        /\ \A d \in Conns \ {c} : request'[d] = request[d]
    BY <1>1, <1>3, Granted DEF OrderInv
  <2>2. /\ k \in Positions(c)' /\ queue'[c][k] = entry
        /\ \A d \in Conns \ {c} : queue'[d] = queue[d] /\ qstart'[d] = qstart[d]
    BY <1>1, <1>3, QueueGrows
  <2>3. \A i \in Positions(c) : \E j \in Positions(c)' : queue'[c][j].req = queue[c][i].req
    <3>1. CASE PipelineEmpty(c)
      BY <1>1, <3>1 DEF Positions, PipelineEmpty, Types
    <3>2. CASE ~PipelineEmpty(c)
      <4>1. queue'[c] = Append(queue[c], entry) /\ qstart'[c] = qstart[c] /\ queue[c] \in Seq(Entries)
            /\ qstart[c] \in Nat
        BY <1>1, <1>3, <3>2 DEF PipelineQueue, Types
      <4>2. ASSUME NEW i \in Positions(c) PROVE i \in Positions(c)' /\ queue'[c][i] = queue[c][i]
        BY <4>1 DEF Positions
      <4> QED
        BY <4>2
    <3> QED
      BY <3>1, <3>2
  <2>4. Live(c) /\ Live(c)' /\ LookupsOf(c)' = LookupsOf(c)
    BY <1>1 DEF Live, LookupsOf
  <2> HIDE DEF k, new
  <2>5. HeldBy(c) \subseteq HeldBy(c)' /\ new \in HeldBy(c)'
    <3>1. Parked(c) \subseteq Parked(c)'
      BY <2>3, <2>4 DEF Parked
    <3>2. request[c] \in Parked(c)'
      BY <1>3, <2>2 DEF Parked
    <3> QED
      BY <2>1, <2>4, <3>1, <3>2 DEF HeldBy
  <2> QED
    BY <1>1, <2>1, <2>2, <2>5, LeakOfOne DEF NobodyLost
<1> QED
  BY <1>2, <1>3, ReceiveShape

(* Entries leave the queue with their Requests given back, but for one the *)
(* next message goes to, and for responses nobody can be sent.             *)
LEMMA TaskDoneLeak ==
    ASSUME OrderInv, LeakInv, NEW c \in Conns, TaskDone(c)
    PROVE  LeakInv'
<1> DEFINE ready == ReadyEntries(c)
           last  == qstart[c] + Cardinality(ready)
<1>1. /\ qstart' = [qstart EXCEPT ![c] = IF ready # {} /\ queue[c][last].result = "object" THEN @ ELSE last]
      /\ UNCHANGED <<phase, request, queue, waiting>> /\ qstart \in [Conns -> Nat]
      /\ phase \in [Conns -> {"none", "init", "open", "aborting", "lost"}]
      /\ pool'.inprog = pool.inprog \ {queue[c][i].req : i \in FreedEntries(c)}
  BY TaskDoneReleases DEF TaskDone, OrderInv, IInv, Types
<1>2. ready = qstart[c] + 1 .. last /\ last \in qstart[c] .. Len(queue[c])
      /\ (ready # {} => queue[c][last].result # "object")
  BY ReadyPrefix DEF OrderInv
<1>3. qstart[c] \in Nat /\ Len(queue[c]) \in Nat
  BY DEF OrderInv, IInv, Types
<1> HIDE DEF ready
<1>4. qstart'[c] = last /\ \A d \in Conns \ {c} : qstart'[d] = qstart[d]
  BY <1>1, <1>2
<1> HIDE DEF last
<1>5. \A i \in Positions(c) : i \in ready \/ i \in Positions(c)'
  BY <1>1, <1>2, <1>3, <1>4 DEF Positions
<1>6. ASSUME NobodyLost, NEW r \in HeldBy(c), r \in pool'.inprog PROVE r \in HeldBy(c)'
  <2>1. LookupsOf(c)' = LookupsOf(c) /\ Live(c)' = Live(c)
    BY <1>1 DEF LookupsOf, Live
  <2>2. CASE r \in {w.req : w \in LookupsOf(c)} \/ (Live(c) /\ r = request[c])
    BY <1>1, <2>1, <2>2 DEF HeldBy, Parked
  <2>3. ASSUME NEW i \in Positions(c), r = queue[c][i].req, ~(Live(c) /\ r = request[c])
        PROVE  r \in HeldBy(c)'
    <3>1. CASE i \in Positions(c)'
      BY <1>1, <2>3, <3>1 DEF HeldBy, Parked
    <3>2. CASE i \in ready
      <4>1. Live(c) /\ ~Closed(c)
        <5>1. phase[c] \notin {"none", "init"}
          BY <1>3, <2>3 DEF OrderInv, InOrder, Positions
        <5> QED
          BY <1>1, <1>6, <5>1 DEF Live, Closed, NobodyLost
      <4>2. i \in FreedEntries(c)
        BY <2>3, <3>2, <4>1 DEF ready, FreedEntries
      <4> QED
        BY <1>1, <1>6, <2>3, <4>2
    <3> QED
      BY <1>5, <3>1, <3>2
  <2> QED
    BY <2>2, <2>3 DEF HeldBy, Parked
<1> QED
  BY <1>1, <1>4, <1>6, LeakOfOne DEF NobodyLost

LEMMA NewLeak ==
    ASSUME OrderInv, LeakInv, NEW c \in Conns, ProtocolInit(c) \/ ConnectionMade(c)
    PROVE  LeakInv'
<1>1. /\ phase[c] \in {"none", "init"} /\ Live(c)'
      /\ \A d \in Conns \ {c} : phase'[d] = phase[d] /\ request'[d] = request[d]
      /\ UNCHANGED <<queue, qstart, waiting>>
      /\ \/ pool'.inprog = pool.inprog \cup {request'[c]} /\ phase[c] = "none"
         \/ UNCHANGED <<pool, request>>
  BY Granted DEF ProtocolInit, ConnectionMade, OrderInv, IInv, Types, Live
<1>2. Parked(c)' = Parked(c)
  BY <1>1 DEF Parked, Positions, LookupsOf
<1>3. HeldBy(c) \subseteq HeldBy(c)'
  BY <1>1, <1>2 DEF HeldBy, Live
<1>4. pool'.inprog \subseteq pool.inprog \cup HeldBy(c)'
  BY <1>1 DEF HeldBy
<1> QED
  BY <1>1, <1>3, <1>4, LeakOfOne DEF NobodyLost

LEMMA TaskEndsLeak ==
    ASSUME OrderInv, LeakInv, NEW c \in Conns, TaskSettles(c)
    PROVE  LeakInv'
<1>1. PICK i \in DOMAIN queue[c], result \in Results : TaskEnds(c, i, result)
  BY DEF TaskSettles
<1>2. /\ queue' = [queue EXCEPT ![c][i].result = result]
      /\ UNCHANGED <<pool, phase, request, qstart, waiting>> /\ queue \in [Conns -> Seq(Entries)]
      /\ qstart[c] \in Nat
  BY <1>1 DEF TaskEnds, OrderInv, IInv, Types
<1>3. /\ queue'[c] = [queue[c] EXCEPT ![i].result = result] /\ queue[c] \in Seq(Entries)
      /\ \A d \in Conns \ {c} : queue'[d] = queue[d]
  BY <1>2
<1>4. Len(queue'[c]) = Len(queue[c]) /\ \A k \in Positions(c) : queue'[c][k].req = queue[c][k].req
  <2>1. ASSUME NEW k \in Positions(c) PROVE queue'[c][k].req = queue[c][k].req
    <3>1. k \in 1 .. Len(queue[c])
      BY <1>2, <1>3 DEF Positions
    <3>2. queue[c][k] \in Entries
      BY <1>3, <3>1
    <3> QED
      BY <1>3, <3>1, <3>2 DEF Entries
  <2> QED
    BY <1>3, <2>1
<1>5. HeldBy(c)' = HeldBy(c)
  BY <1>2, <1>4 DEF HeldBy, Parked, Positions, LookupsOf, Live
<1> QED
  BY <1>2, <1>3, <1>5, LeakOfOne DEF NobodyLost

-----------------------------------------------------------------------------
LEMMA NextLeak == OnlyQueued /\ OrderInv /\ LeakInv /\ [Next]_vars => LeakInv'
<1> SUFFICES ASSUME OnlyQueued, OrderInv, LeakInv, [Next]_vars PROVE LeakInv'
  OBVIOUS
<1>1. ASSUME NEW c \in Conns,
             ProtocolInit(c) \/ ConnectionMade(c) \/ Receive(c) \/ TaskSettles(c) \/ TaskDone(c)
      PROVE  LeakInv'
  BY <1>1, NewLeak, ReceiveLeak, TaskEndsLeak, TaskDoneLeak
<1>2. ASSUME NEW c \in Conns, ConnectionLost(c) PROVE LeakInv'
  <2>1. phase'[c] = "lost"
    BY <1>2 DEF ConnectionLost, OrderInv, IInv, Types
  <2> QED
    BY <2>1 DEF LeakInv, NobodyLost
<1>3. ASSUME NEW w \in waiting, Reply(w) PROVE LeakInv'
  BY <1>3 DEF OrderInv
<1>4. CASE UNCHANGED vars
  BY <1>4 DEF vars, LeakInv, NobodyLost, HeldBy, Parked, Positions, LookupsOf, Live
<1> QED
  BY ONLY <1>1, <1>2, <1>3, <1>4, [Next]_vars DEF Next

(* As long as no client went away, nothing stays out of the pool that      *)
(* nobody will give back.                                                  *)
THEOREM NoLeakAlways == ASSUME OnlyQueued PROVE Spec => []NoLeak
<1>1. Init => LeakInv
  BY DEF Init, InitialPool, LeakInv
<1>2. OrderInv /\ LeakInv /\ [Next]_vars => LeakInv'
  BY NextLeak
<1>3. LeakInv => NoLeak
  BY HeldIs DEF LeakInv, NobodyLost, NoLeak
<1> QED
  BY OrderAlways, <1>1, <1>2, <1>3, PTL DEF Spec

-----------------------------------------------------------------------------
(* Every message of a connection is in one place: answered, in the queue,  *)
(* waiting for its session, or no longer anywhere.                         *)
NotAnswered(c, n) == \A i \in 1 .. Len(out[c]) : out[c][i] # n
NotQueued(c, n) == \A i \in Positions(c) : queue[c][i].msg # n

InOnePlace(c) ==
    /\ out[c] \in Seq(Int)
    /\ \A i, j \in 1 .. Len(out[c]) : out[c][i] = out[c][j] => i = j
    /\ \A i \in 1 .. Len(out[c]) : out[c][i] <= sent[c]
    /\ \A i, j \in Positions(c) : queue[c][i].msg = queue[c][j].msg => i = j
    /\ \A i \in Positions(c) : queue[c][i].msg <= sent[c] /\ NotAnswered(c, queue[c][i].msg)
    /\ \A v, w \in LookupsOf(c) : v.m.msg = w.m.msg => v = w
    /\ \A w \in LookupsOf(c) :
          w.m.msg <= sent[c] /\ NotAnswered(c, w.m.msg) /\ NotQueued(c, w.m.msg)

OnceInv == DOMAIN out = Conns /\ \A c \in Conns : InOnePlace(c)

LEMMA NumbersAreInts ==
    ASSUME IInv, NEW c \in Conns
    PROVE  /\ \A w \in LookupsOf(c) : w.m.msg \in Int
           /\ \A i \in Positions(c) : queue[c][i].msg \in Int
<1>1. \A w \in LookupsOf(c) : w.m.msg \in Int
  BY DEF IInv, Types, LookupsOf, IsLookup, Messages
<1>2. ASSUME NEW i \in Positions(c) PROVE queue[c][i].msg \in Int
  <2>1. queue[c] \in Seq(Entries) /\ i \in 1 .. Len(queue[c])
    BY DEF IInv, Types, Positions
  <2>2. queue[c][i] \in Entries
    BY <2>1
  <2> QED
    BY <2>2 DEF Entries
<1> QED
  BY <1>1, <1>2

LEMMA OnceOfOne ==
    ASSUME OnceInv, NEW c \in Conns, InOnePlace(c)', DOMAIN out' = Conns,
           \A d \in Conns \ {c} : /\ queue'[d] = queue[d] /\ qstart'[d] = qstart[d]
                                  /\ sent'[d] = sent[d] /\ out'[d] = out[d]
                                  /\ LookupsOf(d)' = LookupsOf(d)
    PROVE  OnceInv'
<1>1. ASSUME NEW d \in Conns \ {c} PROVE InOnePlace(d)'
  <2>1. InOnePlace(d)
    BY DEF OnceInv
  <2>2. Positions(d)' = Positions(d)
    BY DEF Positions
  <2> QED
    BY <2>1, <2>2 DEF InOnePlace, NotAnswered, NotQueued
<1> QED
  BY <1>1 DEF OnceInv

(* A message that is in none of the places takes one of them or none.      *)
LEMMA TakesNoPlace ==
    ASSUME IInv, IInv', NEW c \in Conns, InOnePlace(c), sent'[c] >= sent[c],
           queue'[c] = queue[c], qstart'[c] = qstart[c], out'[c] = out[c],
           LookupsOf(c)' \subseteq LookupsOf(c)
    PROVE  InOnePlace(c)'
<1>1. Positions(c)' = Positions(c)
  BY DEF Positions
<1>2. sent[c] \in Int /\ sent'[c] \in Int /\ \A w \in LookupsOf(c) : w.m.msg \in Int
  BY NumbersAreInts DEF IInv, Types
<1>3. \A i \in Positions(c) : queue[c][i].msg \in Int
  BY NumbersAreInts
<1>4. \A i \in 1 .. Len(out[c]) : out[c][i] \in Int
  BY DEF InOnePlace
<1> QED
  BY <1>1, <1>2, <1>3, <1>4 DEF InOnePlace, NotAnswered, NotQueued

LEMMA TakesAnswer ==
    ASSUME IInv, IInv', NEW c \in Conns, InOnePlace(c), sent'[c] >= sent[c],
           NEW n \in Int, n <= sent'[c], NotAnswered(c, n), NotQueued(c, n),
           queue'[c] = queue[c], qstart'[c] = qstart[c], out'[c] = out[c] \o <<n>>,
           LookupsOf(c)' \subseteq LookupsOf(c), \A w \in LookupsOf(c)' : w.m.msg # n
    PROVE  InOnePlace(c)'
<1>1. Positions(c)' = Positions(c)
  BY DEF Positions
<1>2. sent[c] \in Int /\ sent'[c] \in Int /\ \A w \in LookupsOf(c) : w.m.msg \in Int
  BY NumbersAreInts DEF IInv, Types
<1>3. \A i \in Positions(c) : queue[c][i].msg \in Int
  BY NumbersAreInts
<1>4. out[c] \in Seq(Int) /\ Len(out[c]) \in Nat /\ \A i \in 1 .. Len(out[c]) : out[c][i] \in Int
  BY DEF InOnePlace
<1>5. /\ out'[c] \in Seq(Int) /\ Len(out'[c]) = Len(out[c]) + 1
      /\ \A i \in 1 .. Len(out[c]) : out'[c][i] = out[c][i]
      /\ out'[c][Len(out[c]) + 1] = n
  <2>1. out'[c] = Append(out[c], n)
    BY <1>4
  <2> QED
    BY <1>4, <2>1
<1>6. \A i \in 1 .. Len(out'[c]) : i \in 1 .. Len(out[c]) \/ i = Len(out[c]) + 1
  BY <1>4, <1>5
<1>7. /\ \A i, j \in 1 .. Len(out'[c]) : out'[c][i] = out'[c][j] => i = j
      /\ \A i \in 1 .. Len(out'[c]) : out'[c][i] <= sent'[c]
  <2>1. \A i \in 1 .. Len(out[c]) : out[c][i] # n /\ out[c][i] <= sent[c]
    BY DEF InOnePlace, NotAnswered
  <2>2. ASSUME NEW i \in 1 .. Len(out'[c]), NEW j \in 1 .. Len(out'[c]), out'[c][i] = out'[c][j]
        PROVE  i = j
    <3>1. CASE i \in 1 .. Len(out[c]) /\ j \in 1 .. Len(out[c])
      <4>1. out[c][i] = out[c][j]
        BY <1>5, <2>2, <3>1
      <4> QED
        BY <3>1, <4>1 DEF InOnePlace
    <3>2. CASE i \in 1 .. Len(out[c]) /\ j = Len(out[c]) + 1
      BY <1>5, <2>1, <2>2, <3>2
    <3>3. CASE i = Len(out[c]) + 1 /\ j \in 1 .. Len(out[c])
      BY <1>5, <2>1, <2>2, <3>3
    <3> QED
      BY <1>6, <3>1, <3>2, <3>3
  <2>3. ASSUME NEW i \in 1 .. Len(out'[c]) PROVE out'[c][i] <= sent'[c]
    <3>1. CASE i \in 1 .. Len(out[c])
      <4>1. out'[c][i] = out[c][i] /\ out[c][i] <= sent[c] /\ out[c][i] \in Int
        BY <1>4, <1>5, <2>1, <3>1
      <4> QED
        BY <1>2, <4>1
    <3>2. CASE i = Len(out[c]) + 1
      BY <1>5, <3>2
    <3> QED
      BY <1>6, <3>1, <3>2
  <2> QED
    BY <2>2, <2>3
<1>8. ASSUME NEW k, NotAnswered(c, k), k # n PROVE NotAnswered(c, k)'
  BY <1>5, <1>6, <1>8 DEF NotAnswered
<1>9. ASSUME NEW i \in Positions(c)
      PROVE  queue'[c][i].msg <= sent'[c] /\ NotAnswered(c, queue[c][i].msg)'
  <2>1. NotAnswered(c, queue[c][i].msg) /\ queue[c][i].msg # n /\ queue[c][i].msg <= sent[c]
    BY DEF InOnePlace, NotQueued
  <2>2. NotAnswered(c, queue[c][i].msg)'
    BY <1>8, <2>1
  <2> QED
    BY <1>2, <1>3, <2>1, <2>2
<1>10. ASSUME NEW w \in LookupsOf(c)'
       PROVE  w.m.msg <= sent'[c] /\ NotAnswered(c, w.m.msg)' /\ NotQueued(c, w.m.msg)'
  <2>1. NotAnswered(c, w.m.msg) /\ w.m.msg # n /\ NotQueued(c, w.m.msg) /\ w.m.msg <= sent[c]
    BY DEF InOnePlace
  <2>2. NotQueued(c, w.m.msg)'
    BY <1>1, <2>1 DEF NotQueued
  <2> QED
    BY <1>2, <1>8, <2>1, <2>2
<1>11. /\ \A i, j \in Positions(c)' : queue'[c][i].msg = queue'[c][j].msg => i = j
       /\ \A v, w \in LookupsOf(c)' : v.m.msg = w.m.msg => v = w
  BY <1>1 DEF InOnePlace
<1> QED
  BY <1>1, <1>5, <1>7, <1>9, <1>10, <1>11 DEF InOnePlace

LEMMA TakesTurn ==
    ASSUME IInv, IInv', NEW c \in Conns, InOnePlace(c), sent'[c] >= sent[c],
           NEW n \in Int, n <= sent'[c], NotAnswered(c, n), NotQueued(c, n),
           NEW entry \in Entries, PipelineQueue(c, entry), entry.msg = n, out'[c] = out[c],
           LookupsOf(c)' \subseteq LookupsOf(c), \A w \in LookupsOf(c)' : w.m.msg # n
    PROVE  InOnePlace(c)'
<1> DEFINE k == Len(queue'[c])
<1>1. /\ k \in Positions(c)' /\ queue'[c][k] = entry
      /\ \A i \in Positions(c)' \ {k} : i \in Positions(c) /\ queue'[c][i] = queue[c][i]
  BY QueueGrows DEF IInv
<1> HIDE DEF k
<1>2. sent[c] \in Int /\ sent'[c] \in Int /\ \A w \in LookupsOf(c) : w.m.msg \in Int
  BY NumbersAreInts DEF IInv, Types
<1>3. \A i \in Positions(c) : queue[c][i].msg \in Int
  BY NumbersAreInts
<1>4. \A i \in 1 .. Len(out[c]) : out[c][i] \in Int
  BY DEF InOnePlace
<1>5. \A m : NotAnswered(c, m)' <=> NotAnswered(c, m)
  BY DEF NotAnswered
<1>6. ASSUME NEW m, NotQueued(c, m), m # n PROVE NotQueued(c, m)'
  <2>1. ASSUME NEW i \in Positions(c)' PROVE queue'[c][i].msg # m
    <3>1. CASE i = k
      BY <1>1, <1>6, <3>1
    <3>2. CASE i # k
      BY <1>1, <1>6, <3>2 DEF NotQueued
    <3> QED
      BY <3>1, <3>2
  <2> QED
    BY <2>1 DEF NotQueued
<1>7. ASSUME NEW i \in Positions(c)', NEW j \in Positions(c)', queue'[c][i].msg = queue'[c][j].msg
      PROVE  i = j
  <2>1. i # k => i \in Positions(c) /\ queue'[c][i] = queue[c][i] /\ queue[c][i].msg # n
    BY <1>1 DEF NotQueued
  <2>2. j # k => j \in Positions(c) /\ queue'[c][j] = queue[c][j] /\ queue[c][j].msg # n
    BY <1>1 DEF NotQueued
  <2> QED
    BY <1>1, <1>7, <2>1, <2>2 DEF InOnePlace
<1>8. ASSUME NEW i \in Positions(c)'
      PROVE  queue'[c][i].msg <= sent'[c] /\ NotAnswered(c, queue[c][i].msg)'
  <2>1. CASE i = k
    BY <1>1, <1>5, <2>1
  <2>2. CASE i # k
    <3>1. i \in Positions(c) /\ queue'[c][i] = queue[c][i]
      BY <1>1, <2>2
    <3>2. queue[c][i].msg <= sent[c] /\ NotAnswered(c, queue[c][i].msg)
      BY <3>1 DEF InOnePlace
    <3> QED
      BY <1>2, <1>3, <1>5, <3>1, <3>2
  <2> QED
    BY <2>1, <2>2
<1>9. ASSUME NEW w \in LookupsOf(c)'
      PROVE  w.m.msg <= sent'[c] /\ NotAnswered(c, w.m.msg)' /\ NotQueued(c, w.m.msg)'
  <2>1. NotAnswered(c, w.m.msg) /\ w.m.msg # n /\ NotQueued(c, w.m.msg) /\ w.m.msg <= sent[c]
    BY DEF InOnePlace
  <2> QED
    BY <1>2, <1>5, <1>6, <2>1
<1>10. /\ out'[c] \in Seq(Int)
       /\ \A i, j \in 1 .. Len(out'[c]) : out'[c][i] = out'[c][j] => i = j
       /\ \A i \in 1 .. Len(out'[c]) : out'[c][i] <= sent'[c]
       /\ \A v, w \in LookupsOf(c)' : v.m.msg = w.m.msg => v = w
  BY <1>2, <1>4 DEF InOnePlace
<1> QED
  BY <1>7, <1>8, <1>9, <1>10 DEF InOnePlace

LEMMA TakesLookup ==
    ASSUME IInv, IInv', NEW c \in Conns, InOnePlace(c), sent'[c] >= sent[c],
           NEW w, w.m.msg \in Int, w.m.msg <= sent'[c], NotAnswered(c, w.m.msg), NotQueued(c, w.m.msg),
           queue'[c] = queue[c], qstart'[c] = qstart[c], out'[c] = out[c],
           LookupsOf(c)' = LookupsOf(c) \cup {w}, \A v \in LookupsOf(c) : v.m.msg # w.m.msg
    PROVE  InOnePlace(c)'
<1>1. Positions(c)' = Positions(c)
  BY DEF Positions
<1>2. sent[c] \in Int /\ sent'[c] \in Int /\ \A v \in LookupsOf(c) : v.m.msg \in Int
  BY NumbersAreInts DEF IInv, Types
<1>3. \A i \in Positions(c) : queue[c][i].msg \in Int
  BY NumbersAreInts
<1>4. \A i \in 1 .. Len(out[c]) : out[c][i] \in Int
  BY DEF InOnePlace
<1>5. \A m : (NotAnswered(c, m)' <=> NotAnswered(c, m)) /\ (NotQueued(c, m)' <=> NotQueued(c, m))
  BY <1>1 DEF NotAnswered, NotQueued
<1>6. ASSUME NEW v \in LookupsOf(c)'
      PROVE  v.m.msg <= sent'[c] /\ NotAnswered(c, v.m.msg)' /\ NotQueued(c, v.m.msg)'
  <2>1. CASE v = w
    BY <1>5, <2>1
  <2>2. CASE v # w
    <3>1. v \in LookupsOf(c)
      BY <2>2
    <3>2. v.m.msg <= sent[c] /\ NotAnswered(c, v.m.msg) /\ NotQueued(c, v.m.msg)
      BY <3>1 DEF InOnePlace
    <3> QED
      BY <1>2, <1>5, <3>1, <3>2
  <2> QED
    BY <2>1, <2>2
<1>7. \A u, v \in LookupsOf(c)' : u.m.msg = v.m.msg => u = v
  BY DEF InOnePlace
<1> QED
  BY <1>1, <1>2, <1>3, <1>4, <1>5, <1>6, <1>7 DEF InOnePlace

(* What a request that is handled does with its answer.                    *)
LEMMA HandleAnswers ==
    ASSUME NEW c, NEW req \in Int, NEW m \in Messages, NEW route,
           NEW result \in {"text", "raise"}, NEW ln, NEW hd, NEW id, NEW failure,
           HandleRequest(c, req, m, route, result, ln, hd, id, failure)
    PROVE  \/ Write(c, <<m.msg>>) /\ UNCHANGED <<queue, qstart>>
           \/ UNCHANGED out /\ \E entry \in Entries : PipelineQueue(c, entry) /\ entry.msg = m.msg
<1> DEFINE entry == [msg |-> m.msg, req |-> req, task |-> IsCoro(route),
                     result |-> IF IsCoro(route) THEN "pending" ELSE result]
<1>1. entry \in Entries /\ entry.msg = m.msg
  <2>1. (IF IsCoro(route) THEN "pending" ELSE result) \in {"pending", "cancelling", "text", "raise"}
    OBVIOUS
  <2>2. IsCoro(route) \in BOOLEAN /\ m.msg \in Int
    BY DEF IsCoro, Messages
  <2> QED
    BY <2>1, <2>2 DEF Entries
<1>2. \/ Write(c, <<m.msg>>) /\ UNCHANGED <<queue, qstart>>
      \/ UNCHANGED out /\ PipelineQueue(c, entry)
  BY DEF HandleRequest
<1> HIDE DEF entry
<1> QED
  BY <1>1, <1>2

(* ... for a message that was in no place, or only in a lookup now over.   *)
LEMMA HandledOnce ==
    ASSUME IInv, IInv', OnceInv, NEW c \in Conns, NEW req \in Int, NEW m \in Messages, NEW route,
           NEW result \in {"text", "raise"}, NEW ln, NEW hd, NEW id, NEW failure,
           HandleRequest(c, req, m, route, result, ln, hd, id, failure),
           m.msg <= sent'[c], NotAnswered(c, m.msg), NotQueued(c, m.msg),
           \A w \in LookupsOf(c)' : w.m.msg # m.msg,
           LookupsOf(c)' \subseteq LookupsOf(c),
           \A d \in Conns \ {c} : LookupsOf(d)' = LookupsOf(d) /\ sent'[d] = sent[d],
           sent'[c] >= sent[c]
    PROVE  OnceInv'
<1>1. InOnePlace(c) /\ m.msg \in Int /\ DOMAIN out = Conns
  BY DEF OnceInv, Messages
<1>2. CASE Write(c, <<m.msg>>) /\ UNCHANGED <<queue, qstart>>
  <2>1. /\ DOMAIN out' = Conns /\ \A d \in Conns \ {c} : out'[d] = out[d]
        /\ out'[c] = out[c] \/ out'[c] = out[c] \o <<m.msg>>
    BY <1>1, <1>2 DEF Write
  <2>2. InOnePlace(c)'
    <3>1. CASE out'[c] = out[c]
      BY <1>1, <1>2, <3>1, TakesNoPlace
    <3>2. CASE out'[c] = out[c] \o <<m.msg>>
      BY <1>1, <1>2, <3>2, TakesAnswer
    <3> QED
      BY <2>1, <3>1, <3>2
  <2> QED
    BY <1>2, <2>1, <2>2, OnceOfOne
<1>3. ASSUME NEW entry \in Entries, PipelineQueue(c, entry), entry.msg = m.msg, UNCHANGED out
      PROVE  OnceInv'
  <2>1. InOnePlace(c)'
    BY <1>1, <1>3, TakesTurn
  <2>2. \A d \in Conns \ {c} : queue'[d] = queue[d] /\ qstart'[d] = qstart[d]
    BY <1>3, QueueGrows DEF IInv
  <2> QED
    BY <1>1, <1>3, <2>1, <2>2, OnceOfOne
<1> QED
  BY <1>2, <1>3, HandleAnswers

-----------------------------------------------------------------------------
LEMMA ReceiveOnce ==
    ASSUME NoObjects, IInv, IInv', OnceInv, NEW c \in Conns, Receive(c)
    PROVE  OnceInv'
<1>1. PICK route \in Routes, cookie \in BOOLEAN, up \in BOOLEAN, more \in BOOLEAN :
          \E result \in ResultsOf(route) : DataReceived(c, route, cookie, up, result, more)
  BY DEF Receive
<1>2. PICK result \in ResultsOf(route) : DataReceived(c, route, cookie, up, result, more)
  BY <1>1
<1> DEFINE m == [conn |-> c, msg |-> sent[c] + 1, cookie |-> cookie]
           Waits(w) == w.m = m /\ waiting' = waiting \cup {w}
<1>3. result \in {"text", "raise"}
  BY ConnectionAssumption DEF NoObjects, ResultsOf, Results
<1>4. /\ InOnePlace(c) /\ sent[c] \in Int /\ sent \in [Conns -> Int] /\ request[c] \in Int
      /\ DOMAIN out = Conns /\ out[c] \in Seq(Int)
  BY DEF OnceInv, InOnePlace, IInv, Types
<1>5. m \in Messages /\ m.msg = sent[c] + 1 /\ m.conn = c
  BY <1>4 DEF Messages
<1>6. sent' = [sent EXCEPT ![c] = @ + 1]
  BY <1>2 DEF DataReceived
<1>7. sent'[c] = sent[c] + 1 /\ \A d \in Conns \ {c} : sent'[d] = sent[d]
  BY <1>4, <1>6
<1>8. m.msg \in Int /\ m.msg <= sent'[c] /\ sent'[c] >= sent[c]
  BY <1>4, <1>5, <1>7
<1>9. /\ NotAnswered(c, sent[c] + 1) /\ NotQueued(c, sent[c] + 1)
      /\ \A v \in LookupsOf(c) : v.m.msg # sent[c] + 1
  <2>1. \A i \in 1 .. Len(out[c]) : out[c][i] \in Int /\ out[c][i] <= sent[c]
    BY <1>4 DEF InOnePlace
  <2>2. \A i \in Positions(c) : queue[c][i].msg \in Int /\ queue[c][i].msg <= sent[c]
    BY <1>4, NumbersAreInts DEF InOnePlace
  <2>3. \A v \in LookupsOf(c) : v.m.msg \in Int /\ v.m.msg <= sent[c]
    BY <1>4, NumbersAreInts DEF InOnePlace
  <2> QED
    BY <1>4, <2>1, <2>2, <2>3 DEF NotAnswered, NotQueued
<1>10. \/ Write(c, <<m.msg>>) /\ UNCHANGED <<queue, qstart, waiting>>
       \/ UNCHANGED <<queue, qstart, waiting, out>>
       \/ (\E w : Waits(w)) /\ UNCHANGED <<queue, qstart, out>>
       \/ /\ UNCHANGED waiting
          /\ \E req \in {request[c]} : \E ln, hd, id, failure :
                HandleRequest(c, req, m, route, result, ln, hd, id, failure)
  <2>1. \A req, owner : AwaitSession(c, m, req, route, owner) => \E w : Waits(w)
    <3> SUFFICES ASSUME NEW req, NEW owner, AwaitSession(c, m, req, route, owner)
                 PROVE  \E w : Waits(w)
      OBVIOUS
    <3>1. Waits([m |-> m, req |-> req, route |-> route, session |-> owner])
      BY DEF AwaitSession
    <3> QED
      BY <3>1
  <2> HIDE DEF Waits
  <2> QED
    BY <1>2, <2>1 DEF DataReceived
<1> HIDE DEF m
<1>11. ASSUME UNCHANGED waiting PROVE \A d \in Conns : LookupsOf(d)' = LookupsOf(d)
  BY <1>11 DEF LookupsOf
<1>12. CASE Write(c, <<m.msg>>) /\ UNCHANGED <<queue, qstart, waiting>>
  <2>1. /\ DOMAIN out' = Conns /\ \A d \in Conns \ {c} : out'[d] = out[d]
        /\ out'[c] = out[c] \/ out'[c] = out[c] \o <<m.msg>>
    BY <1>4, <1>12 DEF Write
  <2>2. InOnePlace(c)'
    <3>1. CASE out'[c] = out[c]
      BY <1>4, <1>8, <1>11, <1>12, <3>1, TakesNoPlace
    <3>2. CASE out'[c] = out[c] \o <<m.msg>>
      BY <1>4, <1>5, <1>8, <1>9, <1>11, <1>12, <3>2, TakesAnswer
    <3> QED
      BY <2>1, <3>1, <3>2
  <2> QED
    BY <1>7, <1>11, <1>12, <2>1, <2>2, OnceOfOne
<1>13. CASE UNCHANGED <<queue, qstart, waiting, out>>
  <2>1. InOnePlace(c)'
    BY <1>4, <1>8, <1>11, <1>13, TakesNoPlace
  <2> QED
    BY <1>4, <1>7, <1>11, <1>13, <2>1, OnceOfOne
<1>14. ASSUME NEW w, Waits(w), UNCHANGED <<queue, qstart, out>> PROVE OnceInv'
  <2>1. w.m = m /\ waiting' = waiting \cup {w}
    BY <1>14
  <2>2. LookupsOf(c)' = LookupsOf(c) \cup {w} /\ \A d \in Conns \ {c} : LookupsOf(d)' = LookupsOf(d)
    BY <1>5, <2>1 DEF LookupsOf
  <2>3. InOnePlace(c)'
    BY <1>4, <1>5, <1>8, <1>9, <1>14, <2>1, <2>2, TakesLookup
  <2> QED
    BY <1>4, <1>7, <1>14, <2>2, <2>3, OnceOfOne
<1>15. ASSUME UNCHANGED waiting, NEW req \in {request[c]}, NEW ln, NEW hd, NEW id, NEW failure,
              HandleRequest(c, req, m, route, result, ln, hd, id, failure)
       PROVE  OnceInv'
  <2>1. /\ \A d \in Conns : LookupsOf(d)' = LookupsOf(d)
        /\ NotAnswered(c, m.msg) /\ NotQueued(c, m.msg)
        /\ \A v \in LookupsOf(c)' : v.m.msg # m.msg
    BY <1>5, <1>9, <1>11, <1>15
  <2>2. req \in Int
    BY <1>4
  <2> QED
    BY <1>3, <1>5, <1>7, <1>8, <1>15, <2>1, <2>2, HandledOnce
<1> QED
  BY <1>10, <1>12, <1>13, <1>14, <1>15

LEMMA ReplyOnce ==
    ASSUME NoObjects, IInv, IInv', OnceInv, NEW w \in waiting, Reply(w)
    PROVE  OnceInv'
<1> DEFINE c == w.m.conn
<1>1. PICK result \in ResultsOf(w.route) : SessionReply(w, result)
  BY DEF Reply
<1>2. result \in {"text", "raise"}
  BY ConnectionAssumption DEF NoObjects, ResultsOf, Results
<1>3. c \in Conns /\ w.m \in Messages /\ w.m.msg \in Int /\ w.req \in Int /\ sent \in [Conns -> Int]
  BY DEF IInv, Types, IsLookup, Messages
<1>4. /\ waiting' = waiting \ {w} /\ UNCHANGED sent
      /\ \/ HandleRequest(c, w.req, w.m, w.route, result, lines, heads, sessions, <<w.m.msg>>)
         \/ UNCHANGED <<queue, qstart, out>>
  BY <1>1 DEF SessionReply
<1>5. w \in LookupsOf(c) /\ InOnePlace(c) /\ DOMAIN out = Conns
  BY <1>3 DEF LookupsOf, OnceInv
<1>6. /\ LookupsOf(c)' = LookupsOf(c) \ {w}
      /\ \A d \in Conns \ {c} : LookupsOf(d)' = LookupsOf(d)
  BY <1>4 DEF LookupsOf
<1> HIDE DEF c
<1>7. /\ w.m.msg <= sent'[c] /\ NotAnswered(c, w.m.msg) /\ NotQueued(c, w.m.msg)
      /\ \A v \in LookupsOf(c)' : v.m.msg # w.m.msg
  BY <1>4, <1>5, <1>6 DEF InOnePlace
<1>8. sent'[c] >= sent[c] /\ \A d \in Conns \ {c} : sent'[d] = sent[d]
  BY <1>3, <1>4
<1>9. CASE HandleRequest(c, w.req, w.m, w.route, result, lines, heads, sessions, <<w.m.msg>>)
  <2>1. LookupsOf(c)' \subseteq LookupsOf(c)
    BY <1>6
  <2> DEFINE m == w.m
             req == w.req
             failure == <<m.msg>>
  <2>2. /\ m \in Messages /\ m.msg \in Int /\ req \in Int
        /\ HandleRequest(c, req, m, w.route, result, lines, heads, sessions, failure)
        /\ m.msg <= sent'[c] /\ NotAnswered(c, m.msg) /\ NotQueued(c, m.msg)
        /\ \A v \in LookupsOf(c)' : v.m.msg # m.msg
        /\ failure = <<m.msg>>
    BY <1>3, <1>7, <1>9
  <2> HIDE DEF m, req, failure
  <2> QED
    BY <1>2, <1>3, <1>6, <1>8, <2>1, <2>2, HandledOnce
<1>10. CASE UNCHANGED <<queue, qstart, out>>
  <2>1. InOnePlace(c)'
    BY <1>3, <1>5, <1>6, <1>8, <1>10, TakesNoPlace
  <2> QED
    BY <1>3, <1>5, <1>6, <1>8, <1>10, <2>1, OnceOfOne
<1> QED
  BY <1>4, <1>9, <1>10

(* A step that leaves the places as they are.                              *)
LEMMA PlacesStay ==
    ASSUME IInv, OnceInv, NEW c \in Conns, SameShape(c),
           \A d \in Conns \ {c} : queue'[d] = queue[d] /\ qstart'[d] = qstart[d],
           UNCHANGED <<waiting, sent, out>>
    PROVE  OnceInv'
<1>1. Positions(c)' = Positions(c) /\ \A d \in Conns : LookupsOf(d)' = LookupsOf(d)
  BY DEF SameShape, Positions, LookupsOf
<1>2. \A i \in Positions(c) : queue'[c][i].msg = queue[c][i].msg
  BY DEF SameShape
<1>3. InOnePlace(c)'
  BY <1>1, <1>2 DEF OnceInv, InOnePlace, NotAnswered, NotQueued
<1> QED
  BY <1>1, <1>3, OnceOfOne DEF OnceInv

LEMMA TaskEndsOnce ==
    ASSUME IInv, IInv', OnceInv, NEW c \in Conns, TaskSettles(c) \/ ConnectionLost(c)
    PROVE  OnceInv'
<1>1. queue \in [Conns -> Seq(Entries)] /\ queue[c] \in Seq(Entries) /\ qstart[c] \in Nat
  BY DEF IInv, Types
<1>2. \A i \in 1 .. Len(queue[c]) : queue[c][i] \in Entries
  BY <1>1
<1>3. CASE TaskSettles(c)
  <2>1. PICK i \in DOMAIN queue[c], result \in Results : TaskEnds(c, i, result)
    BY <1>3 DEF TaskSettles
  <2>2. /\ queue' = [queue EXCEPT ![c] = [queue[c] EXCEPT ![i].result = result]]
        /\ UNCHANGED <<qstart, waiting, sent, out>>
    BY <2>1 DEF TaskEnds
  <2>3. queue'[c] = [queue[c] EXCEPT ![i].result = result] /\ \A d \in Conns \ {c} : queue'[d] = queue[d]
    BY <1>1, <2>2
  <2>4. Len(queue'[c]) = Len(queue[c])
    BY <1>1, <2>3
  <2>5. \A k \in 1 .. Len(queue[c]) : /\ queue'[c][k].req = queue[c][k].req
                                     /\ queue'[c][k].msg = queue[c][k].msg
    BY <1>1, <1>2, <2>3 DEF Entries
  <2>6. SameShape(c)
    BY <1>1, <2>2, <2>4, <2>5 DEF SameShape, Positions
  <2> QED
    BY <2>2, <2>3, <2>6, PlacesStay
<1>4. CASE ConnectionLost(c)
  <2>1. queue' = [queue EXCEPT ![c] = PipelineCancel(c)] /\ UNCHANGED <<qstart, waiting, sent, out>>
    BY <1>4 DEF ConnectionLost
  <2>2. queue'[c] = PipelineCancel(c) /\ \A d \in Conns \ {c} : queue'[d] = queue[d]
    BY <1>1, <2>1
  <2>3. DOMAIN queue'[c] = 1 .. Len(queue[c]) /\ queue'[c] \in Seq(Entries)
    <3>1. queue' \in [Conns -> Seq(Entries)]
      BY DEF IInv, Types
    <3>2. DOMAIN queue'[c] = DOMAIN queue[c]
      BY <2>2 DEF PipelineCancel
    <3> QED
      BY <1>1, <3>1, <3>2
  <2>4. Len(queue'[c]) = Len(queue[c])
    BY <1>1, <2>3
  <2>5. \A k \in 1 .. Len(queue[c]) : /\ queue'[c][k].req = queue[c][k].req
                                     /\ queue'[c][k].msg = queue[c][k].msg
    BY <1>1, <1>2, <2>2 DEF PipelineCancel, Entries
  <2>6. SameShape(c)
    BY <1>1, <2>1, <2>4, <2>5 DEF SameShape, Positions
  <2> QED
    BY <2>1, <2>2, <2>6, PlacesStay
<1> QED
  BY <1>3, <1>4

(* What goes out was in the queue, and in no other place.                  *)
LEMMA TaskDoneOnce ==
    ASSUME IInv, IInv', OnceInv, NEW c \in Conns, TaskDone(c)
    PROVE  OnceInv'
<1> DEFINE q     == queue[c]
           ready == ReadyEntries(c)
           n     == Cardinality(ready)
           last  == qstart[c] + n
           ns    == [k \in 1 .. n |-> q[qstart[c] + k].msg]
<1>1. /\ Write(c, ns)
      /\ qstart' = [qstart EXCEPT ![c] = IF ready # {} /\ q[last].result = "object" THEN @ ELSE last]
      /\ UNCHANGED <<queue, waiting, sent>>
      /\ InOnePlace(c) /\ qstart \in [Conns -> Nat] /\ qstart[c] \in Nat /\ Len(q) \in Nat
      /\ q \in Seq(Entries) /\ qstart[c] <= Len(q) /\ DOMAIN out = Conns
  BY DEF TaskDone, OnceInv, IInv, Types
<1>2. ready = qstart[c] + 1 .. last /\ last \in qstart[c] .. Len(q)
      /\ (ready # {} => q[last].result # "object")
  BY ReadyPrefix
<1> HIDE DEF ready
<1>3. qstart'[c] = last /\ \A d \in Conns \ {c} : qstart'[d] = qstart[d]
  BY <1>1, <1>2
<1>4. n \in Nat
  <2>1. IsFiniteSet(ready)
    BY <1>1, <1>2, FS_Interval
  <2> QED
    BY <2>1, FS_CardinalityType
<1> HIDE DEF n
<1>5. \A d \in Conns : LookupsOf(d)' = LookupsOf(d)
  BY <1>1 DEF LookupsOf
<1>6. Positions(c)' = last + 1 .. Len(q) /\ \A i \in last + 1 .. Len(q) : i \in Positions(c)
  BY <1>1, <1>3, <1>4 DEF Positions
<1>7. \A i \in Positions(c)' : i \in Positions(c) /\ queue'[c][i].msg = q[i].msg
  BY <1>1, <1>6
<1>8. CASE phase[c] # "open"
  <2>1. DOMAIN out' = Conns /\ \A d \in Conns : out'[d] = out[d]
    BY <1>1, <1>8 DEF Write
  <2>2. InOnePlace(c)'
    <3>1. out'[c] = out[c] /\ sent'[c] = sent[c] /\ queue' = queue /\ LookupsOf(c)' = LookupsOf(c)
      BY <1>1, <1>5, <2>1
    <3>2. \A k : NotAnswered(c, k) => NotAnswered(c, k)'
      BY <3>1 DEF NotAnswered
    <3>3. \A k : NotQueued(c, k) => NotQueued(c, k)'
      BY <1>7, <3>1 DEF NotQueued
    <3>4. \A i, j \in Positions(c)' : queue'[c][i].msg = queue'[c][j].msg => i = j
      BY <1>1, <1>7, <3>1 DEF InOnePlace
    <3>5. ASSUME NEW i \in Positions(c)'
          PROVE  queue'[c][i].msg <= sent'[c] /\ NotAnswered(c, queue[c][i].msg)'
      <4>1. i \in Positions(c) /\ queue'[c][i].msg = queue[c][i].msg
        BY <1>7
      <4>2. queue[c][i].msg <= sent[c] /\ NotAnswered(c, queue[c][i].msg)
        BY <1>1, <4>1 DEF InOnePlace
      <4> QED
        BY <3>1, <4>1, <4>2 DEF NotAnswered
    <3>6. /\ out'[c] \in Seq(Int)
          /\ \A i, j \in 1 .. Len(out'[c]) : out'[c][i] = out'[c][j] => i = j
          /\ \A i \in 1 .. Len(out'[c]) : out'[c][i] <= sent'[c]
      BY <1>1, <3>1 DEF InOnePlace
    <3>7. /\ \A v, w \in LookupsOf(c)' : v.m.msg = w.m.msg => v = w
          /\ \A w \in LookupsOf(c)' : w.m.msg <= sent'[c] /\ NotAnswered(c, w.m.msg)' /\ NotQueued(c, w.m.msg)'
      BY <1>1, <3>1, <3>2, <3>3 DEF InOnePlace
    <3> QED
      BY <3>4, <3>5, <3>6, <3>7 DEF InOnePlace
  <2> QED
    BY <1>1, <1>3, <1>5, <2>1, <2>2, OnceOfOne
<1>9. CASE phase[c] = "open"
  <2>1. out'[c] = out[c] \o ns /\ DOMAIN out' = Conns /\ \A d \in Conns \ {c} : out'[d] = out[d]
    BY <1>1, <1>9 DEF Write
  <2>2. /\ out[c] \in Seq(Int) /\ Len(out[c]) \in Nat
        /\ \A i, j \in 1 .. Len(out[c]) : out[c][i] = out[c][j] => i = j
        /\ \A i \in 1 .. Len(out[c]) : out[c][i] <= sent[c]
    BY <1>1 DEF InOnePlace
  <2>3. \A k \in 1 .. n : /\ qstart[c] + k \in Positions(c) /\ qstart[c] + k <= last
                          /\ ns[k] = q[qstart[c] + k].msg
    BY <1>1, <1>2, <1>4 DEF Positions
  <2>4. ns \in Seq(Int) /\ Len(ns) = n
    <3>1. \A k \in 1 .. n : ns[k] \in Int
      BY <2>3, NumbersAreInts
    <3>2. ns \in [1 .. n -> Int]
      BY <3>1
    <3> QED
      BY <1>4, <3>2
  <2> HIDE DEF ns
  <2>5. /\ out'[c] \in Seq(Int) /\ Len(out'[c]) = Len(out[c]) + n
        /\ \A i \in 1 .. Len(out[c]) + n :
               out'[c][i] = IF i <= Len(out[c]) THEN out[c][i] ELSE ns[i - Len(out[c])]
    <3>1. /\ out[c] \o ns \in Seq(Int) /\ Len(out[c] \o ns) = Len(out[c]) + Len(ns)
          /\ \A i \in 1 .. Len(out[c]) + Len(ns) :
                 (out[c] \o ns)[i] = IF i <= Len(out[c]) THEN out[c][i] ELSE ns[i - Len(out[c])]
      <4>1. out[c] \in Seq(Int)
        BY <2>2
      <4>2. ns \in Seq(Int)
        BY <2>4
      <4> QED
        BY ONLY <4>1, <4>2, ConcatProperties
    <3> QED
      BY <2>1, <2>4, <3>1
  (* Each of them is an old answer, or was at the head of the queue.       *)
  <2>6. ASSUME NEW i \in 1 .. Len(out'[c])
        PROVE  \/ i \in 1 .. Len(out[c]) /\ out'[c][i] = out[c][i]
               \/ /\ i > Len(out[c]) /\ qstart[c] + (i - Len(out[c])) \in Positions(c)
                  /\ qstart[c] + (i - Len(out[c])) <= last
                  /\ out'[c][i] = q[qstart[c] + (i - Len(out[c]))].msg
    <3>1. CASE i <= Len(out[c])
      <4>1. Len(out[c]) \in Nat /\ Len(out'[c]) = Len(out[c]) + n /\ n \in Int
        BY <1>4, <2>2, <2>5
      <4>2. i \in 1 .. Len(out[c]) + n /\ i \in 1 .. Len(out[c])
        BY <3>1, <4>1
      <4>3. out'[c][i] = out[c][i]
        BY <2>5, <3>1, <4>2
      <4> QED
        BY <4>2, <4>3
    <3>2. CASE i > Len(out[c])
      <4>1. i - Len(out[c]) \in 1 .. n /\ i \in 1 .. Len(out[c]) + n
        BY <1>4, <2>2, <2>5, <3>2
      <4>2. out'[c][i] = ns[i - Len(out[c])]
        BY <2>2, <2>5, <3>2, <4>1
      <4> QED
        BY <2>3, <3>2, <4>1, <4>2
    <3> QED
      BY <2>2, <2>5, <3>1, <3>2
  <2>7. \A i, j \in Positions(c) : q[i].msg = q[j].msg => i = j
    BY <1>1 DEF InOnePlace
  <2>8. \A i \in Positions(c) : q[i].msg <= sent[c] /\ \A j \in 1 .. Len(out[c]) : out[c][j] # q[i].msg
    BY <1>1 DEF InOnePlace, NotAnswered
  <2>9. ASSUME NEW i \in 1 .. Len(out'[c]), NEW j \in 1 .. Len(out'[c]), out'[c][i] = out'[c][j]
        PROVE  i = j
    <3>1. CASE i \in 1 .. Len(out[c]) /\ j \in 1 .. Len(out[c])
      <4>1. out'[c][i] = out[c][i] /\ out'[c][j] = out[c][j]
        BY <2>2, <2>6, <3>1
      <4> QED
        BY <2>2, <2>9, <3>1, <4>1
    <3>2. CASE i \in 1 .. Len(out[c]) /\ j \notin 1 .. Len(out[c])
      <4>1. out'[c][i] = out[c][i]
        BY <2>2, <2>6, <3>2
      <4>2. \E k \in Positions(c) : out'[c][j] = q[k].msg
        BY <2>6, <3>2
      <4> QED
        BY <2>8, <2>9, <3>2, <4>1, <4>2
    <3>3. CASE i \notin 1 .. Len(out[c]) /\ j \in 1 .. Len(out[c])
      <4>1. out'[c][j] = out[c][j]
        BY <2>2, <2>6, <3>3
      <4>2. \E k \in Positions(c) : out'[c][i] = q[k].msg
        BY <2>6, <3>3
      <4> QED
        BY <2>8, <2>9, <3>3, <4>1, <4>2
    <3>4. CASE i \notin 1 .. Len(out[c]) /\ j \notin 1 .. Len(out[c])
      <4>1. qstart[c] + (i - Len(out[c])) = qstart[c] + (j - Len(out[c]))
        BY <2>6, <2>7, <2>9, <3>4
      <4> QED
        BY <1>1, <2>2, <4>1
    <3> QED
      BY <3>1, <3>2, <3>3, <3>4
  <2>10. ASSUME NEW i \in 1 .. Len(out'[c]) PROVE out'[c][i] <= sent'[c]
    <3>1. sent'[c] = sent[c]
      BY <1>1
    <3> QED
      BY <2>2, <2>6, <2>8, <3>1
  (* What stays in the queue, or waits for its session, did not go out.    *)
  <2>11. ASSUME NEW x, NotAnswered(c, x), \A i \in Positions(c) : i <= last => q[i].msg # x
         PROVE  NotAnswered(c, x)'
    <3>1. ASSUME NEW i \in 1 .. Len(out'[c]) PROVE out'[c][i] # x
      BY <2>6, <2>11 DEF NotAnswered
    <3> QED
      BY <3>1 DEF NotAnswered
  <2>12. ASSUME NEW i \in Positions(c)' PROVE NotAnswered(c, q[i].msg)' /\ q[i].msg <= sent[c]
    <3>1. i \in Positions(c) /\ i > last
      BY <1>1, <1>4, <1>6
    <3>2. NotAnswered(c, q[i].msg) /\ q[i].msg <= sent[c]
      BY <1>1, <3>1 DEF InOnePlace
    <3>3. \A j \in Positions(c) : j <= last => q[j].msg # q[i].msg
      <4>1. last \in Int
        BY <1>1, <1>4
      <4> QED
        BY <2>7, <3>1, <4>1 DEF Positions
    <3>4. NotAnswered(c, queue[c][i].msg)'
      <4>1. ASSUME NEW x, x = q[i].msg PROVE NotAnswered(c, x)'
        BY <2>11, <3>2, <3>3, <4>1
      <4> QED
        BY <1>1, <4>1
    <3> QED
      BY <3>2, <3>4
  <2>13. ASSUME NEW w \in LookupsOf(c)'
         PROVE  w.m.msg <= sent'[c] /\ NotAnswered(c, w.m.msg)' /\ NotQueued(c, w.m.msg)'
    <3>1. w.m.msg <= sent[c] /\ NotAnswered(c, w.m.msg) /\ NotQueued(c, w.m.msg)
      BY <1>1, <1>5 DEF InOnePlace
    <3>2. NotQueued(c, w.m.msg)'
      BY <1>7, <3>1 DEF NotQueued
    <3>3. NotAnswered(c, w.m.msg)'
      BY <2>11, <3>1 DEF NotQueued
    <3> QED
      BY <1>1, <3>1, <3>2, <3>3
  <2>14. /\ \A i, j \in Positions(c)' : queue'[c][i].msg = queue'[c][j].msg => i = j
         /\ \A v, w \in LookupsOf(c)' : v.m.msg = w.m.msg => v = w
    BY <1>1, <1>5, <1>7, <2>7 DEF InOnePlace
  <2>15. \A i \in Positions(c)' : queue'[c][i].msg <= sent'[c] /\ NotAnswered(c, queue[c][i].msg)'
    BY <1>1, <2>12
  <2>16. InOnePlace(c)'
    BY <2>5, <2>9, <2>10, <2>13, <2>14, <2>15 DEF InOnePlace
  <2> QED
    BY <1>1, <1>3, <1>5, <2>1, <2>16, OnceOfOne
<1> QED
  BY <1>8, <1>9

LEMMA NextOnce == NoObjects /\ IInv /\ IInv' /\ OnceInv /\ [Next]_vars => OnceInv'
<1> SUFFICES ASSUME NoObjects, IInv, IInv', OnceInv, [Next]_vars PROVE OnceInv'
  OBVIOUS
<1>1. ASSUME NEW c \in Conns, ProtocolInit(c) \/ ConnectionMade(c) PROVE OnceInv'
  <2>1. UNCHANGED <<queue, qstart, waiting, sent, out>>
    BY <1>1 DEF ProtocolInit, ConnectionMade
  <2> QED
    BY <2>1, PlacesStay DEF SameShape
<1>2. ASSUME NEW c \in Conns,
             Receive(c) \/ TaskSettles(c) \/ ConnectionLost(c) \/ TaskDone(c)
      PROVE  OnceInv'
  BY <1>2, ReceiveOnce, TaskEndsOnce, TaskDoneOnce
<1>3. ASSUME NEW w \in waiting, Reply(w) PROVE OnceInv'
  BY <1>3, ReplyOnce
<1>4. CASE UNCHANGED vars
  <2>1. UNCHANGED <<queue, qstart, waiting, sent, out>>
    BY <1>4 DEF vars
  <2> QED
    BY <2>1 DEF OnceInv, InOnePlace, NotAnswered, NotQueued, Positions, LookupsOf
<1> QED
  BY ONLY <1>1, <1>2, <1>3, <1>4, [Next]_vars DEF Next

(* A request is answered at most once, whichever routes its client asks    *)
(* for, in one buffer or many: also one that waits for a session, is       *)
(* overtaken by a cached response or was answered with an error.           *)
THEOREM AnsweredOnceAlways == ASSUME NoObjects PROVE Spec => []AnsweredOnce
<1>1. Init => OnceInv
  BY DEF Init, OnceInv, InOnePlace, Positions, LookupsOf
<1>2. Spec => []IInv
  BY Invariance
<1>3. OnceInv => AnsweredOnce
  <2> SUFFICES ASSUME OnceInv, NEW c \in Conns, NEW i \in DOMAIN out[c], NEW j \in DOMAIN out[c], i # j
               PROVE  out[c][i] # out[c][j]
    BY DEF AnsweredOnce
  <2>1. InOnePlace(c)
    BY DEF OnceInv
  <2> QED
    BY <2>1 DEF InOnePlace
<1>4. IInv /\ IInv' /\ OnceInv /\ [Next]_vars => OnceInv'
  BY NextOnce
<1> QED
  BY <1>1, <1>2, <1>3, <1>4, PTL DEF Spec
=============================================================================
