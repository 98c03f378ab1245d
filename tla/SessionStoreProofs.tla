------------------------- MODULE SessionStoreProofs -------------------------
(***************************************************************************)
(* The client of the session servers, for every number of servers, size of *)
(* the pools, of the ring and of the map: its pools are bounded, its map   *)
(* is the one the servers that are up determine, and it is the service a   *)
(* connection expects.  Connections break and come back at any time, at    *)
(* addresses used before.                                                  *)
(*                                                                         *)
(* Nothing here rests on which addresses ShiftOut leaves in the array,     *)
(* only on how many: that it may leave those of objects that are gone is   *)
(* part of the model.                                                      *)
(***************************************************************************)
EXTENDS SessionStore, FiniteSetTheorems, TLAPS

(* Whatever an array of connections holds: its addresses may be those of   *)
(* objects that are gone.                                                  *)
IsArray(a) == \E S : a \in Seq(S)

LEMMA ArrayGrows ==
    ASSUME NEW a, IsArray(a), NEW c
    PROVE  IsArray(Append(a, c)) /\ Len(Append(a, c)) = Len(a) + 1 /\ Len(a) \in Nat
<1>1. PICK S : a \in Seq(S)
  BY DEF IsArray
<1>2. a \in Seq(S \cup {c})
  BY <1>1
<1>3. Append(a, c) \in Seq(S \cup {c})
  BY <1>2
<1> QED
  BY <1>1, <1>3 DEF IsArray

LEMMA ArrayShrinks ==
    ASSUME NEW a, IsArray(a), Len(a) # 0, NEW c
    PROVE  IsArray(ShiftOut(a, c)) /\ Len(ShiftOut(a, c)) = Len(a) - 1
<1>1. PICK S : a \in Seq(S)
  BY DEF IsArray
<1>2. Len(a) \in Nat /\ Len(a) - 1 \in Nat
  BY <1>1
<1> DEFINE b == ShiftOut(a, c)
<1>3. DOMAIN b = 1 .. Len(a) - 1 /\ b = [i \in 1 .. Len(a) - 1 |-> b[i]]
  BY DEF ShiftOut
<1> HIDE DEF b
<1>4. b \in [1 .. Len(a) - 1 -> {b[i] : i \in 1 .. Len(a) - 1}]
  BY <1>3
<1>5. b \in Seq({b[i] : i \in 1 .. Len(a) - 1}) /\ Len(b) = Len(a) - 1
  BY <1>2, <1>4
<1> QED
  BY <1>5 DEF IsArray, b

(* The place of the ring that is k behind place p.                         *)
Behind(p, k) == (p + k) % RingSize

LEMMA BehindIs ==
    ASSUME NEW p \in 0 .. RingSize - 1, NEW k \in 0 .. RingSize
    PROVE  /\ Behind(p, k) = IF p + k < RingSize THEN p + k ELSE p + k - RingSize
           /\ Behind(p, k) \in 0 .. RingSize - 1
<1>1. RingSize \in Nat /\ RingSize > 0
  BY RingAssumption
<1>2. (p + k) % RingSize = IF p + k < RingSize THEN p + k ELSE p + k - RingSize
  BY <1>1
<1> QED
  BY <1>1, <1>2 DEF Behind

LEMMA BehindAgain ==
    ASSUME NEW p \in 0 .. RingSize - 1, NEW k \in 0 .. RingSize - 1
    PROVE  Behind(Behind(p, k), 1) = Behind(p, k + 1) /\ Behind(Behind(p, 1), k) = Behind(p, k + 1)
<1>1. RingSize \in Nat /\ RingSize > 0 /\ 1 \in 0 .. RingSize /\ k \in 0 .. RingSize /\ k + 1 \in 0 .. RingSize
  BY RingAssumption
<1>2. ASSUME NEW a \in 0 .. RingSize - 1, a = Behind(p, k) PROVE Behind(a, 1) = Behind(p, k + 1)
  <2>1. a = IF p + k < RingSize THEN p + k ELSE p + k - RingSize
    BY <1>1, <1>2, BehindIs
  <2>2. Behind(a, 1) = IF a + 1 < RingSize THEN a + 1 ELSE a + 1 - RingSize
    BY <1>1, BehindIs
  <2>3. Behind(p, k + 1) = IF p + (k + 1) < RingSize THEN p + (k + 1) ELSE p + (k + 1) - RingSize
    BY <1>1, BehindIs
  <2> QED
    BY <1>1, <2>1, <2>2, <2>3
<1>3. ASSUME NEW a \in 0 .. RingSize - 1, a = Behind(p, 1) PROVE Behind(a, k) = Behind(p, k + 1)
  <2>1. a = IF p + 1 < RingSize THEN p + 1 ELSE p + 1 - RingSize
    BY <1>1, <1>3, BehindIs
  <2>2. Behind(a, k) = IF a + k < RingSize THEN a + k ELSE a + k - RingSize
    BY <1>1, BehindIs
  <2>3. Behind(p, k + 1) = IF p + (k + 1) < RingSize THEN p + (k + 1) ELSE p + (k + 1) - RingSize
    BY <1>1, BehindIs
  <2> QED
    BY <1>1, <2>1, <2>2, <2>3
<1>4. Behind(p, k) \in 0 .. RingSize - 1 /\ Behind(p, 1) \in 0 .. RingSize - 1
  BY <1>1, BehindIs
<1> QED
  BY <1>2, <1>3, <1>4

LEMMA BehindApart ==
    ASSUME NEW p \in 0 .. RingSize - 1, NEW j \in 0 .. RingSize - 1, NEW k \in 0 .. RingSize - 1, j # k
    PROVE  Behind(p, j) # Behind(p, k)
<1>1. RingSize \in Nat /\ j \in 0 .. RingSize /\ k \in 0 .. RingSize
  BY RingAssumption
<1>2. /\ Behind(p, j) = IF p + j < RingSize THEN p + j ELSE p + j - RingSize
      /\ Behind(p, k) = IF p + k < RingSize THEN p + k ELSE p + k - RingSize
  BY <1>1, BehindIs
<1> QED
  BY <1>1, <1>2

LEMMA StartUpShares ==
    /\ \A c \in 1 .. NumServers * PoolSize : ServerOf(c, PoolSize) \in Servers
    /\ \A s \in Servers : {c \in 1 .. NumServers * PoolSize : ServerOf(c, PoolSize) = s}
                          = s * PoolSize + 1 .. s * PoolSize + PoolSize
<1>1. NumServers \in Nat \ {0} /\ PoolSize \in Nat \ {0}
  BY StoreAssumption
<1>2. ASSUME NEW c \in 1 .. NumServers * PoolSize PROVE ServerOf(c, PoolSize) \in Servers
  BY <1>1 DEF ServerOf, Servers
<1>3. ASSUME NEW s \in Servers
      PROVE  {c \in 1 .. NumServers * PoolSize : ServerOf(c, PoolSize) = s}
             = s * PoolSize + 1 .. s * PoolSize + PoolSize
  BY <1>1 DEF ServerOf, Servers
<1> QED
  BY <1>2, <1>3

-----------------------------------------------------------------------------
(* The pool of a server: a server that a coroutine tries to reach is short *)
(* of a connection, which is why the one it makes fits.                    *)
ConnectionsOf(s) ==
    /\ IsArray(conns[s]) /\ Len(conns[s]) = Cardinality(LiveOf(s))
    /\ next[s] = 0 \/ next[s] \in 1 .. Len(conns[s]) - 1
    /\ Cardinality(LiveOf(s)) <= PoolSize
    /\ s \in down => Cardinality(LiveOf(s)) < PoolSize

PoolInv ==
    /\ live \subseteq ConnIds
    /\ server \in [ConnIds -> Int] /\ \A c \in live : server[c] \in Servers
    /\ DOMAIN conns = Servers /\ DOMAIN next = Servers /\ down \subseteq Servers
    /\ \A s \in Servers : ConnectionsOf(s)

LEMMA LiveIsFinite ==
    ASSUME live \subseteq ConnIds
    PROVE  \A s : IsFiniteSet(LiveOf(s)) /\ Cardinality(LiveOf(s)) \in Nat
<1>1. MaxConns \in Nat
  BY StoreAssumption
<1>2. IsFiniteSet(ConnIds)
  BY <1>1, FS_Interval DEF ConnIds
<1> SUFFICES ASSUME NEW s PROVE IsFiniteSet(LiveOf(s)) /\ Cardinality(LiveOf(s)) \in Nat
  OBVIOUS
<1>3. LiveOf(s) \in SUBSET ConnIds
  BY DEF LiveOf
<1> QED
  BY <1>2, <1>3, FS_Subset, FS_CardinalityType

LEMMA InitPool == Init => PoolInv
<1> SUFFICES ASSUME Init PROVE PoolInv
  OBVIOUS
<1>1. NumServers \in Nat \ {0} /\ PoolSize \in Nat \ {0} /\ MaxConns \in Nat /\ NumServers * PoolSize <= MaxConns
  BY StoreAssumption
<1>2. live \subseteq ConnIds /\ live = 1 .. NumServers * PoolSize
  BY <1>1 DEF Init, ConnIds
<1>3. server \in [ConnIds -> Int] /\ \A c \in live : server[c] = ServerOf(c, PoolSize)
  BY <1>1, <1>2 DEF Init, ConnIds, ServerOf
<1>4. \A c \in live : server[c] \in Servers
  BY <1>2, <1>3, StartUpShares
<1>5. DOMAIN conns = Servers /\ DOMAIN next = Servers /\ down = {}
  BY DEF Init, StartUp, Servers
<1>6. ASSUME NEW s \in Servers PROVE ConnectionsOf(s)
  <2>1. LiveOf(s) = s * PoolSize + 1 .. s * PoolSize + PoolSize
    BY <1>2, <1>3, StartUpShares DEF LiveOf
  <2>2. s * PoolSize \in Int
    BY <1>1 DEF Servers
  <2>3. Cardinality(LiveOf(s)) = PoolSize
    BY <1>1, <2>1, <2>2, FS_Interval
  <2>4. conns[s] = [k \in 1 .. PoolSize |-> s * PoolSize + k]
    BY DEF Init, StartUp, Servers
  <2>5. conns[s] \in Seq(Int) /\ Len(conns[s]) = PoolSize
    BY <1>1, <2>2, <2>4
  <2>6. next[s] = 0
    BY DEF Init
  <2> QED
    BY <1>1, <1>5, <2>3, <2>5, <2>6 DEF ConnectionsOf, IsArray
<1> QED
  BY <1>2, <1>3, <1>4, <1>5, <1>6 DEF PoolInv

(* A step that keeps the connections and turns only the rotation.          *)
LEMMA RotatePool ==
    ASSUME PoolInv, NEW s, conns[s] # <<>>, Rotate(s), UNCHANGED <<live, server, conns, down>>
    PROVE  PoolInv'
<1>1. DOMAIN next' = Servers /\ \A d \in Servers : LiveOf(d)' = LiveOf(d)
  BY DEF PoolInv, Rotate, LiveOf
<1>2. ASSUME NEW d \in Servers PROVE ConnectionsOf(d)'
  <2>1. ConnectionsOf(d)
    BY DEF PoolInv
  <2>2. CASE d # s
    <3>1. next'[d] = next[d]
      BY <2>2 DEF Rotate, PoolInv
    <3> QED
      BY <1>1, <2>1, <3>1 DEF ConnectionsOf
  <2>3. CASE d = s
    <3>1. next'[d] = IF next[d] + 1 = Len(conns[d]) THEN 0 ELSE next[d] + 1
      BY <2>3 DEF Rotate, PoolInv
    <3>2. Len(conns[d]) \in Nat \ {0}
      <4>1. PICK S : conns[d] \in Seq(S)
        BY <2>1 DEF ConnectionsOf, IsArray
      <4> QED
        BY <2>3, <4>1
    <3>3. next'[d] = 0 \/ next'[d] \in 1 .. Len(conns[d]) - 1
      BY <2>1, <3>1, <3>2 DEF ConnectionsOf
    <3> QED
      BY <1>1, <2>1, <3>3 DEF ConnectionsOf
  <2> QED
    BY <2>2, <2>3
<1> QED
  BY <1>1, <1>2 DEF PoolInv

LEMMA LostPool ==
    ASSUME PoolInv, NEW c \in ConnIds, ConnectionLost(c)
    PROVE  /\ PoolInv' /\ server[c] \in Servers /\ conns[server[c]] # <<>>
           /\ \A s \in Servers \ {server[c]} : conns'[s] = conns[s]
<1>0. PICK s \in Servers : s = server[c]
  BY DEF ConnectionLost, Close, PoolInv
<1>1. /\ c \in live /\ s \in DOMAIN conns /\ s \in DOMAIN next
      /\ IsFiniteSet(LiveOf(s)) /\ Cardinality(LiveOf(s)) \in Nat
  BY LiveIsFinite DEF ConnectionLost, Close, PoolInv
<1>2. /\ live' = live \ {c} /\ server' = server /\ server[c] = s
      /\ conns' = [conns EXCEPT ![s] = ShiftOut(conns[s], c)]
      /\ next' = [next EXCEPT ![s] = 0]
      /\ down' = down \cup {s}
  BY <1>0 DEF ConnectionLost, Close, RestartRotation, StartReconnect
<1>3. ConnectionsOf(s)
  BY <1>1 DEF PoolInv
<1>4. c \in LiveOf(s) /\ LiveOf(s)' = LiveOf(s) \ {c} /\ \A d \in Servers \ {s} : LiveOf(d)' = LiveOf(d)
  <2>1. c \in LiveOf(s)
    BY <1>1, <1>2 DEF LiveOf
  <2>2. LiveOf(s)' = LiveOf(s) \ {c}
    BY <1>2 DEF LiveOf
  <2>3. ASSUME NEW d \in Servers \ {s} PROVE LiveOf(d)' = LiveOf(d)
    BY <1>2 DEF LiveOf
  <2> QED
    BY <2>1, <2>2, <2>3
<1>5. Cardinality(LiveOf(s)') = Cardinality(LiveOf(s)) - 1 /\ Cardinality(LiveOf(s)) # 0
  <2>1. Cardinality(LiveOf(s) \ {c}) = Cardinality(LiveOf(s)) - 1
    BY <1>1, <1>4, FS_RemoveElement
  <2>2. LiveOf(s) # {}
    BY <1>4
  <2>3. Cardinality(LiveOf(s)) # 0
    BY <1>1, <2>2, FS_EmptySet
  <2> QED
    BY <1>4, <2>1, <2>3
<1>6. IsArray(ShiftOut(conns[s], c)) /\ Len(ShiftOut(conns[s], c)) = Len(conns[s]) - 1
  BY <1>3, <1>5, ArrayShrinks DEF ConnectionsOf
<1>7. ConnectionsOf(s)'
  <2>1. conns'[s] = ShiftOut(conns[s], c) /\ next'[s] = 0
    BY <1>1, <1>2
  <2>2. Cardinality(LiveOf(s)') < PoolSize /\ Cardinality(LiveOf(s)') <= PoolSize
    BY <1>1, <1>3, <1>5, StoreAssumption DEF ConnectionsOf
  <2> QED
    BY <1>3, <1>5, <1>6, <2>1, <2>2 DEF ConnectionsOf
<1>8. ASSUME NEW d \in Servers \ {s} PROVE ConnectionsOf(d)'
  <2>1. ConnectionsOf(d)
    BY DEF PoolInv
  <2>2. conns'[d] = conns[d] /\ next'[d] = next[d] /\ (d \in down' <=> d \in down)
    BY <1>2 DEF PoolInv
  <2> QED
    BY <1>4, <2>1, <2>2 DEF ConnectionsOf
<1>9. PoolInv'
  BY <1>1, <1>2, <1>7, <1>8 DEF PoolInv
<1>10. conns[s] # <<>>
  BY <1>3, <1>5 DEF ConnectionsOf
<1> QED
  BY <1>2, <1>9, <1>10 DEF PoolInv

LEMMA ReconnectPool ==
    ASSUME PoolInv, NEW s \in Servers, NEW c \in ConnIds \ live, s \in down,
           down' = AfterReconnect(s), ConnectionMade(s, c), UNCHANGED next
    PROVE  PoolInv' /\ IsArray(conns'[s]) /\ Len(conns'[s]) = Len(conns[s]) + 1 /\ Len(conns[s]) \in Nat
           /\ \A d \in Servers \ {s} : conns'[d] = conns[d]
<1>1. /\ live' = live \cup {c} /\ server' = [server EXCEPT ![c] = s]
      /\ conns' = [conns EXCEPT ![s] = Append(conns[s], c)]
      /\ down' = down \ {s}
  BY DEF ConnectionMade, Open, AddConnection, Added, AfterReconnect
<1>2. ConnectionsOf(s) /\ IsFiniteSet(LiveOf(s)) /\ Cardinality(LiveOf(s)) \in Nat
  BY LiveIsFinite DEF PoolInv
<1>3. c \notin LiveOf(s) /\ LiveOf(s)' = LiveOf(s) \cup {c} /\ \A d \in Servers \ {s} : LiveOf(d)' = LiveOf(d)
  BY <1>1 DEF LiveOf, PoolInv
<1>4. Cardinality(LiveOf(s)') = Cardinality(LiveOf(s)) + 1
  BY <1>2, <1>3, FS_AddElement
<1>5. /\ IsArray(conns'[s]) /\ Len(conns'[s]) = Len(conns[s]) + 1 /\ Len(conns[s]) \in Nat
      /\ \A d \in Servers \ {s} : conns'[d] = conns[d]
  BY <1>1, <1>2, ArrayGrows DEF ConnectionsOf, PoolInv
<1>6. ConnectionsOf(s)'
  BY <1>1, <1>2, <1>4, <1>5, StoreAssumption DEF ConnectionsOf
<1>7. ASSUME NEW d \in Servers \ {s} PROVE ConnectionsOf(d)'
  <2>1. ConnectionsOf(d)
    BY DEF PoolInv
  <2> QED
    BY <1>1, <1>3, <1>5, <2>1 DEF ConnectionsOf
<1>8. /\ live' \subseteq ConnIds /\ server' \in [ConnIds -> Int] /\ \A d \in live' : server'[d] \in Servers
      /\ DOMAIN conns' = Servers /\ DOMAIN next' = Servers /\ down' \subseteq Servers
  BY <1>1, StoreAssumption DEF PoolInv, Servers
<1> QED
  BY <1>5, <1>6, <1>7, <1>8 DEF PoolInv

LEMMA NextPool == PoolInv /\ [Next]_vars => PoolInv'
<1> SUFFICES ASSUME PoolInv, [Next]_vars PROVE PoolInv'
  OBVIOUS
<1>1. ASSUME NEW slot \in Slots, Get(slot) PROVE PoolInv'
  BY <1>1, RotatePool DEF Get
<1>2. ASSUME NEW slot \in Slots, Set(slot) PROVE PoolInv'
  BY <1>2, RotatePool DEF Set
<1>3. ASSUME NEW c \in ConnIds, ConnectionLost(c) PROVE PoolInv'
  BY <1>3, LostPool
<1>4. ASSUME NEW s \in Servers, Reconnect(s) PROVE PoolInv'
  BY <1>4, ReconnectPool DEF Reconnect
<1>5. ASSUME UNCHANGED <<live, server, conns, next, down>> PROVE PoolInv'
  BY <1>5 DEF PoolInv, ConnectionsOf, LiveOf
<1>6. ASSUME NEW c \in ConnIds, Answer(c) \/ AnswerCut(c) \/ AnswerRest(c) PROVE PoolInv'
  BY <1>5, <1>6 DEF Answer, AnswerCut, AnswerRest
<1>7. CASE UNCHANGED vars
  BY <1>5, <1>7 DEF vars
<1> QED
  BY <1>1, <1>2, <1>3, <1>4, <1>6, <1>7 DEF Next

(* num_conns counts the open connections of a server, whatever was lost    *)
(* and reopened, next_conn stays inside the array, and there are never     *)
(* more of them than at start-up.                                          *)
THEOREM PoolBoundedAlways == Spec => []PoolBounded
<1>1. PoolInv => PoolBounded
  BY DEF PoolInv, ConnectionsOf, PoolBounded
<1> QED
  BY InitPool, NextPool, <1>1, PTL DEF Spec

-----------------------------------------------------------------------------
(* At start-up the slots go round all the servers.                         *)
LEMMA AllServersInTurn ==
    RoundRobin(NumSlots, Servers) = [i \in Slots |-> i % NumServers]
<1>1. NumServers \in Nat \ {0} /\ NumSlots \in Nat /\ Cardinality(Servers) = NumServers
  BY StoreAssumption, FS_Interval DEF Servers
<1>2. ASSUME NEW s \in Servers PROVE Cardinality(Before(s, Servers)) = s
  <2>1. Before(s, Servers) = 0 .. s - 1 /\ s \in Nat
    BY <1>1 DEF Before, Servers
  <2> QED
    BY <2>1, FS_Interval
<1>3. ASSUME NEW i \in Slots
      PROVE  (CHOOSE s \in Servers : Cardinality(Before(s, Servers)) = i % Cardinality(Servers))
             = i % NumServers
  <2>1. i % NumServers \in Servers
    BY <1>1 DEF Slots, Servers
  <2>2. i % Cardinality(Servers) = i % NumServers
    BY <1>1
  <2> HIDE DEF Servers
  <2> QED
    BY <1>2, <2>1, <2>2
<1> QED
  BY <1>3 DEF RoundRobin, Slots

LEMMA InitMap == Init => MapIsCurrent
<1> SUFFICES ASSUME Init PROVE MapIsCurrent
  OBVIOUS
<1>1. ASSUME NEW s \in Servers PROVE conns[s] # <<>>
  <2>1. conns[s] = [k \in 1 .. PoolSize |-> s * PoolSize + k] /\ PoolSize \in Nat \ {0}
    BY StoreAssumption DEF Init, StartUp, Servers
  <2>2. DOMAIN conns[s] # {}
    BY <2>1
  <2> QED
    BY <2>2
<1>2. UpServers(conns) = Servers
  BY <1>1 DEF UpServers
<1>3. connmap = RoundRobin(NumSlots, Servers)
  BY AllServersInTurn DEF Init
<1> QED
  BY <1>2, <1>3 DEF MapIsCurrent, SetupConnMap

LEMMA NextMap == PoolInv /\ MapIsCurrent /\ [Next]_vars => MapIsCurrent'
<1> SUFFICES ASSUME PoolInv, MapIsCurrent, [Next]_vars PROVE MapIsCurrent'
  OBVIOUS
<1>1. UpServers(conns) # {} => connmap = RoundRobin(NumSlots, UpServers(conns))
  BY DEF MapIsCurrent, SetupConnMap
<1>2. SUFFICES UpServers(conns') # {} => connmap' = RoundRobin(NumSlots, UpServers(conns'))
  BY DEF MapIsCurrent, SetupConnMap, UpServers
<1>3. ASSUME UpServers(conns') = UpServers(conns), connmap' = connmap
      PROVE  UpServers(conns') # {} => connmap' = RoundRobin(NumSlots, UpServers(conns'))
  BY <1>1, <1>3
<1>4. ASSUME NEW c \in ConnIds, ConnectionLost(c)
      PROVE  UpServers(conns') # {} => connmap' = RoundRobin(NumSlots, UpServers(conns'))
  <2>1. PICK s \in Servers : /\ s = server[c] /\ conns[s] # <<>>
                             /\ \A d \in Servers \ {s} : conns'[d] = conns[d]
    BY <1>4, LostPool
  <2>2. connmap' = IF conns'[s] = <<>> THEN SetupConnMap(conns') ELSE connmap
    BY <1>4, <2>1 DEF ConnectionLost, MapAfterLoss
  <2>3. CASE conns'[s] = <<>>
    BY <2>2, <2>3 DEF SetupConnMap
  <2>4. CASE conns'[s] # <<>>
    <3>1. UpServers(conns') = UpServers(conns)
      BY <2>1, <2>4 DEF UpServers
    <3> QED
      BY <1>3, <2>2, <2>4, <3>1
  <2> QED
    BY <2>3, <2>4
<1>5. ASSUME NEW s \in Servers, Reconnect(s)
      PROVE  UpServers(conns') # {} => connmap' = RoundRobin(NumSlots, UpServers(conns'))
  <2>1. /\ IsArray(conns'[s]) /\ Len(conns'[s]) = Len(conns[s]) + 1 /\ Len(conns[s]) \in Nat
        /\ \A d \in Servers \ {s} : conns'[d] = conns[d]
        /\ connmap' = MapAfterAdd(s)
    BY <1>5, ReconnectPool DEF Reconnect, ConnectionMade, AddConnection
  <2>2. conns'[s] # <<>>
    BY <2>1
  <2>3. CASE conns[s] = <<>>
    <3> DEFINE cs == [conns EXCEPT ![s] = <<Nobody>>]
    <3>1. \A d \in Servers : cs[d] = IF d = s THEN <<Nobody>> ELSE conns[d]
      BY DEF PoolInv
    <3>2. UpServers(cs) = UpServers(conns')
      BY <2>1, <2>2, <3>1 DEF UpServers
    <3>3. connmap' = SetupConnMap(cs)
      BY <2>1, <2>3 DEF MapAfterAdd
    <3> HIDE DEF cs
    <3> QED
      BY <3>2, <3>3 DEF SetupConnMap
  <2>4. CASE conns[s] # <<>>
    <3>1. UpServers(conns') = UpServers(conns)
      BY <2>1, <2>2, <2>4 DEF UpServers
    <3> QED
      BY <1>3, <2>1, <2>4, <3>1 DEF MapAfterAdd
  <2> QED
    BY <2>3, <2>4
<1>6. ASSUME UNCHANGED <<conns, connmap>>
      PROVE  UpServers(conns') # {} => connmap' = RoundRobin(NumSlots, UpServers(conns'))
  BY <1>3, <1>6
<1>7. ASSUME NEW slot \in Slots, Get(slot) \/ Set(slot)
      PROVE  UpServers(conns') # {} => connmap' = RoundRobin(NumSlots, UpServers(conns'))
  BY <1>6, <1>7 DEF Get, Set
<1>8. ASSUME NEW c \in ConnIds, Answer(c) \/ AnswerCut(c) \/ AnswerRest(c)
      PROVE  UpServers(conns') # {} => connmap' = RoundRobin(NumSlots, UpServers(conns'))
  BY <1>6, <1>8 DEF Answer, AnswerCut, AnswerRest
<1>9. CASE UNCHANGED vars
  BY <1>6, <1>9 DEF vars
<1> QED
  BY <1>4, <1>5, <1>7, <1>8, <1>9 DEF Next

(* The map from slots to servers depends on nothing but which servers are  *)
(* up, after any losses and reconnections in any order: what processes     *)
(* that reach the same servers rely on to find each other's sessions.      *)
THEOREM MapIsCurrentAlways == Spec => []MapIsCurrent
<1>1. Spec => []PoolInv
  BY InitPool, NextPool, PTL DEF Spec
<1> QED
  BY InitMap, NextMap, <1>1, PTL DEF Spec

-----------------------------------------------------------------------------
(* The ring of a connection and its wire hold the same lookups in the same *)
(* order: the callback at the start is that of the next answer.            *)
Rings == [slot : [0 .. RingSize - 1 -> Nat], start : 0 .. RingSize - 1, end : 0 .. RingSize - 1]

RingMatches(r, w) ==
    /\ w \in Seq(Lookups) /\ Len(w) <= RingSize
    /\ r.end = Behind(r.start, Len(w))
    /\ \A k \in 1 .. Len(w) : r.slot[Behind(r.start, k - 1)] = w[k]

LEMMA EmptyMatches == EmptyRing \in Rings /\ RingMatches(EmptyRing, <<>>)
<1>1. RingSize \in Nat /\ 0 \in 0 .. RingSize - 1 /\ 0 \in 0 .. RingSize
  BY RingAssumption
<1>2. EmptyRing \in Rings
  BY <1>1 DEF EmptyRing, Rings, Nobody
<1>3. EmptyRing.end = 0 /\ EmptyRing.start = 0
  BY DEF EmptyRing
<1>4. Behind(0, 0) = 0
  BY <1>1, BehindIs, RingAssumption
<1> QED
  BY <1>1, <1>2, <1>3, <1>4 DEF RingMatches

LEMMA PushMatches ==
    ASSUME NEW r \in Rings, NEW w, RingMatches(r, w), Len(w) < RingSize, NEW l \in Lookups
    PROVE  PushCallback(r, l) \in Rings /\ RingMatches(PushCallback(r, l), Append(w, l))
<1> DEFINE q == PushCallback(r, l)
           v == Append(w, l)
<1>1. /\ RingSize \in Nat /\ RingSize > 0 /\ l \in Nat
      /\ r.slot \in [0 .. RingSize - 1 -> Nat]
      /\ r.start \in 0 .. RingSize - 1 /\ r.end \in 0 .. RingSize - 1
      /\ w \in Seq(Lookups) /\ Len(w) \in 0 .. RingSize - 1 /\ 1 \in 0 .. RingSize
  BY RingAssumption, StoreAssumption DEF Rings, RingMatches, Lookups
<1>2. /\ q.slot = [r.slot EXCEPT ![r.end] = l]
      /\ q.start = r.start /\ q.end = Behind(r.end, 1)
  BY DEF PushCallback, Rings, Behind
<1>3. v \in Seq(Lookups) /\ Len(v) = Len(w) + 1 /\ v[Len(w) + 1] = l /\ \A k \in 1 .. Len(w) : v[k] = w[k]
  BY <1>1
<1>4. r.end = Behind(r.start, Len(w))
  BY DEF RingMatches
<1>5. Behind(r.end, 1) \in 0 .. RingSize - 1
  BY <1>1, BehindIs
<1>6. q \in Rings
  <2>1. q = [slot |-> q.slot, start |-> q.start, end |-> q.end]
    <3> DEFINE sl == [r.slot EXCEPT ![r.end] = l]
               en == (r.end + 1) % RingSize
    <3>1. q = [r EXCEPT !.slot = sl, !.end = en]
      BY DEF PushCallback
    <3> HIDE DEF sl, en, q
    <3>2. r = [slot |-> r.slot, start |-> r.start, end |-> r.end]
      BY DEF Rings
    <3>3. q = [slot |-> sl, start |-> r.start, end |-> en]
      BY <3>1, <3>2
    <3> QED
      BY <3>3
  <2> HIDE DEF q
  <2>2. q.slot \in [0 .. RingSize - 1 -> Nat]
    BY <1>1, <1>2
  <2> QED
    BY <1>1, <1>2, <1>5, <2>1, <2>2 DEF Rings
<1> HIDE DEF q, v
<1>7. q.end = Behind(q.start, Len(v))
  <2>1. Behind(Behind(r.start, Len(w)), 1) = Behind(r.start, Len(w) + 1)
    BY <1>1, BehindAgain
  <2> QED
    BY <1>2, <1>3, <1>4, <2>1
<1>8. ASSUME NEW k \in 1 .. Len(v) PROVE q.slot[Behind(q.start, k - 1)] = v[k]
  <2>1. CASE k = Len(w) + 1
    BY <1>1, <1>2, <1>3, <1>4, <2>1
  <2>2. CASE k \in 1 .. Len(w)
    <3>1. k - 1 \in 0 .. RingSize - 1 /\ k - 1 \in 0 .. RingSize /\ k - 1 # Len(w)
      BY <1>1, <2>2
    <3>2. Behind(r.start, k - 1) # r.end /\ Behind(r.start, k - 1) \in 0 .. RingSize - 1
      <4>1. Behind(r.start, k - 1) # Behind(r.start, Len(w))
        BY <1>1, <3>1, BehindApart
      <4>2. Behind(r.start, k - 1) \in 0 .. RingSize - 1
        BY <1>1, <3>1, BehindIs
      <4> QED
        BY <1>4, <4>1, <4>2
    <3>3. r.slot[Behind(r.start, k - 1)] = w[k]
      BY <2>2 DEF RingMatches
    <3>4. q.slot[Behind(r.start, k - 1)] = r.slot[Behind(r.start, k - 1)]
      <4>1. DOMAIN r.slot = 0 .. RingSize - 1
        BY <1>1 DEF Rings
      <4> QED
        BY <1>2, <3>2, <4>1
    <3>5. v[k] = w[k]
      BY <1>3, <2>2
    <3> QED
      BY <1>2, <3>3, <3>4, <3>5
  <2> QED
    BY <1>1, <1>3, <2>1, <2>2
<1> QED
  BY <1>1, <1>3, <1>6, <1>7, <1>8 DEF RingMatches, q, v

LEMMA PopMatches ==
    ASSUME NEW r \in Rings, NEW w, RingMatches(r, w), w # <<>>
    PROVE  /\ NextCallback(r) = Head(w)
           /\ PopCallback(r) \in Rings /\ RingMatches(PopCallback(r), Tail(w))
<1> DEFINE q == PopCallback(r)
           v == Tail(w)
<1>1. /\ RingSize \in Nat /\ RingSize > 0
      /\ r.slot \in [0 .. RingSize - 1 -> Nat]
      /\ r.start \in 0 .. RingSize - 1 /\ r.end \in 0 .. RingSize - 1
      /\ w \in Seq(Lookups) /\ Len(w) \in 1 .. RingSize /\ 0 \in 0 .. RingSize /\ 1 \in 0 .. RingSize
  BY RingAssumption DEF Rings, RingMatches
<1>2. q.slot = r.slot /\ q.start = Behind(r.start, 1) /\ q.end = r.end
  BY DEF PopCallback, Rings, Behind
<1>3. v \in Seq(Lookups) /\ Len(v) = Len(w) - 1 /\ \A k \in 1 .. Len(v) : v[k] = w[k + 1]
  BY <1>1
<1>4. r.end = Behind(r.start, Len(w))
  BY DEF RingMatches
<1>5. Behind(r.start, 1) \in 0 .. RingSize - 1
  BY <1>1, BehindIs
<1>6. q \in Rings
  <2>1. q = [slot |-> q.slot, start |-> q.start, end |-> q.end]
    BY DEF PopCallback, Rings
  <2> HIDE DEF q
  <2> QED
    BY <1>1, <1>2, <1>5, <2>1 DEF Rings
<1>7. NextCallback(r) = Head(w)
  <2>1. Behind(r.start, 1 - 1) = r.start
    <3>1. Behind(r.start, 0) = IF r.start + 0 < RingSize THEN r.start + 0 ELSE r.start + 0 - RingSize
      BY <1>1, BehindIs
    <3> QED
      BY <1>1, <3>1
  <2>2. r.slot[Behind(r.start, 1 - 1)] = w[1]
    BY <1>1 DEF RingMatches
  <2> QED
    BY <1>1, <2>1, <2>2 DEF NextCallback
<1> HIDE DEF q, v
<1>8. q.end = Behind(q.start, Len(v))
  <2>1. Len(w) - 1 \in 0 .. RingSize - 1 /\ (Len(w) - 1) + 1 = Len(w)
    BY <1>1
  <2>2. Behind(Behind(r.start, 1), Len(w) - 1) = Behind(r.start, Len(w))
    BY <1>1, <2>1, BehindAgain
  <2> QED
    BY <1>2, <1>3, <1>4, <2>2
<1>9. ASSUME NEW k \in 1 .. Len(v) PROVE q.slot[Behind(q.start, k - 1)] = v[k]
  <2>1. k + 1 \in 1 .. Len(w) /\ k - 1 \in 0 .. RingSize - 1 /\ (k - 1) + 1 = k /\ (k + 1) - 1 = k
    BY <1>1, <1>3
  <2>2. r.slot[Behind(r.start, (k + 1) - 1)] = w[k + 1]
    BY <2>1 DEF RingMatches
  <2>3. Behind(Behind(r.start, 1), k - 1) = Behind(r.start, (k - 1) + 1)
    BY <1>1, <2>1, BehindAgain
  <2> QED
    BY <1>2, <1>3, <2>1, <2>2, <2>3
<1> QED
  BY <1>1, <1>3, <1>6, <1>7, <1>8, <1>9 DEF RingMatches, q, v

(* A lookup waits at one place of one wire, and was not answered.          *)
Places == 0 .. RingSize - 1

Unanswered(c) == \A k \in 1 .. Len(wire[c]) : got[wire[c][k]] = Nobody

(* A place of a ring holds a lookup no other place does, given up or not   *)
(* as its connection had a reply cut or not.                               *)
PlaceInv(c, i) ==
    LET l == ring[c].slot[i]
    IN  /\ l <= asked
        /\ l # Nobody => (l \in spoiled <=> frame[c] # "whole")
        /\ \A d \in ConnIds, j \in Places : l # Nobody /\ ring[d].slot[j] = l => d = c /\ j = i

WholeInv(c) == frame[c] = "whole" => RingMatches(ring[c], wire[c]) /\ Unanswered(c)

LookupType ==
    /\ asked \in 0 .. MaxLookups /\ spoiled \subseteq 1 .. asked
    /\ got \in [Lookups -> Nat]
    /\ ring \in [ConnIds -> Rings] /\ frame \in [ConnIds -> Frames]
    /\ wire \in [ConnIds -> Seq(Lookups)] /\ live \subseteq ConnIds

LookupInv ==
    /\ LookupType
    /\ \A l \in Lookups \ spoiled : got[l] = Nobody \/ (got[l] = l /\ l <= asked)
    /\ \A c \in ConnIds : WholeInv(c) /\ \A i \in Places : PlaceInv(c, i)

LEMMA SlotType ==
    ASSUME LookupType, NEW c \in ConnIds
    PROVE  /\ ring[c] \in Rings /\ ring[c].slot \in [Places -> Nat]
           /\ ring[c].start \in Places /\ ring[c].end \in Places /\ frame[c] \in Frames
           /\ \A i \in Places : ring[c].slot[i] \in Nat
           /\ wire[c] \in Seq(Lookups) /\ Len(wire[c]) \in Nat
           /\ asked \in Nat /\ MaxLookups \in Nat
<1>1. asked \in Nat /\ MaxLookups \in Nat /\ frame[c] \in Frames
  BY StoreAssumption DEF LookupType
<1>2. ring[c] \in Rings
  BY DEF LookupType
<1>3. wire[c] \in Seq(Lookups) /\ Len(wire[c]) \in Nat
  BY DEF LookupType
<1>4. /\ ring[c].slot \in [Places -> Nat]
      /\ ring[c].start \in Places /\ ring[c].end \in Places
  BY <1>2 DEF Rings, Places
<1> QED
  BY <1>1, <1>2, <1>3, <1>4

(* A lookup on the wire of a connection without a cut reply is in its ring.*)
LEMMA OnWire ==
    ASSUME LookupInv, NEW c \in ConnIds, frame[c] = "whole", NEW k \in 1 .. Len(wire[c])
    PROVE  /\ wire[c][k] \in 1 .. asked /\ wire[c][k] \in Lookups /\ wire[c][k] \notin spoiled
           /\ Behind(ring[c].start, k - 1) \in Places
           /\ ring[c].slot[Behind(ring[c].start, k - 1)] = wire[c][k]
<1> DEFINE i == Behind(ring[c].start, k - 1)
<1>1. LookupType /\ RingMatches(ring[c], wire[c])
  BY DEF LookupInv, WholeInv
<1>2. ring[c].start \in 0 .. RingSize - 1 /\ wire[c] \in Seq(Lookups) /\ Len(wire[c]) <= RingSize /\ Len(wire[c]) \in Nat
  BY <1>1, SlotType DEF Places, RingMatches
<1>3. RingSize \in Nat /\ k - 1 \in 0 .. RingSize
  BY <1>2, RingAssumption
<1>4. i \in Places
  BY <1>2, <1>3, BehindIs DEF Places
<1>5. ring[c].slot[i] = wire[c][k] /\ wire[c][k] \in Lookups
  BY <1>1, <1>2 DEF RingMatches
<1> HIDE DEF i
<1>6. PlaceInv(c, i)
  BY <1>4 DEF LookupInv
<1>7. wire[c][k] \in Nat /\ wire[c][k] >= 1 /\ wire[c][k] # Nobody
  BY <1>1, <1>5, SlotType DEF Lookups, Nobody
<1>8. wire[c][k] <= asked /\ wire[c][k] \notin spoiled
  BY <1>5, <1>6, <1>7 DEF PlaceInv
<1>9. wire[c][k] \in 1 .. asked
  BY <1>1, <1>7, <1>8, SlotType
<1> QED
  BY <1>4, <1>5, <1>8, <1>9 DEF i

LEMMA WireApart ==
    ASSUME LookupInv, NEW c \in ConnIds, NEW d \in ConnIds, frame[c] = "whole", frame[d] = "whole",
           NEW j \in 1 .. Len(wire[c]), NEW k \in 1 .. Len(wire[d]), wire[c][j] = wire[d][k]
    PROVE  c = d /\ j = k
<1> DEFINE i == Behind(ring[c].start, j - 1)
           m == Behind(ring[d].start, k - 1)
<1>1. /\ i \in Places /\ m \in Places /\ ring[c].slot[i] = ring[d].slot[m]
      /\ ring[c].slot[i] \in Lookups
  BY OnWire
<1>2. ring[c].slot[i] # Nobody
  <2>1. \A l \in Lookups : l # Nobody
    BY StoreAssumption DEF Lookups, Nobody
  <2> HIDE DEF i
  <2> QED
    BY <1>1, <2>1
<1> HIDE DEF i, m
<1>3. d = c /\ m = i
  BY <1>1, <1>2 DEF LookupInv, PlaceInv
<1>4. ASSUME j # k PROVE FALSE
  <2>1. LookupType /\ RingMatches(ring[c], wire[c])
    BY DEF LookupInv, WholeInv
  <2>2. ring[c].start \in 0 .. RingSize - 1 /\ Len(wire[c]) <= RingSize /\ Len(wire[c]) \in Nat /\ RingSize \in Nat
    BY <2>1, SlotType, RingAssumption DEF Places, RingMatches
  <2>3. j - 1 \in 0 .. RingSize - 1 /\ k - 1 \in 0 .. RingSize - 1 /\ j - 1 # k - 1
    BY <1>3, <1>4, <2>2
  <2>4. Behind(ring[c].start, j - 1) # Behind(ring[c].start, k - 1)
    BY <2>2, <2>3, BehindApart
  <2> QED
    BY <1>3, <2>4 DEF i, m
<1> QED
  BY <1>3, <1>4

LEMMA InitLookup == Init => LookupInv
<1> SUFFICES ASSUME Init PROVE LookupInv
  OBVIOUS
<1>1. MaxLookups \in Nat /\ NumServers * PoolSize <= MaxConns /\ NumServers * PoolSize \in Nat /\ MaxConns \in Nat
  BY StoreAssumption
<1>2. asked \in 0 .. MaxLookups /\ got \in [Lookups -> Nat] /\ \A l \in Lookups : got[l] = Nobody
  BY <1>1 DEF Init, Nobody
<1>3. /\ ring \in [ConnIds -> Rings] /\ frame \in [ConnIds -> Frames]
      /\ wire \in [ConnIds -> Seq(Lookups)] /\ live \subseteq ConnIds
  BY <1>1, EmptyMatches DEF Init, ConnIds, Frames
<1>4. LookupType
  BY <1>2, <1>3 DEF LookupType, Init
<1>5. ASSUME NEW c \in ConnIds PROVE WholeInv(c)
  BY <1>5, EmptyMatches DEF Init, WholeInv, Unanswered
<1>6. ASSUME NEW c \in ConnIds, NEW i \in Places PROVE PlaceInv(c, i)
  <2>1. ring[c].slot[i] = Nobody
    BY DEF Init, EmptyRing, Places
  <2>2. Nobody <= asked
    BY DEF Init, Nobody
  <2> QED
    BY <2>1, <2>2 DEF PlaceInv
<1> QED
  BY <1>2, <1>4, <1>5, <1>6 DEF LookupInv

-----------------------------------------------------------------------------
(* What a step makes of the lookups: one is asked, one is answered with    *)
(* its own answer, or some are given up and the others do not change.      *)
Asked == asked < MaxLookups /\ asked' = asked + 1 /\ asked + 1 \notin spoiled /\ UNCHANGED <<got, spoiled>>

Answered(l) == /\ l \in 1 .. asked /\ l \notin spoiled /\ got[l] = Nobody
               /\ got' = [got EXCEPT ![l] = l] /\ UNCHANGED <<asked, spoiled>>

GivesUp == /\ spoiled \subseteq spoiled'
           /\ \A l \in Lookups \ spoiled' : got'[l] = got[l] /\ (l > asked' <=> l > asked)

StepOf == Asked \/ (\E l \in Lookups : Answered(l)) \/ GivesUp

(* The next lookup goes on the wire of c, or on none.                      *)
LEMMA AskedNowhere ==
    ASSUME LookupInv, asked < MaxLookups, asked' = asked + 1,
           UNCHANGED <<ring, wire, frame, live, got, spoiled>>
    PROVE  LookupInv' /\ Asked
<1>1. LookupType /\ MaxLookups \in Nat /\ asked \in Nat
  BY StoreAssumption DEF LookupInv, LookupType
<1>2. LookupType' /\ asked + 1 \notin spoiled
  BY <1>1 DEF LookupType
<1>3. \A l \in Lookups \ spoiled' : got'[l] = Nobody \/ (got'[l] = l /\ l <= asked')
  BY <1>1 DEF LookupInv, Lookups
<1>4. ASSUME NEW c \in ConnIds PROVE WholeInv(c)'
  BY DEF LookupInv, WholeInv, Unanswered
<1>5. ASSUME NEW c \in ConnIds, NEW i \in Places PROVE PlaceInv(c, i)'
  <2>1. PlaceInv(c, i) /\ ring[c].slot[i] \in Nat
    BY <1>1, SlotType DEF LookupInv
  <2>2. ring[c].slot[i] <= asked'
    BY <1>1, <2>1 DEF PlaceInv
  <2> QED
    BY <2>1, <2>2 DEF PlaceInv
<1> QED
  BY <1>2, <1>3, <1>4, <1>5 DEF LookupInv, Asked

LEMMA AskedLookup ==
    ASSUME LookupInv, NEW c \in ConnIds, asked < MaxLookups, asked' = asked + 1,
           Len(wire[c]) < RingSize,
           ring' = [ring EXCEPT ![c] = PushCallback(@, asked + 1)],
           wire' = [wire EXCEPT ![c] = Append(@, asked + 1)],
           spoiled' = spoiled \cup Spoil(c, {asked + 1}),
           UNCHANGED <<live, frame, got>>
    PROVE  LookupInv' /\ (Asked \/ GivesUp)
<1> DEFINE l == asked + 1
           q == PushCallback(ring[c], l)
<1>1. /\ LookupType /\ MaxLookups \in Nat /\ asked \in Nat /\ l \in Lookups /\ l \in Nat /\ l > asked
      /\ l # Nobody /\ asked' \in 0 .. MaxLookups
      /\ l \notin spoiled
  BY StoreAssumption DEF LookupInv, LookupType, Lookups, Nobody
<1>2. /\ ring[c] \in Rings /\ wire[c] \in Seq(Lookups) /\ ring[c].end \in Places
      /\ ring[c].slot \in [Places -> Nat] /\ RingSize \in Nat \ {0}
  BY <1>1, SlotType, RingAssumption
<1>3. q \in Rings /\ q.slot = [ring[c].slot EXCEPT ![ring[c].end] = l]
  <2> DEFINE sl == [ring[c].slot EXCEPT ![ring[c].end] = l]
             en == (ring[c].end + 1) % RingSize
  <2>1. ring[c] = [slot |-> ring[c].slot, start |-> ring[c].start, end |-> ring[c].end]
    BY <1>2 DEF Rings
  <2>2. q = [ring[c] EXCEPT !.slot = sl, !.end = en]
    BY DEF PushCallback
  <2>3. sl \in [Places -> Nat] /\ en \in Places /\ ring[c].start \in Places
    <3>1. sl \in [Places -> Nat]
      BY <1>1, <1>2
    <3>2. en \in Places
      BY <1>2 DEF Places
    <3>3. ring[c].start \in Places
      BY <1>2 DEF Rings, Places
    <3> QED
      BY <3>1, <3>2, <3>3
  <2> HIDE DEF sl, en, q
  <2>4. q = [slot |-> sl, start |-> ring[c].start, end |-> en]
    BY <2>1, <2>2
  <2> QED
    BY <2>3, <2>4 DEF Rings, Places, sl
<1> HIDE DEF q
<1>4. /\ ring'[c] = q /\ wire'[c] = Append(wire[c], l)
      /\ \A d \in ConnIds \ {c} : ring'[d] = ring[d] /\ wire'[d] = wire[d]
  BY <1>1 DEF LookupType, q
<1>5. spoiled' = (IF frame[c] = "whole" THEN spoiled ELSE spoiled \cup {l})
  BY DEF Spoil
<1>6. spoiled' \subseteq 1 .. asked'
  <2>1. spoiled \subseteq 1 .. asked'
    BY <1>1 DEF LookupType
  <2>2. l \in 1 .. asked'
    BY <1>1
  <2> QED
    BY <1>5, <2>1, <2>2
<1> HIDE DEF l
<1>7. LookupType'
  <2>1. wire' \in [ConnIds -> Seq(Lookups)]
    <3>1. Append(wire[c], l) \in Seq(Lookups)
      BY <1>1, <1>2
    <3> QED
      BY <1>1, <3>1 DEF LookupType, l
  <2>2. ring' \in [ConnIds -> Rings]
    BY <1>1, <1>3 DEF LookupType, l, q
  <2> QED
    BY <1>1, <1>6, <2>1, <2>2 DEF LookupType
<1>8. \A m \in Lookups \ spoiled' : got'[m] = Nobody \/ (got'[m] = m /\ m <= asked')
  BY <1>1, <1>5 DEF LookupInv, Lookups
<1>9. ASSUME NEW d \in ConnIds, frame'[d] = "whole" PROVE WholeInv(d)'
  <2>1. RingMatches(ring[d], wire[d]) /\ Unanswered(d) /\ frame[d] = "whole"
    BY <1>9 DEF LookupInv, WholeInv
  <2>2. CASE d # c
    BY <1>4, <2>1, <2>2 DEF WholeInv, Unanswered
  <2>3. CASE d = c
    <3>1. RingMatches(q, Append(wire[c], l))
      BY <1>1, <1>2, <2>1, <2>3, PushMatches DEF q
    <3>2. got[l] = Nobody
      BY <1>1, <1>5, <2>1, <2>3 DEF LookupInv
    <3>3. \A k \in 1 .. Len(wire'[c]) : wire'[c][k] = l \/ (k \in 1 .. Len(wire[c]) /\ wire'[c][k] = wire[c][k])
      BY <1>1, <1>2, <1>4
    <3>4. Unanswered(c)'
      BY <2>1, <2>3, <3>2, <3>3 DEF Unanswered
    <3> QED
      BY <1>4, <2>3, <3>1, <3>4 DEF WholeInv
  <2> QED
    BY <2>2, <2>3
<1>10. ASSUME NEW d \in ConnIds, NEW i \in Places
       PROVE  ring'[d].slot[i] = IF d = c /\ i = ring[c].end THEN l ELSE ring[d].slot[i]
  BY <1>2, <1>3, <1>4
<1>11. ASSUME NEW d \in ConnIds, NEW i \in Places
       PROVE  ring[d].slot[i] <= asked /\ ring[d].slot[i] \in Nat /\ ring[d].slot[i] # l
  <2>1. PlaceInv(d, i) /\ ring[d].slot[i] \in Nat
    BY <1>1, SlotType DEF LookupInv
  <2> QED
    BY <1>1, <2>1 DEF PlaceInv
<1>12. ASSUME NEW d \in ConnIds, NEW i \in Places PROVE PlaceInv(d, i)'
  <2>1. PlaceInv(d, i)
    BY DEF LookupInv
  <2>2. CASE d = c /\ i = ring[c].end
    <3>1. ring'[d].slot[i] = l /\ l <= asked'
      BY <1>1, <1>10, <2>2 DEF l
    <3>2. l \in spoiled' <=> frame'[d] # "whole"
      BY <1>1, <1>5, <2>2
    <3>3. \A e \in ConnIds, j \in Places : ring'[e].slot[j] = l => e = d /\ j = i
      BY <1>10, <1>11, <2>2
    <3> QED
      BY <3>1, <3>2, <3>3 DEF PlaceInv
  <2>3. CASE ~ (d = c /\ i = ring[c].end)
    <3>1. ring'[d].slot[i] = ring[d].slot[i] /\ ring[d].slot[i] # l
      BY <1>10, <1>11, <2>3
    <3>2. ring[d].slot[i] <= asked'
      BY <1>1, <1>11
    <3>3. ring[d].slot[i] \in spoiled' <=> ring[d].slot[i] \in spoiled
      BY <1>5, <3>1
    <3>4. \A e \in ConnIds, j \in Places : ring'[e].slot[j] = ring[d].slot[i] => ring[e].slot[j] = ring[d].slot[i]
      BY <1>10, <3>1
    <3> QED
      BY <2>1, <3>1, <3>2, <3>3, <3>4 DEF PlaceInv
  <2> QED
    BY <2>2, <2>3
<1>13. Asked \/ GivesUp
  <2>1. CASE frame[c] = "whole"
    BY <1>1, <1>5, <2>1 DEF Asked, l
  <2>2. CASE frame[c] # "whole"
    <3>1. \A m \in Lookups \ spoiled' : m # l /\ m \in Nat
      BY <1>1, <1>5, <2>2 DEF Lookups
    <3>2. ASSUME NEW m \in Lookups \ spoiled' PROVE m > asked' <=> m > asked
      <4>1. m \in Nat /\ m # asked + 1 /\ asked \in Nat
        BY <1>1, <3>1 DEF l
      <4> QED
        BY <4>1
    <3> QED
      BY <1>5, <2>2, <3>2 DEF GivesUp
  <2> QED
    BY <2>1, <2>2
<1>14. \A d \in ConnIds : WholeInv(d)'
  BY <1>9 DEF WholeInv
<1> QED
  BY <1>7, <1>8, <1>12, <1>13, <1>14 DEF LookupInv

(* The callbacks of c's ring that a reply calls.                           *)
LEMMA PopLookup ==
    ASSUME LookupInv, NEW c \in ConnIds
    PROVE  /\ PopCallback(ring[c]) \in Rings /\ PopCallback(ring[c]).slot = ring[c].slot
           /\ PopCallback(PopCallback(ring[c])) \in Rings /\ PopCallback(PopCallback(ring[c])).slot = ring[c].slot
           /\ \E i \in Places : NextCallback(ring[c]) = ring[c].slot[i]
           /\ \E i \in Places : NextCallback(PopCallback(ring[c])) = ring[c].slot[i]
<1>1. ASSUME NEW r \in Rings
      PROVE  /\ PopCallback(r) \in Rings /\ PopCallback(r).slot = r.slot
             /\ \E i \in Places : NextCallback(r) = r.slot[i]
  <2>1. r = [slot |-> r.slot, start |-> r.start, end |-> r.end] /\ r.start \in Places
    BY DEF Rings, Places
  <2>2. PopCallback(r) = [slot |-> r.slot, start |-> (r.start + 1) % RingSize, end |-> r.end]
    BY <2>1 DEF PopCallback
  <2>3. (r.start + 1) % RingSize \in 0 .. RingSize - 1
    BY <2>1, RingAssumption DEF Places
  <2> QED
    BY <2>1, <2>2, <2>3 DEF Rings, NextCallback
<1>2. ring[c] \in Rings
  BY SlotType DEF LookupInv
<1> QED
  BY <1>1, <1>2

(* A step that leaves the places of all rings, and the wires and frames of *)
(* all connections but c, alone, and calls no callback but c's.            *)
LEMMA OthersKept ==
    ASSUME LookupInv, NEW c \in ConnIds, UNCHANGED asked,
           LookupType', spoiled \subseteq spoiled',
           \A d \in ConnIds : ring'[d].slot = ring[d].slot,
           \A d \in ConnIds \ {c} : ring'[d] = ring[d] /\ wire'[d] = wire[d] /\ frame'[d] = frame[d],
           \A l \in spoiled' \ spoiled : \E i \in Places : l = ring[c].slot[i],
           \A l \in Lookups : got'[l] = got[l] \/ \E i \in Places : l = ring[c].slot[i],
           \A i \in Places : ring[c].slot[i] # Nobody => (ring[c].slot[i] \in spoiled' <=> frame'[c] # "whole"),
           \A l \in Lookups \ spoiled' : got'[l] = got[l] \/ got'[l] = l,
           WholeInv(c)'
    PROVE  LookupInv'
<1>1. LookupType /\ asked \in Nat
  BY SlotType DEF LookupInv, LookupType
<1>2. \A l \in Lookups \ spoiled' : got'[l] = Nobody \/ (got'[l] = l /\ l <= asked')
  <2> SUFFICES ASSUME NEW l \in Lookups \ spoiled' PROVE got'[l] = Nobody \/ (got'[l] = l /\ l <= asked')
    OBVIOUS
  <2>1. CASE got'[l] = got[l]
    BY <2>1 DEF LookupInv
  <2>2. CASE got'[l] = l /\ got'[l] # got[l]
    <3>1. PICK i \in Places : l = ring[c].slot[i]
      BY <2>2
    <3>2. l <= asked
      BY <3>1 DEF LookupInv, PlaceInv
    <3> QED
      BY <2>2, <3>2
  <2> QED
    BY <2>1, <2>2
<1>3. ASSUME NEW d \in ConnIds, NEW i \in Places PROVE PlaceInv(d, i)'
  <2>1. PlaceInv(d, i)
    BY DEF LookupInv
  <2>2. CASE d = c
    BY <2>1, <2>2 DEF PlaceInv
  <2>3. CASE d # c
    <3>1. ring[d].slot[i] # Nobody => \A j \in Places : ring[c].slot[j] # ring[d].slot[i]
      BY <2>1, <2>3 DEF PlaceInv
    <3>2. ring[d].slot[i] # Nobody => (ring[d].slot[i] \in spoiled' <=> ring[d].slot[i] \in spoiled)
      BY <3>1
    <3> QED
      BY <2>1, <2>3, <3>2 DEF PlaceInv
  <2> QED
    BY <2>2, <2>3
<1>4. ASSUME NEW d \in ConnIds, d # c PROVE WholeInv(d)'
  <2> SUFFICES ASSUME frame[d] = "whole" PROVE RingMatches(ring[d], wire[d]) /\ Unanswered(d)'
    BY <1>4 DEF WholeInv
  <2>1. RingMatches(ring[d], wire[d]) /\ Unanswered(d)
    BY DEF LookupInv, WholeInv
  <2>2. ASSUME NEW k \in 1 .. Len(wire[d]) PROVE got'[wire[d][k]] = Nobody
    <3>1. PICK i \in Places : ring[d].slot[i] = wire[d][k] /\ wire[d][k] \in Lookups
      BY OnWire
    <3>2. wire[d][k] # Nobody
      BY <3>1, StoreAssumption DEF Lookups, Nobody
    <3>3. PlaceInv(d, i)
      BY DEF LookupInv
    <3>4. \A j \in Places : ring[c].slot[j] # wire[d][k]
      BY <1>4, <3>1, <3>2, <3>3 DEF PlaceInv
    <3>5. got'[wire[d][k]] = got[wire[d][k]]
      BY <3>1, <3>4
    <3> QED
      BY <2>1, <3>5 DEF Unanswered
  <2> QED
    BY <1>4, <2>1, <2>2 DEF Unanswered
<1>5. \A d \in ConnIds : WholeInv(d)'
  BY <1>4
<1> QED
  BY <1>2, <1>3, <1>5 DEF LookupInv

LEMMA AnswerLookup ==
    ASSUME LookupInv, NEW c \in ConnIds, Answer(c)
    PROVE  LookupInv' /\ StepOf
<1> DEFINE r == PopCallback(ring[c])
           w == Tail(wire[c])
           x == NextCallback(ring[c])
<1>1. /\ LookupType /\ wire[c] \in Seq(Lookups) /\ wire[c] # <<>> /\ ring[c] \in Rings /\ Len(wire[c]) \in Nat
      /\ asked \in Nat
  BY SlotType DEF LookupInv, Answer
<1>2. /\ ring' = [ring EXCEPT ![c] = r] /\ wire' = [wire EXCEPT ![c] = w]
      /\ got' = [got EXCEPT ![x] = Head(wire[c])]
      /\ UNCHANGED <<asked, live, frame, spoiled>> /\ x # Nobody
  BY DEF Answer, Pop
<1>3. r \in Rings /\ r.slot = ring[c].slot /\ \E i \in Places : x = ring[c].slot[i]
  BY PopLookup
<1>4. /\ Head(wire[c]) \in Lookups /\ w \in Seq(Lookups) /\ Len(w) = Len(wire[c]) - 1
      /\ Head(wire[c]) = wire[c][1] /\ \A k \in 1 .. Len(w) : w[k] = wire[c][k + 1]
  BY <1>1
<1>5. frame[c] = "whole" => RingMatches(r, w) /\ x = Head(wire[c])
  BY <1>1, PopMatches DEF LookupInv, WholeInv
<1> HIDE DEF r, w, x
<1>6. LookupType'
  <2>1. got' \in [Lookups -> Nat]
    <3>1. Head(wire[c]) \in Nat
      BY <1>4, StoreAssumption DEF Lookups
    <3> QED
      BY <1>1, <1>2, <3>1 DEF LookupType
  <2> QED
    BY <1>1, <1>2, <1>3, <1>4, <2>1 DEF LookupType
<1>7. /\ ring'[c] = r /\ wire'[c] = w
      /\ \A d \in ConnIds \ {c} : ring'[d] = ring[d] /\ wire'[d] = wire[d] /\ frame'[d] = frame[d]
      /\ \A l \in Lookups : got'[l] = IF l = x THEN Head(wire[c]) ELSE got[l]
  BY <1>1, <1>2 DEF LookupType
<1>8. PICK i \in Places : x = ring[c].slot[i]
  BY <1>3
<1>9. x \in spoiled <=> frame[c] # "whole"
  BY <1>2, <1>8 DEF LookupInv, PlaceInv
<1>10. CASE frame[c] = "whole"
  <2>1. 1 \in 1 .. Len(wire[c])
    BY <1>1
  <2>2. x \in 1 .. asked /\ x \notin spoiled /\ x \in Lookups /\ got[x] = Nobody
    BY <1>4, <1>5, <1>10, <2>1, OnWire DEF LookupInv, WholeInv, Unanswered
  <2>3. WholeInv(c)'
    <3>1. ASSUME NEW k \in 1 .. Len(w) PROVE got'[w[k]] = Nobody
      <4>1. k + 1 \in 1 .. Len(wire[c]) /\ w[k] = wire[c][k + 1] /\ k + 1 # 1
        BY <1>1, <1>4
      <4>2. w[k] # x
        BY <1>4, <1>5, <1>10, <2>1, <4>1, WireApart
      <4>3. w[k] \in Lookups /\ got[w[k]] = Nobody
        BY <1>10, <4>1, OnWire DEF LookupInv, WholeInv, Unanswered
      <4> QED
        BY <1>7, <4>2, <4>3
    <3> QED
      BY <1>5, <1>7, <1>10, <3>1 DEF WholeInv, Unanswered
  <2>4. LookupInv'
    <3>1. \A l \in Lookups : got'[l] = got[l] \/ (l = x /\ got'[l] = l)
      BY <1>5, <1>7, <1>10
    <3>2. \A d \in ConnIds : ring'[d].slot = ring[d].slot
      BY <1>3, <1>7
    <3>3. \A j \in Places : ring[c].slot[j] # Nobody => (ring[c].slot[j] \in spoiled' <=> frame'[c] # "whole")
      BY <1>2 DEF LookupInv, PlaceInv
    <3> QED
      BY <1>2, <1>6, <1>7, <1>8, <2>3, <3>1, <3>2, <3>3, OthersKept
  <2>5. Answered(x)
    BY <1>2, <1>5, <1>10, <2>2 DEF Answered
  <2> QED
    BY <2>2, <2>4, <2>5 DEF StepOf
<1>11. CASE frame[c] # "whole"
  <2>1. \A l \in Lookups \ spoiled' : got'[l] = got[l]
    BY <1>2, <1>7, <1>9, <1>11
  <2>2. WholeInv(c)'
    BY <1>2, <1>11 DEF WholeInv
  <2>3. \A d \in ConnIds : ring'[d].slot = ring[d].slot
    BY <1>3, <1>7
  <2>4. \A j \in Places : ring[c].slot[j] # Nobody => (ring[c].slot[j] \in spoiled' <=> frame'[c] # "whole")
    BY <1>2 DEF LookupInv, PlaceInv
  <2>5. LookupInv'
    BY <1>2, <1>6, <1>7, <1>8, <2>1, <2>2, <2>3, <2>4, OthersKept
  <2>6. GivesUp
    BY <1>2, <2>1 DEF GivesUp
  <2> QED
    BY <2>5, <2>6 DEF StepOf
<1> QED
  BY <1>10, <1>11

(* A reply is cut: the lookups of its connection are given up, no other.   *)
LEMMA CutLookup ==
    ASSUME LookupInv, NEW c \in ConnIds, AnswerCut(c)
    PROVE  LookupInv' /\ StepOf
<1> DEFINE r == PopCallback(PopCallback(ring[c]))
           w == Tail(Tail(wire[c]))
           x == NextCallback(ring[c])
           y == NextCallback(PopCallback(ring[c]))
<1>1. /\ LookupType /\ wire[c] \in Seq(Lookups) /\ Len(wire[c]) >= 2 /\ ring[c] \in Rings /\ Len(wire[c]) \in Nat
      /\ asked \in Nat
  BY SlotType DEF LookupInv, AnswerCut
<1>2. /\ ring' = [ring EXCEPT ![c] = r] /\ wire' = [wire EXCEPT ![c] = w]
      /\ got' = [got EXCEPT ![x] = wire[c][1], ![y] = wire[c][2]]
      /\ frame' = [frame EXCEPT ![c] = "rest"] /\ spoiled' = spoiled \cup InRing(c)
      /\ UNCHANGED <<asked, live>>
  BY DEF AnswerCut
<1>3. r \in Rings /\ r.slot = ring[c].slot
  BY PopLookup
<1>4. PICK i \in Places : x = ring[c].slot[i]
  BY PopLookup
<1>5. PICK j \in Places : y = ring[c].slot[j]
  BY PopLookup
<1>6. wire[c][1] \in Lookups /\ wire[c][2] \in Lookups /\ w \in Seq(Lookups)
  <2> DEFINE t == Tail(wire[c])
  <2>1. t \in Seq(Lookups) /\ Len(t) = Len(wire[c]) - 1
    BY <1>1
  <2> HIDE DEF t
  <2>2. t # <<>>
    BY <1>1, <2>1
  <2>3. Tail(t) \in Seq(Lookups)
    BY <2>1, <2>2
  <2>4. 1 \in 1 .. Len(wire[c]) /\ 2 \in 1 .. Len(wire[c])
    BY <1>1
  <2> QED
    BY <1>1, <2>3, <2>4 DEF w, t
<1>7. x # Nobody /\ y # Nobody
  BY DEF AnswerCut
<1> HIDE DEF r, w, x, y
<1>8. /\ ring'[c] = r /\ wire'[c] = w /\ frame'[c] = "rest"
      /\ \A d \in ConnIds \ {c} : ring'[d] = ring[d] /\ wire'[d] = wire[d] /\ frame'[d] = frame[d]
      /\ \A l \in Lookups \ {x, y} : got'[l] = got[l]
      /\ got' \in [Lookups -> Nat]
  <2>1. wire[c][1] \in Nat /\ wire[c][2] \in Nat
    BY <1>6, StoreAssumption DEF Lookups
  <2> QED
    BY <1>1, <1>2, <2>1 DEF LookupType
<1>9. InRing(c) = {ring[c].slot[k] : k \in Places} \ {Nobody}
  BY DEF InRing, Places
<1>10. x \in spoiled' /\ y \in spoiled'
  BY <1>2, <1>4, <1>5, <1>7, <1>9
<1>11. InRing(c) \subseteq 1 .. asked
  <2>1. \A k \in Places : ring[c].slot[k] \in Nat /\ ring[c].slot[k] <= asked
    BY <1>1, SlotType DEF LookupInv, PlaceInv
  <2> QED
    BY <1>1, <1>9, <2>1 DEF Nobody
<1>12. LookupType'
  <2>1. frame' \in [ConnIds -> Frames]
    BY <1>1, <1>2 DEF LookupType, Frames
  <2> QED
    BY <1>1, <1>2, <1>3, <1>6, <1>8, <1>11, <2>1 DEF LookupType
<1>13. \A l \in Lookups \ spoiled' : got'[l] = got[l]
  BY <1>8, <1>10
<1>14. LookupInv'
  <2>1. WholeInv(c)'
    BY <1>8 DEF WholeInv
  <2>2. \A d \in ConnIds : ring'[d].slot = ring[d].slot
    BY <1>3, <1>8
  <2>3. \A k \in Places : ring[c].slot[k] # Nobody => (ring[c].slot[k] \in spoiled' <=> frame'[c] # "whole")
    BY <1>2, <1>8, <1>9
  <2>4. \A l \in spoiled' \ spoiled : \E k \in Places : l = ring[c].slot[k]
    BY <1>2, <1>9
  <2>5. \A l \in Lookups : got'[l] = got[l] \/ \E k \in Places : l = ring[c].slot[k]
    BY <1>4, <1>5, <1>8
  <2>6. spoiled \subseteq spoiled' /\ asked' = asked
    BY <1>2
  <2> QED
    BY <1>8, <1>12, <1>13, <2>1, <2>2, <2>3, <2>4, <2>5, <2>6, OthersKept
<1>15. GivesUp
  BY <1>2, <1>13 DEF GivesUp
<1> QED
  BY <1>14, <1>15 DEF StepOf

(* The rest of a reply is taken for one.                                   *)
LEMMA RestLookup ==
    ASSUME LookupInv, NEW c \in ConnIds, AnswerRest(c)
    PROVE  LookupInv' /\ StepOf
<1> DEFINE r == PopCallback(ring[c])
           x == NextCallback(ring[c])
<1>1. LookupType /\ wire[c] \in Seq(Lookups) /\ asked \in Nat /\ MaxLookups \in Nat
  BY SlotType DEF LookupInv
<1>2. /\ ring' = [ring EXCEPT ![c] = r] /\ got' = [got EXCEPT ![x] = Stray]
      /\ frame[c] = "rest" /\ x # Nobody
      /\ UNCHANGED <<asked, live, spoiled>>
  BY DEF AnswerRest, Pop
<1>3. \/ frame' = [frame EXCEPT ![c] = "shifted"] /\ wire' = wire
      \/ frame' = frame /\ wire' = [wire EXCEPT ![c] = Tail(wire[c])] /\ wire[c] # <<>>
  BY DEF AnswerRest
<1>4. r \in Rings /\ r.slot = ring[c].slot
  BY PopLookup
<1>5. PICK i \in Places : x = ring[c].slot[i]
  BY PopLookup
<1> HIDE DEF r, x
<1>6. x \in spoiled
  BY <1>2, <1>5 DEF LookupInv, PlaceInv
<1>7. /\ ring'[c] = r /\ frame'[c] # "whole"
      /\ \A d \in ConnIds \ {c} : ring'[d] = ring[d] /\ wire'[d] = wire[d] /\ frame'[d] = frame[d]
      /\ \A l \in Lookups \ {x} : got'[l] = got[l]
  BY <1>1, <1>2, <1>3 DEF LookupType
<1>8. LookupType'
  <2>1. got' \in [Lookups -> Nat]
    <3>1. Stray \in Nat
      BY <1>1 DEF Stray
    <3>2. got \in [Lookups -> Nat]
      BY <1>1 DEF LookupType
    <3> QED
      BY <1>2, <3>1, <3>2
  <2>2. frame' \in [ConnIds -> Frames]
    BY <1>1, <1>3 DEF LookupType, Frames
  <2>3. wire[c] # <<>> => Tail(wire[c]) \in Seq(Lookups)
    BY <1>1
  <2>4. wire' \in [ConnIds -> Seq(Lookups)]
    BY <1>1, <1>3, <2>3 DEF LookupType
  <2> QED
    BY <1>1, <1>2, <1>4, <2>1, <2>2, <2>4 DEF LookupType
<1>9. \A l \in Lookups \ spoiled' : got'[l] = got[l]
  BY <1>2, <1>6, <1>7
<1>10. LookupInv'
  <2>1. WholeInv(c)'
    BY <1>7 DEF WholeInv
  <2>2. \A d \in ConnIds : ring'[d].slot = ring[d].slot
    BY <1>4, <1>7
  <2>3. \A k \in Places : ring[c].slot[k] # Nobody => (ring[c].slot[k] \in spoiled' <=> frame'[c] # "whole")
    BY <1>2, <1>7 DEF LookupInv, PlaceInv
  <2> QED
    BY <1>2, <1>5, <1>7, <1>8, <1>9, <2>1, <2>2, <2>3, OthersKept
<1>11. GivesUp
  BY <1>2, <1>9 DEF GivesUp
<1> QED
  BY <1>10, <1>11 DEF StepOf

(* A connection is gone with its ring; the next at its address starts anew.*)
LEMMA LostLookup ==
    ASSUME LookupInv, NEW c \in ConnIds, ConnectionLost(c)
    PROVE  LookupInv' /\ StepOf
<1>1. LookupType
  BY DEF LookupInv
<1>2. /\ ring' = [ring EXCEPT ![c] = EmptyRing] /\ wire' = [wire EXCEPT ![c] = <<>>]
      /\ frame' = [frame EXCEPT ![c] = "whole"]
      /\ UNCHANGED <<asked, got, spoiled>> /\ live' \subseteq ConnIds
  BY DEF ConnectionLost, Close, LookupInv, LookupType
<1>3. LookupType'
  BY <1>1, <1>2, EmptyMatches DEF LookupType, Frames
<1>4. /\ ring'[c] = EmptyRing /\ wire'[c] = <<>>
      /\ \A d \in ConnIds \ {c} : ring'[d] = ring[d] /\ wire'[d] = wire[d] /\ frame'[d] = frame[d]
  BY <1>1, <1>2 DEF LookupType
<1>5. ASSUME NEW d \in ConnIds PROVE WholeInv(d)'
  <2>1. CASE d = c
    BY <1>4, <2>1, EmptyMatches DEF WholeInv, Unanswered
  <2>2. CASE d # c
    BY <1>2, <1>4, <2>2 DEF LookupInv, WholeInv, Unanswered
  <2> QED
    BY <2>1, <2>2
<1>6. \A i \in Places : ring'[c].slot[i] = Nobody
  BY <1>4 DEF EmptyRing, Places
<1>7. ASSUME NEW d \in ConnIds, NEW i \in Places PROVE PlaceInv(d, i)'
  <2>1. CASE d = c
    <3>1. Nobody <= asked'
      BY <1>2, <1>1, SlotType DEF Nobody
    <3> QED
      BY <1>6, <2>1, <3>1 DEF PlaceInv
  <2>2. CASE d # c
    <3>1. PlaceInv(d, i) /\ ring'[d] = ring[d] /\ frame'[d] = frame[d]
      BY <1>4, <2>2 DEF LookupInv
    <3>2. \A e \in ConnIds, j \in Places :
             ring'[e].slot[j] = Nobody \/ ring'[e].slot[j] = ring[e].slot[j]
      BY <1>4, <1>6
    <3> QED
      BY <1>2, <3>1, <3>2 DEF PlaceInv
  <2> QED
    BY <2>1, <2>2
<1>8. \A l \in Lookups \ spoiled' : got'[l] = Nobody \/ (got'[l] = l /\ l <= asked')
  BY <1>2 DEF LookupInv
<1>9. GivesUp
  BY <1>2 DEF GivesUp
<1> QED
  BY <1>3, <1>5, <1>7, <1>8, <1>9 DEF LookupInv, StepOf

LEMMA NextLookup == LookupInv /\ [Next]_vars => LookupInv' /\ StepOf
<1> SUFFICES ASSUME LookupInv, [Next]_vars PROVE LookupInv' /\ StepOf
  OBVIOUS
<1>1. ASSUME NEW slot \in Slots, Get(slot) PROVE LookupInv' /\ StepOf
  <2>1. PICK c : /\ asked < MaxLookups /\ asked' = asked + 1 /\ Len(wire[c]) < RingSize
                 /\ IF c \in live
                    THEN /\ ring' = [ring EXCEPT ![c] = PushCallback(@, asked + 1)]
                         /\ wire' = [wire EXCEPT ![c] = Append(@, asked + 1)]
                         /\ spoiled' = spoiled \cup Spoil(c, {asked + 1})
                    ELSE UNCHANGED <<ring, wire, spoiled>>
                 /\ UNCHANGED <<live, frame, got>>
    BY <1>1 DEF Get
  <2>2. CASE c \in live
    <3>1. c \in ConnIds
      BY <2>2 DEF LookupInv, LookupType
    <3>2. LookupInv' /\ (Asked \/ GivesUp)
      BY <2>1, <2>2, <3>1, AskedLookup
    <3> QED
      BY <3>2 DEF StepOf
  <2>3. CASE c \notin live
    BY <2>1, <2>3, AskedNowhere DEF StepOf
  <2> QED
    BY <2>2, <2>3
<1>2. ASSUME UNCHANGED <<ring, wire, frame, asked, got, spoiled>>, live' \subseteq ConnIds PROVE LookupInv' /\ StepOf
  <2>1. LookupType'
    BY <1>2 DEF LookupInv, LookupType
  <2>2. \A d \in ConnIds : WholeInv(d)' /\ \A i \in Places : PlaceInv(d, i)'
    BY <1>2 DEF LookupInv, WholeInv, Unanswered, PlaceInv
  <2>3. LookupInv'
    BY <1>2, <2>1, <2>2 DEF LookupInv
  <2> QED
    BY <1>2, <2>3 DEF StepOf, GivesUp
<1>3. ASSUME NEW s \in Servers, Reconnect(s) PROVE LookupInv' /\ StepOf
  <2>1. UNCHANGED <<ring, wire, frame, asked, got, spoiled>> /\ live' \subseteq ConnIds
    BY <1>3 DEF Reconnect, ConnectionMade, Open, LookupInv, LookupType
  <2> QED
    BY <1>2, <2>1
<1>4. ASSUME NEW slot \in Slots, Set(slot) PROVE LookupInv' /\ StepOf
  <2>1. UNCHANGED <<ring, wire, frame, asked, got, spoiled>> /\ live' \subseteq ConnIds
    BY <1>4 DEF Set, LookupInv, LookupType
  <2> QED
    BY <1>2, <2>1
<1>5. CASE UNCHANGED vars
  <2>1. UNCHANGED <<ring, wire, frame, asked, got, spoiled>> /\ live' \subseteq ConnIds
    BY <1>5 DEF vars, LookupInv, LookupType
  <2> QED
    BY <1>2, <2>1
<1> QED
  BY <1>1, <1>3, <1>4, <1>5, AnswerLookup, CutLookup, RestLookup, LostLookup DEF Next

(* The last case of Status never happens.                                  *)
NeverWrong ==
    Status = [l \in Lookups |-> IF l \in spoiled THEN "given up" ELSE IF l > asked THEN "new"
                                ELSE IF got[l] = Nobody THEN "open" ELSE "done"]

LEMMA StatusIs == LookupInv => NeverWrong
<1> SUFFICES ASSUME LookupInv PROVE NeverWrong
  OBVIOUS
<1>1. asked \in Nat /\ \A l \in Lookups : l \in Nat /\ (l \notin spoiled => got[l] = Nobody \/ (got[l] = l /\ l <= asked))
  BY StoreAssumption DEF LookupInv, LookupType, Lookups
<1>2. ASSUME NEW l \in Lookups
      PROVE  Status[l] = IF l \in spoiled THEN "given up" ELSE IF l > asked THEN "new"
                         ELSE IF got[l] = Nobody THEN "open" ELSE "done"
  <2>1. Status[l] = CASE l \in spoiled -> "given up"
                      [] l \notin spoiled /\ l > asked -> "new"
                      [] l \notin spoiled /\ l <= asked /\ got[l] = Nobody -> "open"
                      [] l \notin spoiled /\ l <= asked /\ got[l] = l -> "done"
                      [] OTHER -> "wrong"
    BY DEF Status
  <2>2. CASE l \in spoiled
    BY <2>1, <2>2
  <2>3. CASE l \notin spoiled
    BY <1>1, <2>1, <2>3 DEF Lookups, Nobody
  <2> QED
    BY <2>2, <2>3
<1>3. Status = [l \in Lookups |-> Status[l]]
  BY DEF Status
<1> HIDE DEF Status
<1> QED
  BY <1>2, <1>3 DEF NeverWrong

LEMMA StepIsService ==
    ASSUME LookupInv, LookupInv', NeverWrong, NeverWrong', StepOf
    PROVE  Service!Next \/ UNCHANGED Status
<1>1. /\ Status = [l \in Lookups |-> Status[l]]
      /\ \A l \in Lookups : Status[l] = IF l \in spoiled THEN "given up" ELSE IF l > asked THEN "new"
                                        ELSE IF got[l] = Nobody THEN "open" ELSE "done"
  BY DEF NeverWrong
<1>2. /\ Status' = [l \in Lookups |-> Status'[l]]
      /\ \A l \in Lookups : Status'[l] = IF l \in spoiled' THEN "given up" ELSE IF l > asked' THEN "new"
                                         ELSE IF got'[l] = Nobody THEN "open" ELSE "done"
  BY DEF NeverWrong
<1>3. /\ asked \in Nat /\ MaxLookups \in Nat /\ Lookups = 1 .. MaxLookups
      /\ DOMAIN got = Lookups /\ \A l \in Lookups \ spoiled : got[l] = Nobody \/ l <= asked
  BY StoreAssumption DEF LookupInv, LookupType, Lookups
<1>4. CASE Asked
  <2> DEFINE l == asked + 1
  <2>1. l \in Lookups /\ Status[l] = "new"
    <3>1. l \in Lookups /\ l > asked /\ l \notin spoiled
      BY <1>3, <1>4 DEF Asked
    <3> HIDE DEF l
    <3> QED
      BY <1>1, <3>1
  <2>2. \A m \in Lookups : Status'[m] = IF m = l THEN "open" ELSE Status[m]
    <3>1. \A m \in Lookups : (m > asked' <=> m > asked /\ m # l) /\ got'[m] = got[m] /\ (m \in spoiled' <=> m \in spoiled)
      BY <1>3, <1>4 DEF Asked
    <3>2. got[l] = Nobody /\ l \notin spoiled
      BY <1>3, <1>4, <2>1 DEF Asked
    <3> HIDE DEF l
    <3> QED
      BY <1>1, <1>2, <3>1, <3>2, <2>1
  <2>3. Status' = [Status EXCEPT ![l] = "open"]
    BY <1>1, <1>2, <2>2
  <2> HIDE DEF l
  <2> QED
    BY <2>1, <2>3 DEF Service!Next, Service!Ask
<1>5. ASSUME NEW l \in Lookups, Answered(l) PROVE Service!Next
  <2>0. /\ l \notin spoiled /\ ~ (l > asked) /\ got[l] = Nobody
        /\ asked' = asked /\ spoiled' = spoiled
        /\ \A m \in Lookups : got'[m] = IF m = l THEN l ELSE got[m]
        /\ l # Nobody
    BY <1>3, <1>5 DEF Answered, Nobody
  <2>1. Status[l] = "open"
    BY <1>1, <2>0
  <2>2. \A m \in Lookups : Status'[m] = IF m = l THEN "done" ELSE Status[m]
    <3>1. Status'[l] = "done"
      BY <1>2, <2>0
    <3>2. \A m \in Lookups \ {l} : Status'[m] = Status[m]
      BY <1>1, <1>2, <2>0
    <3> QED
      BY <3>1, <3>2
  <2>3. Status' = [Status EXCEPT ![l] = "done"]
    BY <1>1, <1>2, <2>2
  <2> QED
    BY <2>1, <2>3 DEF Service!Next, Service!Reply
<1>6. CASE GivesUp
  <2> DEFINE ls == Lookups \cap spoiled'
  <2>1. \A m \in Lookups : Status'[m] = IF m \in ls THEN "given up" ELSE Status[m]
    <3>1. \A m \in Lookups \ spoiled' : m \notin spoiled /\ got'[m] = got[m] /\ (m > asked' <=> m > asked)
      BY <1>6 DEF GivesUp
    <3> QED
      BY <1>1, <1>2, <3>1
  <2>2. Status' = [m \in Lookups |-> IF m \in ls THEN "given up" ELSE Status[m]] /\ ls \in SUBSET Lookups
    BY <1>2, <2>1
  <2> HIDE DEF ls
  <2> QED
    BY <2>2 DEF Service!Next, Service!GiveUp
<1> QED
  BY <1>4, <1>5, <1>6 DEF StepOf

(* The client of the session servers is the service that a connection of   *)
(* the HTTP server expects: a lookup is answered at most once, with its    *)
(* own answer, whatever connections break while others are asked, unless   *)
(* it was on a connection that had a reply cut.                            *)
THEOREM StoreIsLookupService == Spec => IsLookupService
<1>1. Init => Service!Init
  <2> SUFFICES ASSUME Init PROVE Status = [l \in Lookups |-> "new"]
    BY DEF Service!Init
  <2>1. \A l \in Lookups : l > asked /\ l \notin spoiled
    BY DEF Init, Lookups
  <2> QED
    <3>1. ASSUME NEW l \in Lookups PROVE Status[l] = "new"
      <4>1. Status[l] = CASE l \in spoiled -> "given up"
                          [] l \notin spoiled /\ l > asked -> "new"
                          [] l \notin spoiled /\ l <= asked /\ got[l] = Nobody -> "open"
                          [] l \notin spoiled /\ l <= asked /\ got[l] = l -> "done"
                          [] OTHER -> "wrong"
        BY DEF Status
      <4> QED
        BY <2>1, <4>1 DEF Init, Lookups
    <3> QED
      BY <3>1 DEF Status
<1>2. LookupInv /\ LookupInv' /\ NeverWrong /\ NeverWrong' /\ [Next]_vars => [Service!Next]_Status
  BY NextLookup, StepIsService
<1> QED
  BY <1>1, <1>2, StatusIs, InitLookup, NextLookup, PTL DEF Spec, IsLookupService, Service!Spec
=============================================================================
