--------------------------- MODULE MrqClientProofs ---------------------------
(***************************************************************************)
(* The client of the work queue, for every number of servers and slots,    *)
(* size of the pools and number of losses: its slots name servers, and the *)
(* coroutines that reconnect, of which several of one server may run,      *)
(* overshoot the pool by the number of earlier losses at most.             *)
(***************************************************************************)
EXTENDS MrqClient, FiniteSetTheorems, TLAPS

(* The servers that are up are found one after the other: each has a       *)
(* number of its own of servers before it.                                 *)
LEMMA EveryTurnHasServer ==
    ASSUME NEW up \in SUBSET Servers, up # {}, NEW n \in Nat
    PROVE  RoundRobin(n, up) \in [0 .. n - 1 -> up]
<1> DEFINE size == Cardinality(up)
           turn == [s \in up |-> Cardinality(Before(s, up))]
<1>1. IsFiniteSet(Servers) /\ \A s \in Servers : s \in Int
  BY MrqAssumption, FS_Interval DEF Servers
<1>2. IsFiniteSet(up) /\ size \in Nat /\ size # 0
  BY <1>1, FS_Subset, FS_CardinalityType, FS_EmptySet
<1>3. ASSUME NEW s \in up
      PROVE  /\ IsFiniteSet(Before(s, up)) /\ Cardinality(Before(s, up)) \in 0 .. size - 1
             /\ IsFiniteSet(Before(s, up) \cup {s})
             /\ Cardinality(Before(s, up) \cup {s}) = Cardinality(Before(s, up)) + 1
  <2>1. Before(s, up) \in SUBSET up /\ Before(s, up) \cup {s} \in SUBSET up /\ s \notin Before(s, up)
    BY <1>1 DEF Before
  <2>2. IsFiniteSet(Before(s, up)) /\ Cardinality(Before(s, up)) \in Nat
    BY <1>2, <2>1, FS_Subset, FS_CardinalityType
  <2>3. /\ IsFiniteSet(Before(s, up) \cup {s})
        /\ Cardinality(Before(s, up) \cup {s}) = Cardinality(Before(s, up)) + 1
    BY <2>1, <2>2, FS_AddElement
  <2>4. Cardinality(Before(s, up) \cup {s}) <= size
    BY <1>2, <2>1, FS_Subset
  <2> QED
    BY <1>2, <2>2, <2>3, <2>4
<1>4. ASSUME NEW s \in up, NEW t \in up, s < t
      PROVE  Cardinality(Before(s, up)) # Cardinality(Before(t, up))
  <2>1. Before(s, up) \cup {s} \in SUBSET Before(t, up)
    BY <1>1, <1>4 DEF Before
  <2>2. Cardinality(Before(s, up) \cup {s}) <= Cardinality(Before(t, up))
    BY <1>3, <2>1, FS_Subset
  <2> QED
    BY <1>2, <1>3, <2>2
<1>5. turn \in [up -> 0 .. size - 1]
  BY <1>3
<1>6. \A s, t \in up : turn[s] = turn[t] => s = t
  <2> SUFFICES ASSUME NEW s \in up, NEW t \in up, s # t PROVE turn[s] # turn[t]
    OBVIOUS
  <2>1. s < t \/ t < s
    BY <1>1
  <2> QED
    BY <1>4, <2>1
<1> HIDE DEF turn
<1>7. turn \in Injection(up, 0 .. size - 1)
  BY <1>5, <1>6 DEF Injection, IsInjective
<1>8. IsFiniteSet(0 .. size - 1) /\ Cardinality(0 .. size - 1) = size
  BY <1>2, FS_Interval
<1>9. turn \in Surjection(up, 0 .. size - 1)
  BY <1>7, <1>8, FS_Injection
<1>10. ASSUME NEW i \in 0 .. n - 1
       PROVE  (CHOOSE s \in up : Cardinality(Before(s, up)) = i % Cardinality(up)) \in up
  <2>1. i % size \in 0 .. size - 1
    BY <1>2
  <2>2. PICK s \in up : turn[s] = i % size
    BY <1>9, <2>1 DEF Surjection
  <2>3. \E t \in up : Cardinality(Before(t, up)) = i % Cardinality(up)
    BY <2>2 DEF turn
  <2> QED
    BY <2>3
<1> QED
  BY <1>10 DEF RoundRobin

(* Whatever an array of connections holds.                                 *)
IsArray(a) == \E S : a \in Seq(S)

LEMMA ArrayGrows ==
    ASSUME NEW a, IsArray(a), NEW c
    PROVE  IsArray(Append(a, c)) /\ Len(Append(a, c)) = Len(a) + 1 /\ Len(a) \in Nat
<1>1. PICK S : a \in Seq(S)
  BY DEF IsArray
<1>2. a \in Seq(S \cup {c})
  BY <1>1
<1>3. Append(a, c) \in Seq(S \cup {c})
  BY <1>2
<1> QED
  BY <1>1, <1>3 DEF IsArray

LEMMA ArrayShrinks ==
    ASSUME NEW a, IsArray(a), Len(a) # 0, NEW c
    PROVE  IsArray(ShiftOut(a, c)) /\ Len(ShiftOut(a, c)) = Len(a) - 1
<1>1. PICK S : a \in Seq(S)
  BY DEF IsArray
<1>2. Len(a) \in Nat /\ Len(a) - 1 \in Nat
  BY <1>1
<1> DEFINE b == ShiftOut(a, c)
<1>3. DOMAIN b = 1 .. Len(a) - 1 /\ b = [i \in 1 .. Len(a) - 1 |-> b[i]]
  BY DEF ShiftOut
<1> HIDE DEF b
<1>4. b \in [1 .. Len(a) - 1 -> {b[i] : i \in 1 .. Len(a) - 1}]
  BY <1>3
<1>5. b \in Seq({b[i] : i \in 1 .. Len(a) - 1}) /\ Len(b) = Len(a) - 1
  BY <1>2, <1>4
<1> QED
  BY <1>5 DEF IsArray, b

-----------------------------------------------------------------------------
(* num_connections counts the connections of the array, which are those    *)
(* that are open, and a coroutine runs for a loss at most.  A coroutine    *)
(* that goes on finds the pool short of a connection; one that ends adds   *)
(* nothing to the sum of connections and coroutines.                       *)
Overshoot == IF lost = 0 THEN 0 ELSE lost - 1

PoolOf(s) ==
    /\ IsArray(conns[s])
    /\ IsFiniteSet(LiveOf(s))
    /\ Len(conns[s]) = Cardinality(LiveOf(s))
    /\ num_connections[s] = Cardinality(LiveOf(s))
    /\ trying[s] \in 0 .. lost
    /\ Cardinality(LiveOf(s)) + trying[s] <= PoolSize + Overshoot

PoolInv ==
    /\ lost \in Nat /\ made \in Nat
    /\ DOMAIN live \subseteq 1 .. made
    /\ \A c \in DOMAIN live : live[c] \in Servers
    /\ DOMAIN conns = Servers /\ DOMAIN num_connections = Servers /\ DOMAIN trying = Servers
    /\ \A s \in Servers : PoolOf(s)

LEMMA InitPool == Init => PoolInv
<1> SUFFICES ASSUME Init PROVE PoolInv
  OBVIOUS
<1>1. NumServers \in Nat \ {0} /\ PoolSize \in Nat \ {0} /\ NumServers * PoolSize \in Nat
  BY MrqAssumption
<1>2. /\ DOMAIN live = 1 .. NumServers * PoolSize
      /\ \A c \in 1 .. NumServers * PoolSize : live[c] = ServerOf(c, PoolSize)
      /\ made = NumServers * PoolSize /\ lost = 0
  BY DEF Init
<1>3. \A c \in 1 .. NumServers * PoolSize : ServerOf(c, PoolSize) \in Servers
  BY <1>1 DEF ServerOf, Servers
<1>4. ASSUME NEW s \in Servers
      PROVE  {c \in 1 .. NumServers * PoolSize : ServerOf(c, PoolSize) = s}
             = s * PoolSize + 1 .. s * PoolSize + PoolSize
  BY <1>1 DEF ServerOf, Servers
<1>5. /\ DOMAIN conns = Servers /\ DOMAIN num_connections = Servers /\ DOMAIN trying = Servers
      /\ \A s \in Servers : num_connections[s] = PoolSize /\ trying[s] = 0
  BY DEF Init, StartUp, Servers
<1>6. ASSUME NEW s \in Servers PROVE PoolOf(s)
  <2>1. LiveOf(s) = s * PoolSize + 1 .. s * PoolSize + PoolSize
    BY <1>2, <1>4 DEF LiveOf
  <2>2. s * PoolSize \in Int
    BY <1>1 DEF Servers
  <2>3. IsFiniteSet(LiveOf(s)) /\ Cardinality(LiveOf(s)) = PoolSize
    BY <1>1, <2>1, <2>2, FS_Interval
  <2>4. conns[s] = [k \in 1 .. PoolSize |-> s * PoolSize + k]
    BY DEF Init, StartUp, Servers
  <2>5. conns[s] \in Seq(Int) /\ Len(conns[s]) = PoolSize
    BY <1>1, <2>2, <2>4
  <2> QED
    BY <1>1, <1>2, <1>5, <2>3, <2>5 DEF PoolOf, IsArray, Overshoot
<1> QED
  BY <1>1, <1>2, <1>3, <1>5, <1>6 DEF PoolInv

LEMMA LostPool ==
    ASSUME PoolInv, NEW c \in DOMAIN live, ConnectionLost(c)
    PROVE  /\ PoolInv' /\ live[c] \in Servers /\ conns[live[c]] # <<>>
           /\ \A s \in Servers \ {live[c]} : conns'[s] = conns[s]
<1>1. PICK s \in Servers : s = live[c]
  BY DEF PoolInv
<1>2. /\ lost' = lost + 1 /\ made' = made
      /\ live' = [d \in DOMAIN live \ {c} |-> live[d]]
      /\ conns' = [conns EXCEPT ![s] = ShiftOut(conns[s], c)]
      /\ num_connections' = [num_connections EXCEPT ![s] = num_connections[s] - 1]
      /\ \/ trying' = [trying EXCEPT ![s] = trying[s] + 1]
         \/ trying' = trying
  BY <1>1 DEF ConnectionLost, ServerLost
<1>3. PoolOf(s) /\ lost \in Nat /\ s \in DOMAIN conns /\ s \in DOMAIN num_connections /\ s \in DOMAIN trying
  BY DEF PoolInv
<1>4. c \in LiveOf(s) /\ LiveOf(s)' = LiveOf(s) \ {c} /\ \A d \in Servers \ {s} : LiveOf(d)' = LiveOf(d)
  <2>1. c \in LiveOf(s)
    BY <1>1 DEF LiveOf
  <2>2. LiveOf(s)' = LiveOf(s) \ {c}
    BY <1>2 DEF LiveOf
  <2>3. ASSUME NEW d \in Servers \ {s} PROVE LiveOf(d)' = LiveOf(d)
    BY <1>1, <1>2 DEF LiveOf
  <2> QED
    BY <2>1, <2>2, <2>3
<1>5. /\ IsFiniteSet(LiveOf(s)') /\ Cardinality(LiveOf(s)') = Cardinality(LiveOf(s)) - 1
      /\ Cardinality(LiveOf(s)) \in Nat /\ Cardinality(LiveOf(s)) # 0
  <2>1. IsFiniteSet(LiveOf(s)) /\ Cardinality(LiveOf(s)) \in Nat
    BY <1>3, FS_CardinalityType DEF PoolOf
  <2>2. IsFiniteSet(LiveOf(s) \ {c}) /\ Cardinality(LiveOf(s) \ {c}) = Cardinality(LiveOf(s)) - 1
    BY <1>4, <2>1, FS_RemoveElement
  <2>3. LiveOf(s) # {}
    BY <1>4
  <2>4. Cardinality(LiveOf(s)) # 0
    BY <2>1, <2>3, FS_EmptySet
  <2> QED
    BY <1>4, <2>1, <2>2, <2>4
<1>6. IsArray(ShiftOut(conns[s], c)) /\ Len(ShiftOut(conns[s], c)) = Len(conns[s]) - 1
  BY <1>3, <1>5, ArrayShrinks DEF PoolOf
<1>7. PoolOf(s)'
  <2>1. /\ conns'[s] = ShiftOut(conns[s], c) /\ num_connections'[s] = num_connections[s] - 1
        /\ trying'[s] = trying[s] + 1 \/ trying'[s] = trying[s]
    BY <1>2, <1>3
  <2>2. trying'[s] \in 0 .. lost'
    BY <1>2, <1>3, <2>1 DEF PoolOf
  <2>3. Cardinality(LiveOf(s)') + trying'[s] <= PoolSize + Overshoot'
    BY <1>2, <1>3, <1>5, <2>1, MrqAssumption DEF PoolOf, Overshoot
  <2> QED
    BY <1>3, <1>5, <1>6, <2>1, <2>2, <2>3 DEF PoolOf
<1>8. ASSUME NEW d \in Servers \ {s} PROVE PoolOf(d)'
  <2>1. PoolOf(d) /\ Cardinality(LiveOf(d)) \in Nat
    BY FS_CardinalityType DEF PoolInv, PoolOf
  <2>2. conns'[d] = conns[d] /\ num_connections'[d] = num_connections[d] /\ trying'[d] = trying[d]
    BY <1>2 DEF PoolInv
  <2>3. trying'[d] \in 0 .. lost' /\ Cardinality(LiveOf(d)) + trying'[d] <= PoolSize + Overshoot'
    <3>1. Overshoot \in Nat /\ Overshoot' \in Nat /\ Overshoot <= Overshoot'
      BY <1>2, <1>3 DEF Overshoot
    <3>2. trying'[d] \in 0 .. lost'
      BY <1>2, <1>3, <2>1, <2>2 DEF PoolOf
    <3>3. Cardinality(LiveOf(d)) + trying[d] <= PoolSize + Overshoot
      BY <2>1 DEF PoolOf
    <3>4. trying[d] \in Nat
      BY <1>3, <2>1 DEF PoolOf
    <3> QED
      BY <2>1, <2>2, <3>1, <3>2, <3>3, <3>4, MrqAssumption
  <2> QED
    BY <1>4, <2>1, <2>2, <2>3 DEF PoolOf
<1>9. /\ lost' \in Nat /\ made' \in Nat /\ DOMAIN live' \subseteq 1 .. made'
      /\ \A d \in DOMAIN live' : live'[d] \in Servers
      /\ DOMAIN conns' = Servers /\ DOMAIN num_connections' = Servers /\ DOMAIN trying' = Servers
  BY <1>2 DEF PoolInv
<1>10. conns[s] # <<>>
  BY <1>3, <1>5 DEF PoolOf
<1>11. PoolInv'
  BY <1>7, <1>8, <1>9 DEF PoolInv
<1> QED
  BY <1>1, <1>2, <1>10, <1>11 DEF PoolInv

LEMMA ReconnectPool ==
    ASSUME PoolInv, NEW s \in Servers, Reconnect(s)
    PROVE  /\ PoolInv' /\ conns'[s] # <<>>
           /\ \A d \in Servers \ {s} : conns'[d] = conns[d]
<1> DEFINE c == made + 1
<1>1. /\ trying[s] > 0 /\ lost' = lost /\ made' = c
      /\ live' = [d \in DOMAIN live \cup {c} |-> IF d = c THEN s ELSE live[d]]
      /\ conns' = [conns EXCEPT ![s] = Append(conns[s], c)]
      /\ num_connections' = [num_connections EXCEPT ![s] = num_connections[s] + 1]
      /\ \/ num_connections[s] + 1 < PoolSize /\ trying' = trying
         \/ trying' = [trying EXCEPT ![s] = trying[s] - 1]
  BY DEF Reconnect, ConnectionMade, Added, GoesOn
<1>2. PoolOf(s) /\ lost \in Nat /\ s \in DOMAIN conns /\ s \in DOMAIN num_connections /\ s \in DOMAIN trying
      /\ IsFiniteSet(LiveOf(s)) /\ Cardinality(LiveOf(s)) \in Nat /\ c \notin DOMAIN live
  BY FS_CardinalityType DEF PoolInv, PoolOf
<1>3. \A d \in Servers : LiveOf(d)' = IF d = s THEN LiveOf(d) \cup {c} ELSE LiveOf(d)
  BY <1>1, <1>2 DEF LiveOf
<1>4. c \notin LiveOf(s)
  BY <1>2 DEF LiveOf
<1> HIDE DEF c
<1>5. IsFiniteSet(LiveOf(s)') /\ Cardinality(LiveOf(s)') = Cardinality(LiveOf(s)) + 1
  BY <1>2, <1>3, <1>4, FS_AddElement
<1>6. /\ IsArray(conns'[s]) /\ Len(conns'[s]) = Len(conns[s]) + 1 /\ Len(conns[s]) \in Nat
  BY <1>1, <1>2, ArrayGrows DEF PoolOf
<1>7. PoolOf(s)'
  <2>1. /\ num_connections'[s] = num_connections[s] + 1
        /\ \/ num_connections[s] + 1 < PoolSize /\ trying'[s] = trying[s]
           \/ trying'[s] = trying[s] - 1
    BY <1>1, <1>2
  <2>2. trying'[s] \in 0 .. lost'
    BY <1>1, <1>2, <2>1 DEF PoolOf
  <2>3. Cardinality(LiveOf(s)') + trying'[s] <= PoolSize + Overshoot'
    BY <1>1, <1>2, <1>5, <2>1, MrqAssumption DEF PoolOf, Overshoot
  <2> QED
    BY <1>2, <1>5, <1>6, <2>1, <2>2, <2>3 DEF PoolOf
<1>8. ASSUME NEW d \in Servers \ {s} PROVE PoolOf(d)' /\ conns'[d] = conns[d]
  <2>1. PoolOf(d)
    BY DEF PoolInv
  <2>2. conns'[d] = conns[d] /\ num_connections'[d] = num_connections[d] /\ trying'[d] = trying[d]
    BY <1>1 DEF PoolInv
  <2>3. LiveOf(d)' = LiveOf(d)
    BY <1>3
  <2> QED
    BY <1>1, <2>1, <2>2, <2>3 DEF PoolOf, Overshoot
<1>9. /\ lost' \in Nat /\ made' \in Nat /\ DOMAIN live' \subseteq 1 .. made'
      /\ \A d \in DOMAIN live' : live'[d] \in Servers
      /\ DOMAIN conns' = Servers /\ DOMAIN num_connections' = Servers /\ DOMAIN trying' = Servers
  BY <1>1 DEF PoolInv, c
<1>10. conns'[s] # <<>>
  BY <1>6
<1> QED
  BY <1>7, <1>8, <1>9, <1>10 DEF PoolInv

LEMMA NextPool == PoolInv /\ [Next]_vars => PoolInv'
<1> SUFFICES ASSUME PoolInv, [Next]_vars PROVE PoolInv'
  OBVIOUS
<1>1. ASSUME UNCHANGED <<live, conns, num_connections, trying, made, lost>> PROVE PoolInv'
  BY <1>1 DEF PoolInv, PoolOf, LiveOf, Overshoot
<1>2. ASSUME NEW slot \in Slots, Send(slot) PROVE PoolInv'
  BY <1>1, <1>2 DEF Send
<1>3. CASE UNCHANGED vars
  BY <1>1, <1>3 DEF vars
<1> QED
  BY <1>2, <1>3, LostPool, ReconnectPool DEF Next

(* However many coroutines of a server run at a time, its connections and  *)
(* those still to come exceed the pool by the number of earlier losses at  *)
(* most: what the array of 16 must hold.                                   *)
THEOREM OvershootAlways == Spec => []OvershootBounded
<1>1. PoolInv => OvershootBounded
  BY DEF PoolInv, PoolOf, OvershootBounded, Overshoot
<1> QED
  BY InitPool, NextPool, <1>1, PTL DEF Spec

-----------------------------------------------------------------------------
SlotsInv == DOMAIN server_slotmap = Slots /\ SlotsServed

LEMMA InitSlots == Init => SlotsInv
<1> SUFFICES ASSUME Init PROVE SlotsInv
  OBVIOUS
<1>1. ASSUME NEW s \in Servers PROVE conns[s] # <<>>
  <2>1. conns[s] = [k \in 1 .. PoolSize |-> s * PoolSize + k] /\ PoolSize \in Nat \ {0}
    BY MrqAssumption DEF Init, StartUp, Servers
  <2>2. DOMAIN conns[s] # {}
    BY <2>1
  <2> QED
    BY <2>2
<1>2. UpServers(conns) = Servers
  BY <1>1 DEF UpServers
<1>3. Servers # {} /\ NumSlots \in Nat /\ NoServer \notin Servers
  BY MrqAssumption DEF Servers, NoServer
<1>4. server_slotmap \in [Slots -> Servers]
  BY <1>3, EveryTurnHasServer DEF Init, SetupConnMap, Slots
<1> QED
  BY <1>2, <1>3, <1>4 DEF SlotsInv, SlotsServed

LEMMA NextSlots == PoolInv /\ SlotsInv /\ [Next]_vars => SlotsInv'
<1> SUFFICES ASSUME PoolInv, SlotsInv, [Next]_vars PROVE SlotsInv'
  OBVIOUS
<1>1. /\ DOMAIN server_slotmap = Slots
      /\ \A i \in Slots : server_slotmap[i] = NoServer <=> UpServers(conns) = {}
      /\ ~strayed => \A i \in Slots : server_slotmap[i] \in UpServers(conns) \cup {NoServer}
  BY DEF SlotsInv, SlotsServed
<1>2. SUFFICES /\ DOMAIN server_slotmap' = Slots
               /\ \A i \in Slots : server_slotmap'[i] = NoServer <=> UpServers(conns') = {}
               /\ ~strayed' => \A i \in Slots : server_slotmap'[i] \in UpServers(conns') \cup {NoServer}
  BY DEF SlotsInv, SlotsServed, UpServers
<1>3. NoServer \notin Servers /\ NumSlots \in Nat /\ \A cs : UpServers(cs) \subseteq Servers
  BY MrqAssumption DEF Servers, NoServer, UpServers
<1>4. CASE UNCHANGED <<conns, server_slotmap, strayed>>
  BY <1>1, <1>4
<1>5. ASSUME NEW c \in DOMAIN live, ConnectionLost(c)
      PROVE  /\ DOMAIN server_slotmap' = Slots
             /\ \A i \in Slots : server_slotmap'[i] = NoServer <=> UpServers(conns') = {}
             /\ ~strayed' => \A i \in Slots : server_slotmap'[i] \in UpServers(conns') \cup {NoServer}
  <2>1. PICK s \in Servers : /\ s = live[c] /\ conns[s] # <<>>
                             /\ \A d \in Servers \ {s} : conns'[d] = conns[d]
    BY <1>5, LostPool
  <2> DEFINE t == (s + 1) % NumServers
  <2>2. t \in Servers
    BY MrqAssumption DEF Servers
  <2>3. /\ server_slotmap' = SlotsAfterLoss(s, conns')
        /\ ~strayed' => ~strayed /\ conns'[t] # <<>>
    BY <1>5, <2>1 DEF ConnectionLost, ServerLost
  <2> HIDE DEF t
  <2>4. s \in UpServers(conns) /\ UpServers(conns) \ {s} \subseteq UpServers(conns')
    BY <2>1 DEF UpServers
  <2>5. CASE UpServers(conns') = {}
    BY <2>3, <2>5 DEF SlotsAfterLoss
  <2>6. CASE UpServers(conns') # {}
    <3>1. server_slotmap' = [i \in Slots |-> IF server_slotmap[i] = s THEN t ELSE server_slotmap[i]]
      BY <2>3, <2>6 DEF SlotsAfterLoss, t
    <3>2. \A i \in Slots : server_slotmap'[i] # NoServer
      BY <1>1, <1>3, <2>2, <2>4, <3>1
    <3>3. ASSUME ~strayed', NEW i \in Slots PROVE server_slotmap'[i] \in UpServers(conns')
      <4>1. t \in UpServers(conns')
        BY <2>2, <2>3, <3>3 DEF UpServers
      <4>2. server_slotmap[i] \in UpServers(conns)
        BY <1>1, <2>3, <2>4, <3>3
      <4> QED
        BY <2>4, <3>1, <4>1, <4>2
    <3> QED
      BY <2>6, <3>1, <3>2, <3>3
  <2> QED
    BY <2>5, <2>6
<1>6. ASSUME NEW s \in Servers, Reconnect(s)
      PROVE  /\ DOMAIN server_slotmap' = Slots
             /\ \A i \in Slots : server_slotmap'[i] = NoServer <=> UpServers(conns') = {}
             /\ ~strayed' => \A i \in Slots : server_slotmap'[i] \in UpServers(conns') \cup {NoServer}
  <2>1. conns'[s] # <<>> /\ \A d \in Servers \ {s} : conns'[d] = conns[d]
    BY <1>6, ReconnectPool
  <2>2. UpServers(conns') = UpServers(conns) \cup {s} /\ UpServers(conns') # {}
    BY <2>1 DEF UpServers
  <2>3. server_slotmap' = SlotsAfterAdd(s) /\ strayed' = (strayed /\ conns[s] # <<>>)
    BY <1>6 DEF Reconnect, ConnectionMade
  <2>4. CASE conns[s] = <<>>
    <3>1. server_slotmap' = RoundRobin(NumSlots, UpServers(conns'))
      BY <2>2, <2>3, <2>4 DEF SlotsAfterAdd, SetupConnMap
    <3>2. server_slotmap' \in [Slots -> UpServers(conns')]
      BY <1>3, <2>2, <3>1, EveryTurnHasServer DEF Slots
    <3> QED
      BY <1>3, <2>2, <3>2
  <2>5. CASE conns[s] # <<>>
    <3>1. UpServers(conns') = UpServers(conns)
      BY <2>2, <2>5 DEF UpServers
    <3> QED
      BY <1>1, <2>3, <2>5, <3>1 DEF SlotsAfterAdd
  <2> QED
    BY <2>4, <2>5
<1>7. ASSUME NEW slot \in Slots, Send(slot) PROVE UNCHANGED <<conns, server_slotmap, strayed>>
  BY <1>7 DEF Send
<1>8. CASE UNCHANGED vars
  BY <1>4, <1>8 DEF vars
<1> QED
  BY <1>4, <1>5, <1>6, <1>7, <1>8 DEF Next

(* While a server is up every slot names a server, and one that is up      *)
(* unless a loss has moved slots to a server that was down: the map is set *)
(* up again by the first connection of a server.                           *)
THEOREM SlotsServedAlways == Spec => []SlotsServed
<1>1. SlotsInv => SlotsServed
  BY DEF SlotsInv
<1> QED
  BY InitPool, NextPool, InitSlots, NextSlots, <1>1, PTL DEF Spec
=============================================================================
