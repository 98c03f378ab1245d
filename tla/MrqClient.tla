------------------------------ MODULE MrqClient ------------------------------
(***************************************************************************)
(* The client of the MrQ work queue: the slot map and the connections of   *)
(* each server (mrqclient.c), and the coroutines that reconnect            *)
(* (mrqclient.py).  What travels on a connection is module MrqProtocol.    *)
(***************************************************************************)
EXTENDS ServerPool

CONSTANTS
    NumServers,   (* servers of the configuration                            *)
    PoolSize,     (* connections wanted to each, 2                           *)
    NumSlots,     (* entries of server_slotmap, 256                          *)
    MaxLosses     (* bound: connections lost in a behaviour                  *)

ASSUME MrqAssumption ==
       /\ NumServers \in Nat \ {0} /\ PoolSize \in Nat \ {0}
       /\ NumSlots \in Nat \ {0} /\ MaxLosses \in Nat

(* MrqClient_init makes the array of servers.                              *)
Servers == 0 .. NumServers - 1
Slots == 0 .. NumSlots - 1
NoServer == -1

(* Every connection ever made has a name of its own.                       *)
ConnIds == 1 .. NumServers * PoolSize + 2 * MaxLosses + PoolSize

VARIABLES
    live,           (* the server of each open connection                    *)
    conns,          (* MrqServer.conns[0 .. num_conns - 1]                   *)
    next,           (* MrqServer.next_conn                                   *)
    server_slotmap,
    num_connections,(* the count the Python class keeps of a server          *)
    reconnecting,   (* servers whose flag is up                              *)
    trying,         (* number of reconnect coroutines of a server            *)
    strayed,        (* history: a loss moved slots to a server that is down  *)
    made, lost      (* history: connections made and lost                    *)

vars == <<live, conns, next, server_slotmap, num_connections, reconnecting, trying, strayed, made, lost>>

UpServers(cs) == {s \in Servers : cs[s] # <<>>}

(* MrqClient_setupConnMap; its callers have looked for a server.           *)
SetupConnMap(up) == RoundRobin(NumSlots, up)

Init ==
    /\ live = [c \in 1 .. NumServers * PoolSize |-> ServerOf(c, PoolSize)]
    /\ conns = StartUp(NumServers, PoolSize)
    /\ next = [s \in Servers |-> 0]
    /\ server_slotmap = SetupConnMap(Servers)
    /\ num_connections = [s \in Servers |-> PoolSize]
    /\ reconnecting = {}
    /\ trying = [s \in Servers |-> 0]
    /\ strayed = FALSE
    /\ made = NumServers * PoolSize
    /\ lost = 0

(* MrqServer_push, _pushj, _set, _get, _getSession: the next connection of *)
(* the server of the slot.  Without a server, or without connections, they *)
(* change nothing (getSession indexes the servers with -1: undefined).     *)
Rotate(n, len) == IF n + 1 >= len THEN 0 ELSE n + 1

Send(slot) ==
    /\ server_slotmap[slot] # NoServer
    /\ conns[server_slotmap[slot]] # <<>>
    /\ next' = [next EXCEPT ![server_slotmap[slot]] = Rotate(@, Len(conns[server_slotmap[slot]]))]
    /\ UNCHANGED <<live, conns, server_slotmap, num_connections, reconnecting, trying, strayed, made, lost>>

(* MrqServer_connection_lost: the connection leaves the array.             *)
ServerLost(s, cs) == conns' = cs /\ next' = [next EXCEPT ![s] = 0]

(* MrqClient_connection_lost: all slots of the server move to the next one *)
(* of the configuration, whatever is left of either.                       *)
SlotsAfterLossStay(s, cs) == server_slotmap

SlotsAfterLoss(s, cs) ==
    IF UpServers(cs) = {} THEN [i \in Slots |-> NoServer]
    ELSE [i \in Slots |-> IF server_slotmap[i] = s THEN (s + 1) % NumServers ELSE server_slotmap[i]]

(* lost_connection of the Python class: one coroutine, if the flag is down.*)
StartsReconnectWhenEmpty(s) == s \notin reconnecting /\ num_connections[s] = 1
StartsReconnect(s) == s \notin reconnecting

ConnectionLost(c) ==
    LET s  == live[c]
        cs == [conns EXCEPT ![s] = ShiftOut(@, c)]
    IN  /\ lost < MaxLosses
        /\ lost' = lost + 1
        /\ live' = [d \in DOMAIN live \ {c} |-> live[d]]
        /\ ServerLost(s, cs)
        /\ num_connections' = [num_connections EXCEPT ![s] = @ - 1]
        /\ reconnecting' = reconnecting \cup {s}
        /\ trying' = IF StartsReconnect(s) THEN [trying EXCEPT ![s] = @ + 1] ELSE trying
        /\ server_slotmap' = SlotsAfterLoss(s, cs)
        /\ strayed' = (strayed \/ cs[(s + 1) % NumServers] = <<>>)
        /\ UNCHANGED made

(* addConnection: the map is set up for the first connection of a server.  *)
SlotsAfterAdd(s) ==
    IF conns[s] = <<>> THEN SetupConnMap(UpServers(conns) \cup {s}) ELSE server_slotmap

(* MrqProtocol_connection_made and MrqClient_addConnection                 *)
ConnectionMade(s, c) ==
    /\ live' = [d \in DOMAIN live \cup {c} |-> IF d = c THEN s ELSE live[d]]
    /\ conns' = Added(conns, s, c)
    /\ server_slotmap' = SlotsAfterAdd(s)

(* A coroutine of reconnect succeeds and goes on until the pool is full;   *)
(* its flag falls at the first success already.                            *)
GoesOnPast(s) == num_connections[s] + 1 <= PoolSize
GoesOn(s) == num_connections[s] + 1 < PoolSize

Reconnect(s) ==
    /\ trying[s] > 0
    /\ made' = made + 1
    /\ ConnectionMade(s, made + 1)
    /\ strayed' = (strayed /\ conns[s] # <<>>)
    /\ num_connections' = [num_connections EXCEPT ![s] = @ + 1]
    /\ reconnecting' = reconnecting \ {s}
    /\ trying' = IF GoesOn(s) THEN trying ELSE [trying EXCEPT ![s] = @ - 1]
    /\ UNCHANGED <<next, lost>>

Next ==
    \/ \E slot \in Slots : Send(slot)
    \/ \E c \in DOMAIN live : ConnectionLost(c)
    \/ \E s \in Servers : Reconnect(s)

Spec == Init /\ [][Next]_vars

(* create_connection succeeds in the end: the coroutine retries for ever.  *)
FairSpec == Spec /\ \A s \in Servers : WF_vars(Reconnect(s))

-----------------------------------------------------------------------------
LiveOf(s) == {c \in DOMAIN live : live[c] = s}

(* While a server is up a slot names a server, and one that is up, unless  *)
(* a loss has moved slots to a server that is down and the map was not set *)
(* up since: no key waits for a server that is gone, and getSession, which *)
(* does not look, never meets a -1.                                        *)
SlotsServed ==
    /\ \A i \in Slots : server_slotmap[i] = NoServer <=> UpServers(conns) = {}
    /\ ~strayed => \A i \in Slots : server_slotmap[i] \in UpServers(conns) \cup {NoServer}

(* Coroutines of one server overlap, as the flag falls at the first        *)
(* success; but only a loss starts one, and the first loss starts the one  *)
(* that is needed: this bounds what the array of 16 must hold.             *)
OvershootBounded ==
    \A s \in Servers :
        Cardinality(LiveOf(s)) + trying[s] <= PoolSize + (IF lost = 0 THEN 0 ELSE lost - 1)

(* When the losses end, every server gets its whole pool back.             *)
PoolRecovers == <>[](\A s \in Servers : Cardinality(LiveOf(s)) >= PoolSize)
=============================================================================
