----------------------------- MODULE SessionStore -----------------------------
(***************************************************************************)
(* The client of the session servers, memcached or mrcache: its pool of    *)
(* connections per server (memcachedclient.c), the ring of callbacks of a  *)
(* connection (memprotocol.c), and the coroutine that reconnects           *)
(* (memcachedclient.py).  The files for mrcache differ only in the format  *)
(* of the messages.                                                        *)
(*                                                                         *)
(* An action is one callback, or one call of the server's code, with all   *)
(* it does.  The definitions that vary the next one are mistakes the       *)
(* properties notice, see the README.                                      *)
(***************************************************************************)
EXTENDS CallbackRing, ServerPool

CONSTANTS
    NumServers,   (* session servers of the configuration                    *)
    PoolSize,     (* connections opened to each at start-up, 2               *)
    NumSlots,     (* entries of connmap, 4096                                *)
    MaxLookups,   (* bound: lookups of a behaviour                           *)
    MaxConns,     (* bound: addresses a connection's object may get          *)
    Losses,       (* may a server connection break?                          *)
    Cuts          (* may a buffer end inside a reply behind another one?     *)

ASSUME StoreAssumption ==
       /\ NumServers \in Nat \ {0} /\ PoolSize \in Nat \ {0}
       /\ NumSlots \in Nat \ {0} /\ MaxLookups \in Nat
       /\ MaxConns \in Nat /\ NumServers * PoolSize <= MaxConns
       /\ Losses \in BOOLEAN /\ Cuts \in BOOLEAN

(* MemcachedClient_init makes the array of servers.                        *)
Servers == 0 .. NumServers - 1
Slots == 0 .. NumSlots - 1
Lookups == 1 .. MaxLookups

(* A connection is named by the address of its protocol object.  The object *)
(* is freed when the connection breaks: conns holds no reference to it.     *)
ConnIds == 1 .. MaxConns

VARIABLES
    live,      (* the open connections                                       *)
    server,    (* the server a connection belongs to, server_num             *)
    conns,     (* MemcachedServer.conns[0 .. num_conns - 1] of each server   *)
    next,      (* MemcachedServer.next_conn                                  *)
    connmap,   (* the server of each slot of keys                            *)
    down,      (* servers whose reconnect coroutine runs (reconnecting)      *)
    ring,      (* the callbacks of each connection                           *)
    wire,      (* the lookups on their way on a connection, oldest first     *)
    frame,     (* where the next bytes of a connection begin: see Frames     *)
    asked,     (* history: lookups accepted so far                           *)
    got,       (* history: whose answer the callback of a lookup was given   *)
    spoiled    (* history: lookups on a connection that had a reply cut      *)

(* What comes next on a connection: a reply, with no reply cut so far; the *)
(* rest of a reply that was handed over without it; or a reply again, after*)
(* such a rest was taken for one.                                          *)
Frames == {"whole", "rest", "shifted"}

vars == <<live, server, conns, next, connmap, down, ring, wire, frame, asked, got, spoiled>>

(* setupConnMap: the slots go round the servers that have a connection; if *)
(* there is none the map stays.  The argument: the connections of servers. *)
UpServers(cs) == {s \in Servers : cs[s] # <<>>}

SetupConnMap(cs) == IF UpServers(cs) = {} THEN connmap ELSE RoundRobin(NumSlots, UpServers(cs))

Init ==
    /\ live = 1 .. NumServers * PoolSize
    /\ server = [c \in ConnIds |-> ServerOf(c, PoolSize)]
    /\ conns = StartUp(NumServers, PoolSize)
    /\ next = [s \in Servers |-> 0]
    /\ connmap = [i \in Slots |-> i % NumServers]
    /\ down = {}
    /\ ring = [c \in ConnIds |-> EmptyRing]
    /\ wire = [c \in ConnIds |-> <<>>]
    /\ frame = [c \in ConnIds |-> "whole"]
    /\ asked = 0
    /\ got = [l \in Lookups |-> Nobody]
    /\ spoiled = {}

(* MemcachedServer_get and _set: round robin over the connections.         *)
Rotate(s) ==
    next' = [next EXCEPT ![s] = IF @ + 1 = Len(conns[s]) THEN 0 ELSE @ + 1]

Chosen(s) == conns[s][next[s] + 1]

(* MemcachedClient_get for a key of the slot.  With no connection left it  *)
(* returns -1 and nothing changes.  An address in conns may be that of an  *)
(* object already freed: the lookup is then lost, or the process crashes,  *)
(* which ends the behaviour; or of a newer connection with that address.   *)
(* Bound: no more lookups wait on a connection than its ring holds; the    *)
(* code would overwrite the first callback.                                *)
Spoil(c, ls) == IF frame[c] = "whole" THEN {} ELSE ls

Get(slot) ==
    LET s == connmap[slot]
        c == Chosen(s)
        l == asked + 1
    IN  /\ asked < MaxLookups
        /\ conns[s] # <<>>
        /\ Len(wire[c]) < RingSize
        /\ asked' = l
        /\ Rotate(s)
        /\ IF c \in live
           THEN /\ ring' = [ring EXCEPT ![c] = PushCallback(@, l)]
                /\ wire' = [wire EXCEPT ![c] = Append(@, l)]
                /\ spoiled' = spoiled \cup Spoil(c, {l})
           ELSE UNCHANGED <<ring, wire, spoiled>>
        /\ UNCHANGED <<live, server, conns, connmap, down, frame, got>>

(* MemcachedClient_set: noreply, so only the rotation moves.               *)
Set(slot) ==
    /\ conns[connmap[slot]] # <<>>
    /\ Rotate(connmap[slot])
    /\ UNCHANGED <<live, server, conns, connmap, down, ring, wire, frame, asked, got, spoiled>>

(* The server answers the oldest lookup; data_received calls the callback  *)
(* at the start of the ring.  Several answers in one buffer are several of *)
(* these steps.  A buffer that ends inside its only reply ends the process,*)
(* and so does, we assume, a call of a slot that was never used.           *)
Pop(c, answer) ==
    /\ NextCallback(ring[c]) # Nobody
    /\ got' = [got EXCEPT ![NextCallback(ring[c])] = answer]
    /\ ring' = [ring EXCEPT ![c] = PopCallback(@)]

Answer(c) ==
    /\ c \in live
    /\ wire[c] # <<>>
    /\ frame[c] # "rest"
    /\ wire' = [wire EXCEPT ![c] = Tail(@)]
    /\ Pop(c, Head(wire[c]))
    /\ UNCHANGED <<live, server, conns, next, connmap, down, frame, asked, spoiled>>

(* The last of several replies in a buffer is cut.  data_received compares *)
(* its length with the bytes of the whole buffer (memcached), or with a    *)
(* count that a miss does not lower (mrcache), so this one is handed over  *)
(* like the others.  Two replies stand for the last two of the buffer; the *)
(* ones before them are steps of Answer.  From here on nothing is promised *)
(* about the lookups whose callbacks the ring holds, waiting or called.    *)
InRing(c) == {ring[c].slot[i] : i \in 0 .. RingSize - 1} \ {Nobody}

AnswerCut(c) ==
    LET r   == ring[c]
        fst == NextCallback(r)
        snd == NextCallback(PopCallback(r))
    IN  /\ Cuts
        /\ c \in live
        /\ Len(wire[c]) >= 2
        /\ frame[c] # "rest"
        /\ Nobody \notin {fst, snd}
        /\ wire' = [wire EXCEPT ![c] = Tail(Tail(@))]
        /\ got' = [got EXCEPT ![fst] = wire[c][1], ![snd] = wire[c][2]]
        /\ ring' = [ring EXCEPT ![c] = PopCallback(PopCallback(@))]
        /\ frame' = [frame EXCEPT ![c] = "rest"]
        /\ spoiled' = spoiled \cup InRing(c)
        /\ UNCHANGED <<live, server, conns, next, connmap, down, asked>>

(* The rest of that reply starts the next buffer.  If it reads as a reply, *)
(* "END\r\n" does, the callback at the start of the ring is called with it, *)
(* whether a lookup waits there or not; otherwise the process ends.  What  *)
(* follows is the next reply again, or the rest of one whose first bytes   *)
(* were taken along.                                                       *)
Stray == MaxLookups + 1

AnswerRest(c) ==
    /\ c \in live
    /\ frame[c] = "rest"
    /\ Pop(c, Stray)
    /\ \/ /\ frame' = [frame EXCEPT ![c] = "shifted"]
          /\ UNCHANGED wire
       \/ /\ wire[c] # <<>>
          /\ wire' = [wire EXCEPT ![c] = Tail(@)]
          /\ UNCHANGED frame
    /\ UNCHANGED <<live, server, conns, next, connmap, down, asked, spoiled>>

(* connection_lost of the protocol: the object is freed; nobody calls its  *)
(* callbacks.                                                              *)
Close(c) ==
    /\ c \in live
    /\ live' = live \ {c}
    /\ wire' = [wire EXCEPT ![c] = <<>>]
    /\ ring' = [ring EXCEPT ![c] = EmptyRing]
    /\ frame' = [frame EXCEPT ![c] = "whole"]

(* It calls MemcachedClient_connection_lost, that lost_connection of the   *)
(* Python class.                                                           *)
RestartRotation(n) == 0

StartReconnectOneForAll(s) == IF down = {} THEN {s} ELSE down
StartReconnect(s) == down \cup {s}

MapAfterLossKept(cs, s) == connmap
MapAfterLoss(cs, s) == IF cs[s] = <<>> THEN SetupConnMap(cs) ELSE connmap

ConnectionLost(c) ==
    LET s  == server[c]
        cs == [conns EXCEPT ![s] = ShiftOut(@, c)]
    IN  /\ Losses
        /\ Close(c)
        /\ conns' = cs
        /\ next' = [next EXCEPT ![s] = RestartRotation(@)]
        /\ connmap' = MapAfterLoss(cs, s)
        /\ down' = StartReconnect(s)
        /\ UNCHANGED <<server, asked, got, spoiled>>

(* connection_made of the protocol calls addConnection: the map is set up  *)
(* for the first connection of a server.                                   *)
MapAfterAdd(s) == IF conns[s] = <<>>
                  THEN SetupConnMap([conns EXCEPT ![s] = <<Nobody>>]) ELSE connmap

AddConnection(s, c) ==
    /\ conns' = Added(conns, s, c)
    /\ connmap' = MapAfterAdd(s)

Open(s, c) ==
    /\ live' = live \cup {c}
    /\ server' = [server EXCEPT ![c] = s]

ConnectionMade(s, c) == Open(s, c) /\ AddConnection(s, c)

(* The reconnect coroutine succeeds and returns.  One connection, however  *)
(* many were lost.                                                         *)
AfterReconnectGoOn(s) == down
AfterReconnect(s) == down \ {s}

Reconnect(s) ==
    \E c \in ConnIds \ live :
        /\ s \in down
        /\ down' = AfterReconnect(s)
        /\ ConnectionMade(s, c)
        /\ UNCHANGED <<next, ring, wire, frame, asked, got, spoiled>>

Next ==
    \/ \E slot \in Slots : Get(slot) \/ Set(slot)
    \/ \E c \in ConnIds : Answer(c) \/ AnswerCut(c) \/ AnswerRest(c) \/ ConnectionLost(c)
    \/ \E s \in Servers : Reconnect(s)

Spec == Init /\ [][Next]_vars

(* A server can be reached again: create_connection succeeds in the end.   *)
Fairness == \A s \in Servers : WF_vars(Reconnect(s))

FairSpec == Spec /\ Fairness

-----------------------------------------------------------------------------
LiveOf(s) == {c \in live : server[c] = s}

(* num_conns counts the open connections, whatever was lost and reopened;  *)
(* next_conn stays inside the array; and a server gets no more connections *)
(* than it had at start-up.                                                *)
PoolBounded ==
    \A s \in Servers :
        /\ Len(conns[s]) = Cardinality(LiveOf(s))
        /\ next[s] = 0 \/ next[s] \in 1 .. Len(conns[s]) - 1
        /\ Cardinality(LiveOf(s)) <= PoolSize

(* The map depends on nothing but which servers are up: processes that can *)
(* reach the same servers look for a session in the same place, and never  *)
(* at a server that is down.                                               *)
MapIsCurrent == UpServers(conns) # {} => connmap = SetupConnMap(conns)

(* The callback of a lookup is called at most once, with its own answer,   *)
(* whatever connections break and come back meanwhile.  Given up are only  *)
(* the lookups of a connection that had a reply cut, as long as it lives:  *)
(* those of the other connections, and of the next one at its address, are *)
(* answered right.                                                         *)
Status == [l \in Lookups |-> CASE l \in spoiled -> "given up"
                               [] l \notin spoiled /\ l > asked -> "new"
                               [] l \notin spoiled /\ l <= asked /\ got[l] = Nobody -> "open"
                               [] l \notin spoiled /\ l <= asked /\ got[l] = l -> "done"
                               [] OTHER -> "wrong"]

Service == INSTANCE LookupService WITH status <- Status

IsLookupService == Service!Spec

(* A server that lost all its connections gets one again.                  *)
ServerComesBack == \A s \in Servers : conns[s] = <<>> ~> conns[s] # <<>>
=============================================================================
