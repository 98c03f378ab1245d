----------------------------- MODULE StoreSends -----------------------------
(***************************************************************************)
(* The commands a connection sends to a session store (memprotocol.c and   *)
(* mrcacheprotocol.c): each builds its set commands in one buffer that     *)
(* grows with the data and is used again, and its get commands in another  *)
(* that does not grow.  memcached is told the length of the data in        *)
(* decimal, mrcache in four bytes.                                         *)
(***************************************************************************)
EXTENDS Powers

Stores == {"memcached", "mrcache"}
GetRoom == 64             (* get_cmd                                         *)
SetRoom == 2048           (* set_cmd, as the constructor allocates it        *)
KeySize == 32

(* Bytes in front of the length: "set mrsession", the key and " 0 0 "; or  *)
(* version, command and length of the key.                                 *)
BeforeLength(store) == IF store = "memcached" THEN 50 ELSE 4

(* The key goes to its place in get_cmd.                                   *)
GetNeeds(store) == IF store = "memcached" THEN 13 + KeySize + 2 ELSE 4 + KeySize

(* Behind the length memcached gets " noreply\r\n", the data and "\r\n";   *)
(* mrcache the key and the data.                                           *)
LengthSent(store, size) == IF store = "memcached" THEN Decimal(size) ELSE <<size>>

SetNeeds(store, size) ==
    IF store = "memcached" THEN BeforeLength(store) + Len(LengthSent(store, size)) + 10 + size + 2
    ELSE BeforeLength(store) + 4 + KeySize + size

Grown(room, size) == Doubled(room, 128 + size)

AsyncSet(s, store, size) ==
    LET room == Grown(s.room, size)
    IN  [room |-> room,
         out  |-> Append(s.out, [room   |-> room,
                                 length |-> LengthSent(store, size),
                                 needs  |-> SetNeeds(store, size)])]

(* One set after the other on one connection.                              *)
Stored(store, sizes) ==
    LET after[i \in 0 .. Len(sizes)] ==
            IF i = 0 THEN [room |-> SetRoom, out |-> <<>>] ELSE AsyncSet(after[i - 1], store, sizes[i])
    IN  after[Len(sizes)].out
=============================================================================
