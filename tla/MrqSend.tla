------------------------------ MODULE MrqSend -------------------------------
(***************************************************************************)
(* The commands a connection to mrworkserver sends (mrqprotocol.c).  set,  *)
(* push and pushj build theirs in one buffer, which grows with the data;   *)
(* get has a buffer of its own, which does not.                            *)
(***************************************************************************)
EXTENDS Powers

Kilo == 1024

HeaderOf(how) == IF how \in {"set", "get"} THEN 4 ELSE 6
Refused(how, dsz) == (how = "push" /\ dsz > 100 * Kilo) \/ (how = "pushj" /\ dsz > 10 * Kilo)

RoomAfterOnce(bsz, how, dsz) == IF dsz > bsz THEN 2 * bsz ELSE bsz
RoomAfter(bsz, how, dsz) ==
    IF dsz <= bsz \/ how = "get" THEN bsz
    ELSE CASE how = "set"   -> Doubled(bsz, dsz)
           [] how = "push"  -> 2 * bsz
           [] how = "pushj" -> 12 * Kilo

(* The length in the command: two bytes, or four.                          *)
LengthField(how, dsz) == IF how \in {"set", "get"} THEN dsz % 65536 ELSE dsz

(* One command after the other.                                            *)
Send(s, c) ==
    LET room == RoomAfter(s.bsz, c.how, c.dsz)
    IN  IF Refused(c.how, c.dsz) THEN s
        ELSE [bsz |-> room,
              out |-> Append(s.out, [command |-> c, needs |-> HeaderOf(c.how) + c.dsz, before |-> s.bsz,
                                     room |-> IF c.how = "get" THEN Kilo ELSE room,
                                     length |-> LengthField(c.how, c.dsz)])]

Sent(commands) ==
    LET after[i \in 0 .. Len(commands)] ==
            IF i = 0 THEN [bsz |-> Kilo, out |-> <<>>] ELSE Send(after[i - 1], commands[i])
    IN  after[Len(commands)].out
=============================================================================
