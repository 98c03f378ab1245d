----------------------------- MODULE CallbackRing -----------------------------
(***************************************************************************)
(* The ring of callbacks of a connection to a session server (memprotocol, *)
(* mrcacheprotocol, mrqprotocol): queue[1024] with queue_start, the        *)
(* callback of the next reply, and queue_end, where the next request puts  *)
(* its own.  There is no test for a full ring.                             *)
(***************************************************************************)
EXTENDS Integers

CONSTANT RingSize   (* 1024 in the three protocols                           *)

ASSUME RingAssumption == RingSize \in Nat \ {0}

Nobody == 0         (* what a slot holds before its first use                *)

EmptyRing == [slot  |-> [i \in 0 .. RingSize - 1 |-> Nobody],
              start |-> 0,
              end   |-> 0]

PushCallbackFront(r, cb) ==
    [r EXCEPT !.slot[r.start] = cb, !.end = (@ + 1) % RingSize]

PushCallback(r, cb) ==
    [r EXCEPT !.slot[r.end] = cb, !.end = (@ + 1) % RingSize]

NextCallback(r) == r.slot[r.start]

PopCallback(r) == [r EXCEPT !.start = (@ + 1) % RingSize]
=============================================================================
