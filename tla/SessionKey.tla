----------------------------- MODULE SessionKey -----------------------------
(***************************************************************************)
(* The key of a session: to64 and from64 (utils.c), the user's number at   *)
(* its head (setUserSessionAndCookies, app.py), and the number read there  *)
(* again to choose a slot of the work queue (protocol.c); and the slots of *)
(* the servers' maps that the clients of the session stores compute from   *)
(* its end.  A character is known by its value, 0 .. 63.                   *)
(***************************************************************************)
EXTENDS Integers, Sequences, SequencesExt

LOCAL INSTANCE Bitwise

CONSTANTS
    WordSize,     (* 2^64, what to64 and from64 count in                     *)
    KeyLength     (* 32                                                      *)

ASSUME SessionKeyAssumption == WordSize \in Nat \ {0} /\ KeyLength \in Nat

(* The digits of n, the highest first, and none of 0.                      *)
RECURSIVE DigitsOf(_, _)
DigitsOf(n, base) == IF n = 0 THEN <<>> ELSE Append(DigitsOf(n \div base, base), n % base)

to64(n) == DigitsOf(n % WordSize, 64)
from64(s) == FoldLeft(LAMBDA n, d : ((n * 64) % WordSize) + d, 0, s)

(* The user's number in groups of five bits, then a character with the     *)
(* sixth bit; filled up with random ones.                                  *)
GroupBits == 32
UserKeyForward(id, last) == FoldLeft(LAMBDA k, d : to64(d) \o k, <<>>, DigitsOf(id, GroupBits)) \o to64(GroupBits + last)
UserKey(id, last) == FoldLeft(LAMBDA k, d : k \o to64(d), <<>>, DigitsOf(id, GroupBits)) \o to64(GroupBits + last)

SessionKeyOf(id, last, random) ==
    LET userk == IF id = 0 THEN <<>> ELSE UserKey(id, last)
    IN  userk \o SubSeq(random, Len(userk) + 1, KeyLength)

(* Protocol_on_memcached_reply: the groups up to the sixth bit, two of the *)
(* key's size counted for each.                                            *)
RECURSIVE ReadGroups(_, _, _)
ReadGroups(key, at, uid) ==
    IF key[at] >= GroupBits \/ 2 * (at - 1) >= KeyLength THEN uid
    ELSE ReadGroups(key, at + 1, ((uid * GroupBits) % WordSize) + key[at])

UserIdOf(key) == ReadGroups(key, 1, 0)

(* The clients shift by five bits what has six.  get takes the key to be as*)
(* long as it should be, set counts its characters.                        *)
Last3(key, size) == ((key[size - 2] & 3) * 1024) | (key[size - 1] * 32) | key[size]

GetSlot(key) == Last3(key, KeyLength)
SetSlot(key) == Last3(key, Len(key))

(* getSession of the work queue                                            *)
SessionSlot(key) == ((key[KeyLength - 1] * 32) | key[KeyLength]) & 255
=============================================================================
