----------------------------- MODULE WireFormats -----------------------------
(***************************************************************************)
(* The functions that read and write what goes over a connection, each     *)
(* against what the bytes mean: the headers of requests, the replies of    *)
(* the session stores, the commands to them and to mrworkserver.  An input *)
(* is put together piece by piece.                                         *)
(***************************************************************************)
EXTENDS HeaderNames, StoreReplies, StoreSends, MrqSend

CONSTANTS
    Pieces,       (* the pieces of an input of each kind                     *)
    MaxPieces,    (* bound: of the pieces of an input of each kind           *)
    MaxCut        (* bound: bytes of replies that have not come              *)

VARIABLES subject, input

inputVars == <<subject, input>>

InputInit == subject \in DOMAIN Pieces /\ input = <<>>

Extend ==
    /\ Len(input) < MaxPieces[subject]
    /\ \E p \in Pieces[subject] : input' = Append(input, p)
    /\ UNCHANGED subject

InputNext == Extend

InputSpec == InputInit /\ [][InputNext]_inputVars

-----------------------------------------------------------------------------
(* What the pieces are.  A text differs from the constant it is compared   *)
(* with inside of it only; a value has the length and first byte of the    *)
(* word it is; the number it says fits a long.                             *)
Diffs(len) == SUBSET [at : 0 .. len - 1, by : {"case", "byte"}]

TextPieces == \A t \in Pieces.text : t.len \in Nat /\ t.diffs \in Diffs(t.len)

WordOf(text) == text.word \in DOMAIN WordLength => text.diffs \in Diffs(WordLength[text.word])

HeaderPieces ==
    \A h \in Pieces.headers :
        /\ WordOf(h.name) /\ WordOf(h.value)
        /\ h.value.digits \in Seq(0 .. 9) /\ Len(h.value.digits) <= 18 /\ h.value.junk \in BOOLEAN
        /\ h.value.word = "application/mrpacker" => h.value.first = "a" /\ h.value.len = 20

(* Sessions have less than 100 MB (memcached keeps 1 MB).                  *)
ReplyPieces == \A r \in Pieces.replies : r = Missing \/ (r \in Nat /\ r <= 99999999)

(* Sizes of buffers are ints, and doubled: what fits 2^30 bytes.           *)
CommandPieces ==
    \A c \in Pieces.sends :
        c.how \in {"set", "push", "pushj", "get"} /\ c.dsz \in Nat /\ c.dsz <= 1073741696

ASSUME PiecesAssumption == TextPieces /\ HeaderPieces /\ ReplyPieces /\ CommandPieces

-----------------------------------------------------------------------------
(* fast_compare looks at every byte of a text and at none behind it, and   *)
(* finds two texts equal that are; up to eight bytes, two that are equal   *)
(* but for the case.                                                       *)
CompareRight ==
    subject = "text" => \A i \in 1 .. Len(input) :
       LET t == input[i]
       IN  /\ fast_compare(t.len, t.diffs) = (\E d \in t.diffs : d.by = "byte" \/ t.len > 8)
           /\ t.len > 8 => Vectors(t.len) = 0 .. t.len - 1

(* The headers of a name, in the case the parser writes it in, and what    *)
(* their values say.                                                       *)
Named(word) == {i \in 1 .. Len(input) : input[i].name.word = word /\ input[i].name.diffs = {}}
IsClose(value) == value.word = "close" /\ \A d \in value.diffs : d.by = "case"
IsMrpacker(value) == value.word = "application/mrpacker"
AsLongAsMrpacker(value) == value.first = "a" /\ value.len = 20
NoLength(value) == my_strtol(value) = 0 /\ (value.junk \/ Len(value.digits) # 1)

(* The parser takes from the headers what they say, the last one winning,  *)
(* whatever else is among them: the length of the body, or that one of its *)
(* lengths is 0 and not just the digit; whether mrpacker is to read it;    *)
(* and whether the connection is to stay.  It knows only names in the case *)
(* it writes them in, and takes every type as long as mrpacker's for it.   *)
NamesRight ==
    subject = "headers" => \A minor \in {0, 1} :
       LET lengths == Named("Content-Length")
           types   == Named("Content-Type")
           r       == ReadHeaders(minor, input)
       IN  /\ r.error = (\E i \in lengths : NoLength(input[i].value))
           /\ ~r.error =>
                 /\ lengths = {} => r.body_length = 0
                 /\ \A i \in lengths :
                       (\A j \in lengths : j <= i) => r.body_length = my_strtol(input[i].value)
                 /\ r.keep_alive = (minor = 1 /\ ~ \E i \in Named("Connection") : IsClose(input[i].value))
                 /\ (\A i \in types : AsLongAsMrpacker(input[i].value) => IsMrpacker(input[i].value)) =>
                       (r.flags = 2) = (\E i \in types : IsMrpacker(input[i].value))

(* The headers of a request are understood.                                *)
HeadersRight == CompareRight /\ NamesRight

(* Replies that come in whole are handed to one callback each, in order    *)
(* and with their own session.  Of replies that are cut short no callback  *)
(* gets bytes that have not come, and nothing is read behind the end; but  *)
(* mrcache's client loses count after a miss, and memcached's counts all   *)
(* replies in and takes a header for granted.                              *)
RepliesRight ==
    (subject = "replies" /\ input # <<>>) =>
       /\ Memcached(input, 0) = RightCallbacks(input)
       /\ Mrcache(input, 0) = RightCallbacks(input)
       /\ \A cut \in 1 .. MaxCut :
             /\ (\A i \in 1 .. Len(input) : input[i] \notin {Missing, 0}) => Whole(Mrcache(input, cut))
             /\ (Len(input) = 1 /\ input[1] # Missing /\ cut < MemLength(input[1]) - MemHeader(input[1])) =>
                   Whole(Memcached(input, cut))

(* mrworkserver: a command fits the buffer it is built in but for its      *)
(* header, whatever was sent before, if no push is more than twice the     *)
(* buffer and no get more than a kilobyte; and it says how long it is, if  *)
(* it is not 64 KB.                                                        *)
MrqSendsFit ==
    \A i \in 1 .. Len(Sent(input)) :
       LET o == Sent(input)[i]
           c == o.command
       IN  /\ o.room >= o.before \/ c.how = "get"
           /\ \/ o.needs - HeaderOf(c.how) <= o.room
              \/ c.how = "push" /\ c.dsz > 2 * o.before
              \/ c.how = "get" /\ c.dsz > Kilo
           /\ o.length = c.dsz \/ (c.how \in {"set", "get"} /\ c.dsz >= 64 * Kilo)

(* The session stores: every command fits, and the length sent, read as    *)
(* the store reads it, is that of the session.                             *)
StoreSendsFit ==
    \A store \in Stores :
       LET sizes == [i \in 1 .. Len(input) |-> input[i].dsz]
           sets  == Stored(store, sizes)
       IN  /\ GetNeeds(store) <= GetRoom
           /\ \A i \in 1 .. Len(sizes) :
                 /\ sets[i].needs <= sets[i].room
                 /\ NumberOf(sets[i].length) = sizes[i]

(* What is sent fits where it is put together and has its length.          *)
SendsFit == subject = "sends" => MrqSendsFit /\ StoreSendsFit
=============================================================================
