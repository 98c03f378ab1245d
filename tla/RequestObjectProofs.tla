------------------------ MODULE RequestObjectProofs ------------------------
(***************************************************************************)
(* What the handlers read of a Request that serves message after message,  *)
(* and what they answer, proved for all fields of a Request and every bound*)
(* on the messages, the steps of a handler and the parts a message may     *)
(* have.                                                                   *)
(*                                                                         *)
(* The answers rest on the buffer all responses are written into: between  *)
(* two of them it starts with the words of its MIME type, and what is      *)
(* behind may be anything (Ready).  The lemmas on Put say what a write     *)
(* into it leaves, those on AddLines what the head becomes, and Written    *)
(* what a client reads.                                                    *)
(***************************************************************************)
EXTENDS RequestObject, SequenceTheorems, TLAPS

Types ==
    /\ msg \in Nat
    /\ handling \in BOOLEAN /\ errored \in BOOLEAN
    /\ cache \in [Fields -> Int]
    /\ refs \in [Fields -> Int]
    /\ reads \in [Fields -> Nat]

-----------------------------------------------------------------------------
(* Fresh objects.  FreshFields speaks of one read; that it holds for the   *)
(* next one rests on what the cache holds between the reads: after a reset *)
(* nothing, and then only what was made of this message.                   *)
CacheOf(f) ==
    /\ cache[f] # Unread => reads[f] >= 1
    /\ f \notin NotReset /\ ~errored =>
          cache[f] = Unread \/ (handling /\ cache[f] = Own(f))

CacheInv == Types /\ (\A f \in Fields : CacheOf(f)) /\ FreshFields

(* The references.  Counting rests on how often a field was read since its *)
(* object was made, for the three that count the first time only.          *)
CountsOnce == {"path", "method", "query_string"}

RefsOf(f) ==
    f \notin {"cookies", "args"} /\ cache[f] > NoValue /\ (f \in CountsOnce => reads[f] <= 1)
        => refs[f] >= 1

RefsInv == Types /\ \A f \in Fields : RefsOf(f) /\ (cache[f] # Unread => reads[f] >= 1)

-----------------------------------------------------------------------------
LEMMA InitTypes == Init => Types
<1> SUFFICES ASSUME Init PROVE Types
  OBVIOUS
<1>1. Unread \in Int
  BY DEF Unread
<1>2. cache \in [Fields -> Int]
  BY <1>1 DEF Init
<1>3. refs \in [Fields -> Int] /\ reads \in [Fields -> Nat]
  BY DEF Init
<1> QED
  BY <1>2, <1>3 DEF Init, Types

LEMMA OwnType == ASSUME Types, NEW f \in Fields PROVE Own(f) \in Int
BY DEF Types, Own, NoValue

LEMMA NextTypes == Types /\ [Next]_vars => Types'
<1> SUFFICES ASSUME Types, [Next]_vars PROVE Types'
  OBVIOUS
<1>1. ASSUME NEW parts, NEW v, NEW c, Load(parts, v, c) PROVE Types'
  BY <1>1 DEF Load, Types
<1>2. ASSUME NEW f \in Fields, Read(f) PROVE Types'
  <2>1. Own(f) \in Int
    BY OwnType
  <2>2. cache[f] \in Int /\ refs[f] \in Int /\ reads[f] \in Nat
    BY DEF Types
  <2>3. /\ cache' \in [Fields -> Int]
        /\ refs' \in [Fields -> Int]
        /\ reads' \in [Fields -> Nat]
        /\ UNCHANGED <<msg, handling, errored>>
    BY <1>2, <2>1, <2>2 DEF Read, Types
  <2> QED
    BY <2>3 DEF Types
<1>3. ASSUME NEW n, SetHeaders(n) \/ SetCookies(n) PROVE Types'
  BY <1>3 DEF SetHeaders, SetCookies, Types
<1>4. CASE NotFound
  BY <1>4 DEF NotFound, Types
<1>5. ASSUME RequestReset, handling' = FALSE, msg' = msg PROVE Types'
  <2>1. Unread \in Int
    BY DEF Unread
  <2>2. cache' \in [Fields -> Int]
    BY <1>5, <2>1 DEF RequestReset, AfterReset, Types
  <2>3. refs' \in [Fields -> Int] /\ reads' \in [Fields -> Nat]
    BY <1>5 DEF RequestReset, AfterReset, Types
  <2> QED
    BY <1>5, <2>2, <2>3 DEF RequestReset, Types
<1>6. ASSUME Queue \/ OtherResets \/ \E n : OtherSets(n) PROVE Types'
  BY <1>6 DEF Queue, OtherResets, OtherSets, Types
<1>7. ASSUME NEW raised, Raise(raised) PROVE Types'
  BY <1>7 DEF Raise, Types
<1>8. CASE UNCHANGED vars
  BY <1>8 DEF vars, Types
<1>9. ASSUME NEW mime, Return(mime) PROVE Types'
  BY <1>5, <1>9 DEF Return
<1>10. ASSUME TaskEnds PROVE Types'
  BY <1>5, <1>10 DEF TaskEnds
<1> QED
  BY <1>1, <1>2, <1>3, <1>4, <1>6, <1>7, <1>8, <1>9, <1>10
  DEF Next, OtherRaises, OtherReturns, TaskRaises, TaskDropped

-----------------------------------------------------------------------------
(* A step that gives nothing of a Request to a handler, and leaves the     *)
(* cache and the message as they are.                                      *)
LEMMA OtherStepKeepsCache ==
    ASSUME CacheInv, Types', last'.kind # "read",
           UNCHANGED <<cache, reads, msg, has>>,
           errored' \/ (errored' = errored /\ (handling => handling'))
    PROVE  CacheInv'
<1>1. FreshFields'
  BY DEF FreshFields
<1>2. ASSUME NEW f \in Fields PROVE CacheOf(f)'
  BY DEF CacheInv, CacheOf, Own
<1> QED
  BY <1>1, <1>2 DEF CacheInv

LEMMA ReadKeepsCache ==
    ASSUME CacheInv, Types', NEW f \in Fields, Read(f)
    PROVE  CacheInv'
<1>1. /\ CacheOf(f) /\ reads[f] \in Nat /\ errored \in BOOLEAN
      /\ cache \in [Fields -> Int] /\ reads \in [Fields -> Nat]
  BY DEF CacheInv, Types
<1>2. /\ handling /\ UNCHANGED <<msg, handling, has, errored>>
      /\ cache' = cache \/ cache' = [cache EXCEPT ![f] = last'.value]
      /\ last' = [kind |-> "read", field |-> f,
                  value |-> IF cache[f] = Unread THEN Own(f) ELSE cache[f]]
      /\ reads' = [reads EXCEPT ![f] = IF cache[f] = Unread THEN 1 ELSE reads[f] + 1]
  BY DEF Read, Running
<1>3. last'.field = f /\ last'.value = IF cache[f] = Unread THEN Own(f) ELSE cache[f]
  BY <1>2
<1>4. Own(f)' = Own(f) /\ reads'[f] >= 1 /\ (cache[f] # Unread => reads'[f] > 1)
  BY <1>1, <1>2 DEF Own, CacheOf
<1>5. FreshFields'
  BY <1>1, <1>2, <1>3, <1>4 DEF FreshFields, CacheOf
<1>6. ASSUME NEW g \in Fields PROVE CacheOf(g)'
  <2>1. CASE g = f
    BY <1>1, <1>2, <1>3, <1>4, <2>1 DEF CacheOf
  <2>2. CASE g # f
    <3>1. cache'[g] = cache[g] /\ reads'[g] = reads[g] /\ Own(g)' = Own(g)
      BY <1>1, <1>2, <2>2 DEF Own
    <3>2. CacheOf(g)
      BY DEF CacheInv
    <3> QED
      BY <1>2, <3>1, <3>2 DEF CacheOf
  <2> QED
    BY <2>1, <2>2
<1> QED
  BY <1>5, <1>6 DEF CacheInv

LEMMA InitCacheInv == Init => CacheInv
BY InitTypes DEF Init, CacheInv, CacheOf, FreshFields, NothingYet, Unread

LEMMA NextCacheInv == CacheInv /\ [Next]_vars => CacheInv'
<1> SUFFICES ASSUME CacheInv, [Next]_vars PROVE CacheInv'
  OBVIOUS
<1>0. Types'
  BY NextTypes DEF CacheInv
<1>1. ASSUME NEW parts, NEW v, NEW c, Load(parts, v, c) PROVE CacheInv'
  <2>1. /\ ~handling /\ last' = NothingYet
        /\ UNCHANGED <<cache, reads, errored>>
    BY <1>1 DEF Load
  <2>2. FreshFields'
    BY <2>1 DEF FreshFields, NothingYet
  <2>3. ASSUME NEW f \in Fields PROVE CacheOf(f)'
    BY <2>1 DEF CacheInv, CacheOf
  <2> QED
    BY <1>0, <2>2, <2>3 DEF CacheInv
<1>2. ASSUME NEW f \in Fields, Read(f) PROVE CacheInv'
  BY <1>0, <1>2, ReadKeepsCache
<1>3. ASSUME NEW n, SetHeaders(n) \/ SetCookies(n) PROVE CacheInv'
  BY <1>0, <1>3, OtherStepKeepsCache DEF SetHeaders, SetCookies, NothingYet
<1>4. CASE NotFound
  BY <1>0, <1>4, OtherStepKeepsCache DEF NotFound, NothingYet
<1>5. ASSUME RequestReset, last'.kind # "read" PROVE CacheInv'
  <2>1. /\ cache' = AfterReset(cache, Unread) /\ reads' = AfterReset(reads, 0)
    BY <1>5 DEF RequestReset
  <2>2. FreshFields'
    BY <1>5 DEF FreshFields
  <2>3. ASSUME NEW f \in Fields PROVE CacheOf(f)'
    BY <2>1 DEF CacheInv, CacheOf, AfterReset
  <2> QED
    BY <1>0, <2>2, <2>3 DEF CacheInv
<1>6. ASSUME Queue \/ OtherResets \/ \E n : OtherSets(n) PROVE CacheInv'
  BY <1>0, <1>6, OtherStepKeepsCache DEF Queue, OtherResets, OtherSets, NothingYet
<1>7. ASSUME NEW raised, Raise(raised) PROVE CacheInv'
  BY <1>0, <1>7, OtherStepKeepsCache DEF Raise
<1>8. CASE UNCHANGED vars
  BY <1>0, <1>8 DEF vars, CacheInv, CacheOf, FreshFields, Own
<1>9. ASSUME NEW mime, Return(mime) PROVE CacheInv'
  BY <1>5, <1>9 DEF Return
<1>10. ASSUME NEW raised, TaskRaises(raised) PROVE CacheInv'
  BY <1>5, <1>10 DEF TaskRaises, TaskEnds
<1>11. CASE TaskDropped
  BY <1>5, <1>11 DEF TaskDropped, TaskEnds, NothingYet
<1> QED
  BY <1>1, <1>2, <1>3, <1>4, <1>6, <1>7, <1>8, <1>9, <1>10, <1>11 DEF Next, OtherRaises, OtherReturns

(* Whatever was read of earlier messages, a handler reads its own (or one  *)
(* of the two cases the code leaves open, see FreshFields): for every      *)
(* sequence of messages, reads, answers and errors.                        *)
THEOREM FreshFieldsAlways == Spec => []FreshFields
<1>1. CacheInv => FreshFields
  BY DEF CacheInv
<1> QED
  BY InitCacheInv, NextCacheInv, <1>1, PTL DEF Spec

-----------------------------------------------------------------------------
LEMMA InitRefsInv == Init => RefsInv
BY InitTypes DEF Init, RefsInv, RefsOf, Unread, NoValue

LEMMA ReadKeepsRefs ==
    ASSUME RefsInv, Types', NEW f \in Fields, Read(f)
    PROVE  RefsInv'
<1>1. /\ RefsOf(f) /\ (cache[f] # Unread => reads[f] >= 1)
      /\ cache[f] \in Int /\ refs[f] \in Int /\ reads[f] \in Nat
      /\ cache \in [Fields -> Int] /\ refs \in [Fields -> Int] /\ reads \in [Fields -> Nat]
  BY DEF RefsInv, Types
<1>2. \/ cache' = cache /\ refs' = refs /\ cache[f] = Unread
      \/ /\ cache' = [cache EXCEPT ![f] = IF cache[f] = Unread THEN Own(f) ELSE cache[f]]
         /\ refs' = [refs EXCEPT ![f] = (IF cache[f] = Unread THEN 1 ELSE refs[f])
                                        - (IF CountsReference(f, cache[f] = Unread) THEN 0 ELSE 1)]
  BY DEF Read
<1>3. reads' = [reads EXCEPT ![f] = IF cache[f] = Unread THEN 1 ELSE reads[f] + 1]
  BY DEF Read
<1>4. ASSUME f \notin {"cookies", "args"}
      PROVE  CountsReference(f, cache[f] = Unread) <=> (f \in CountsOnce => cache[f] = Unread)
  BY <1>4, RequestObjectAssumption DEF CountsReference, CountsOnce, AllFields
<1>5. RefsOf(f)' /\ (cache'[f] # Unread => reads'[f] >= 1)
  BY <1>1, <1>2, <1>3, <1>4 DEF RefsOf, Unread, NoValue
<1>6. ASSUME NEW g \in Fields \ {f}
      PROVE  RefsOf(g)' /\ (cache'[g] # Unread => reads'[g] >= 1)
  <2>1. cache'[g] = cache[g] /\ refs'[g] = refs[g] /\ reads'[g] = reads[g]
    BY <1>1, <1>2, <1>3
  <2> QED
    BY <2>1 DEF RefsInv, RefsOf
<1> QED
  BY <1>5, <1>6 DEF RefsInv

LEMMA NextRefsInv == RefsInv /\ [Next]_vars => RefsInv'
<1> SUFFICES ASSUME RefsInv, [Next]_vars PROVE RefsInv'
  OBVIOUS
<1>0. Types'
  BY NextTypes DEF RefsInv
<1>1. ASSUME UNCHANGED <<cache, refs, reads>> PROVE RefsInv'
  BY <1>0, <1>1 DEF RefsInv, RefsOf
<1>2. ASSUME NEW parts, NEW v, NEW c, Load(parts, v, c) PROVE RefsInv'
  BY <1>1, <1>2 DEF Load
<1>3. ASSUME NEW f \in Fields, Read(f) PROVE RefsInv'
  BY <1>0, <1>3, ReadKeepsRefs
<1>4. ASSUME NEW n, SetHeaders(n) \/ SetCookies(n) \/ NotFound PROVE RefsInv'
  BY <1>1, <1>4 DEF SetHeaders, SetCookies, NotFound
<1>5. ASSUME RequestReset PROVE RefsInv'
  <2>1. /\ cache' = AfterReset(cache, Unread) /\ reads' = AfterReset(reads, 0)
        /\ refs' = AfterReset(refs, 0)
    BY <1>5 DEF RequestReset
  <2> QED
    BY <1>0, <2>1 DEF RefsInv, RefsOf, AfterReset, Unread, NoValue
<1>6. ASSUME Queue \/ OtherResets \/ \E n : OtherSets(n) PROVE RefsInv'
  BY <1>1, <1>6 DEF Queue, OtherResets, OtherSets
<1>7. ASSUME NEW raised, Raise(raised) PROVE RefsInv'
  BY <1>1, <1>7 DEF Raise
<1>8. CASE UNCHANGED vars
  BY <1>1, <1>8 DEF vars
<1>9. ASSUME NEW mime, Return(mime) PROVE RefsInv'
  BY <1>5, <1>9 DEF Return
<1>10. ASSUME TaskEnds PROVE RefsInv'
  BY <1>5, <1>10 DEF TaskEnds
<1> QED
  BY <1>2, <1>3, <1>4, <1>6, <1>7, <1>8, <1>9, <1>10
  DEF Next, OtherRaises, OtherReturns, TaskRaises, TaskDropped

(* An object the Request still points to is alive, but for the fields      *)
(* whose getters do not count what they give away: for every sequence of   *)
(* reads in every sequence of messages.                                    *)
THEOREM ReferencesKeptAlways == Spec => []ReferencesKept
<1>1. RefsInv => ReferencesKept
  <2> SUFFICES ASSUME RefsInv, NEW f \in Fields, Freed(f)
               PROVE  \/ f \in {"cookies", "args"}
                      \/ f \in CountsOnce /\ reads[f] > 1
    BY DEF ReferencesKept, CountsOnce
  <2>1. RefsOf(f) /\ reads[f] \in Nat
    BY DEF RefsInv, Types
  <2> QED
    BY <2>1 DEF RefsOf, Freed
<1> QED
  BY InitRefsInv, NextRefsInv, <1>1, PTL DEF Spec

-----------------------------------------------------------------------------
(* The buffer.                                                             *)
(* What a cell of the buffer, or a line, may be.                           *)
Cell == MimeTypes \cup {"end of line", Blank, "none"}
        \cup ({"header", "cookie", "body"} \X Nat)

Buffers == [cells : Seq(Cell), mime : MimeTypes, version : {0, 1}]

(* The buffer starts with these cells.                                     *)
StartsWith(b, start) ==
    /\ start \in Seq(Cell) /\ Len(start) <= Len(b.cells)
    /\ \A i \in 1 .. Len(start) : b.cells[i] = start[i]

LEMMA FunctionIsSeq ==
    ASSUME NEW S, NEW n \in Nat, NEW f \in [1 .. n -> S]
    PROVE  f \in Seq(S) /\ Len(f) = n
<1>1. f \in Seq(S)
  OBVIOUS
<1> QED
  BY <1>1, LenProperties

LEMMA PutCells ==
    ASSUME NEW b \in Buffers, NEW cells \in Seq(Cell),
           NEW at \in 1 .. Len(b.cells) + 1
    PROVE  LET put == Put(b, at, cells)
           IN  /\ put \in Buffers /\ put.mime = b.mime /\ put.version = b.version
               /\ Len(put.cells) >= Len(b.cells)
               /\ Len(put.cells) >= at + Len(cells) - 1
               /\ \A i \in 1 .. Len(put.cells) :
                      put.cells[i] = IF i \in at .. at + Len(cells) - 1
                                     THEN cells[i - at + 1] ELSE b.cells[i]
<1> DEFINE put == Put(b, at, cells)
           final == at + Len(cells) - 1
           size == IF final > Len(b.cells) THEN final ELSE Len(b.cells)
           f == [i \in 1 .. size |-> IF i \in at .. final THEN cells[i - at + 1] ELSE b.cells[i]]
<1>1. b.cells \in Seq(Cell) /\ Len(b.cells) \in Nat /\ Len(cells) \in Nat
  BY LenProperties DEF Buffers
<1>2. size \in Nat /\ at \in Nat /\ final \in Int /\ final <= size /\ Len(b.cells) <= size
  BY <1>1
<1>3. f \in [1 .. size -> Cell]
  <2>1. ASSUME NEW i \in 1 .. size PROVE (IF i \in at .. final THEN cells[i - at + 1] ELSE b.cells[i]) \in Cell
    <3>1. CASE i \in at .. final
      <4>1. i - at + 1 \in 1 .. Len(cells)
        BY <1>1, <1>2, <3>1
      <4> QED
        BY <3>1, <4>1, ElementOfSeq
    <3>2. CASE i \notin at .. final
      <4>1. i \in 1 .. Len(b.cells)
        BY <1>1, <1>2, <3>2
      <4> QED
        BY <1>1, <3>2, <4>1, ElementOfSeq
    <3> QED
      BY <3>1, <3>2
  <2> QED
    BY <2>1
<1>4. f \in Seq(Cell) /\ Len(f) = size
  <2> HIDE DEF f, size
  <2> QED
    BY <1>2, <1>3, FunctionIsSeq
<1>5. put = [b EXCEPT !.cells = f]
  BY DEF Put
<1>6. put \in Buffers /\ put.cells = f /\ put.mime = b.mime /\ put.version = b.version
  <2> HIDE DEF f, size
  <2> QED
    BY <1>4, <1>5 DEF Buffers
<1>7. \A i \in 1 .. size : f[i] = IF i \in at .. final THEN cells[i - at + 1] ELSE b.cells[i]
  BY DEF f
<1> HIDE DEF f, size, put
<1>8. Len(put.cells) = size
  BY <1>4, <1>6
<1> QED
  BY <1>2, <1>6, <1>7, <1>8 DEF put

(* Cells put right behind a start the buffer has make it longer, and those *)
(* put behind it leave it alone.                                           *)
LEMMA PutBehind ==
    ASSUME NEW b \in Buffers, NEW start, StartsWith(b, start), NEW cells \in Seq(Cell)
    PROVE  StartsWith(Put(b, Len(start) + 1, cells), start \o cells)
<1> DEFINE at == Len(start) + 1
           put == Put(b, at, cells)
<1>1. start \in Seq(Cell) /\ Len(start) \in Nat /\ Len(cells) \in Nat /\ Len(b.cells) \in Nat
      /\ Len(start) <= Len(b.cells)
  BY LenProperties DEF Buffers, StartsWith
<1>2. at \in 1 .. Len(b.cells) + 1
  BY <1>1
<1>3. /\ Len(put.cells) >= at + Len(cells) - 1
      /\ put \in Buffers
      /\ \A i \in 1 .. Len(put.cells) :
                      put.cells[i] = IF i \in at .. at + Len(cells) - 1
                                     THEN cells[i - at + 1] ELSE b.cells[i]
  <2> HIDE DEF at
  <2> QED
    BY <1>2, PutCells
<1>4. /\ start \o cells \in Seq(Cell) /\ Len(start \o cells) = Len(start) + Len(cells)
      /\ \A i \in 1 .. Len(start) + Len(cells) :
             (start \o cells)[i] = IF i <= Len(start) THEN start[i] ELSE cells[i - Len(start)]
  BY <1>1, ConcatProperties
<1>5. Len(put.cells) \in Nat
  BY <1>3, LenProperties DEF Buffers
<1> HIDE DEF put
<1>6. ASSUME NEW i \in 1 .. Len(start) + Len(cells) PROVE put.cells[i] = (start \o cells)[i]
  <2>0. i \in 1 .. Len(put.cells)
    BY <1>1, <1>3, <1>5
  <2>1. CASE i <= Len(start)
    <3>1. put.cells[i] = b.cells[i]
      BY <1>1, <1>3, <2>0, <2>1
    <3>2. b.cells[i] = start[i]
      BY <1>1, <2>1 DEF StartsWith
    <3> QED
      BY <1>4, <2>1, <3>1, <3>2
  <2>2. CASE ~(i <= Len(start))
    <3>0. i \in at .. at + Len(cells) - 1
      BY <1>1, <2>2
    <3>1. put.cells[i] = cells[i - at + 1]
      <4> HIDE DEF at
      <4> QED
        BY <1>3, <2>0, <3>0
    <3>2. i - at + 1 = i - Len(start)
      BY <1>1
    <3> QED
      BY <1>4, <2>2, <3>1, <3>2
  <2> QED
    BY <2>1, <2>2
<1>7. Len(start \o cells) <= Len(put.cells)
  BY <1>1, <1>3, <1>4, <1>5
<1> QED
  BY <1>4, <1>6, <1>7 DEF StartsWith, put

LEMMA PutLater ==
    ASSUME NEW b \in Buffers, NEW start, StartsWith(b, start), NEW cells \in Seq(Cell),
           NEW at \in Len(start) + 1 .. Len(b.cells) + 1
    PROVE  StartsWith(Put(b, at, cells), start)
<1> DEFINE put == Put(b, at, cells)
<1>1. start \in Seq(Cell) /\ Len(start) \in Nat /\ Len(b.cells) \in Nat
      /\ Len(start) <= Len(b.cells)
  BY LenProperties DEF Buffers, StartsWith
<1>2. at \in 1 .. Len(b.cells) + 1
  BY <1>1
<1>3. put \in Buffers /\ Len(put.cells) >= Len(b.cells)
      /\ \A i \in 1 .. Len(put.cells) :
             put.cells[i] = IF i \in at .. at + Len(cells) - 1
                            THEN cells[i - at + 1] ELSE b.cells[i]
  BY <1>2, PutCells
<1>4. Len(put.cells) \in Nat
  BY <1>3, LenProperties DEF Buffers
<1> HIDE DEF put
<1>5. ASSUME NEW i \in 1 .. Len(start) PROVE put.cells[i] = start[i]
  <2>1. put.cells[i] = b.cells[i]
    <3>1. i \in 1 .. Len(put.cells) /\ ~(at <= i)
      BY <1>1, <1>3, <1>4
    <3>2. i \notin at .. at + Len(cells) - 1
      BY <1>1, <3>1
    <3> QED
      BY <1>3, <3>1, <3>2
  <2> QED
    BY <1>1, <2>1 DEF StartsWith
<1> QED
  BY <1>1, <1>3, <1>4, <1>5 DEF StartsWith, put

LEMMA StartRead ==
    ASSUME NEW b \in Buffers, NEW start, StartsWith(b, start)
    PROVE  SubSeq(b.cells, 1, Len(start)) = start
<1>1. start \in Seq(Cell) /\ Len(start) \in Nat /\ Len(start) <= Len(b.cells)
      /\ b.cells \in Seq(Cell) /\ Len(b.cells) \in Nat
      /\ \A i \in 1 .. Len(start) : b.cells[i] = start[i]
  BY LenProperties DEF Buffers, StartsWith
<1>2. \A i \in 1 .. Len(start) : b.cells[i] \in Cell
  BY <1>1, ElementOfSeq
<1> DEFINE read_ == SubSeq(b.cells, 1, Len(start))
<1>3. read_ \in Seq(Cell) /\ Len(read_) = Len(start)
      /\ \A i \in 1 .. Len(start) : read_[i] = b.cells[i]
  <2>1. /\ read_ \in Seq(Cell)
        /\ Len(read_) = IF 1 <= Len(start) THEN Len(start) - 1 + 1 ELSE 0
        /\ \A i \in 1 .. Len(start) - 1 + 1 : read_[i] = b.cells[1 + i - 1]
    <3>1. 1 \in Int /\ Len(start) \in Int
      BY <1>1
    <3> QED
      BY <1>2, <3>1, SubSeqProperties
  <2> HIDE DEF read_
  <2> QED
    BY <1>1, <2>1
<1> HIDE DEF read_
<1> QED
  BY <1>1, <1>3, SeqEqual DEF read_

-----------------------------------------------------------------------------
Before(mime) == SubSeq(MimeCells(mime), 1, MimeEnd[mime] - 1)

LEMMA MimeFacts ==
    ASSUME NEW mime \in MimeTypes
    PROVE  /\ MimeEnd[mime] \in Nat /\ MimeEnd[mime] > 2
           /\ MimeCells(mime) \in Seq(Cell) /\ Len(MimeCells(mime)) = MimeEnd[mime]
           /\ Before(mime) \in Seq(Cell) /\ Len(Before(mime)) = MimeEnd[mime] - 1
           /\ MimeCells(mime) = Before(mime) \o <<Blank>>
<1> DEFINE n == MimeEnd[mime]
           words == [i \in 1 .. n - 2 |-> mime]
           ends == <<"end of line", Blank>>
<1>1. n \in Nat /\ n > 2
  BY DEF MimeTypes, MimeEnd
<1> HIDE DEF n
<1>2. words \in Seq(Cell) /\ Len(words) = n - 2
  <2>1. words \in [1 .. n - 2 -> Cell]
    BY DEF Cell
  <2>2. n - 2 \in Nat
    BY <1>1
  <2> HIDE DEF words
  <2> QED
    BY <2>1, <2>2, FunctionIsSeq
<1>3. ends \in Seq(Cell) /\ Len(ends) = 2 /\ ends[2] = Blank
  BY DEF Cell
<1> HIDE DEF words, ends
<1>4. MimeCells(mime) = words \o ends
  BY DEF MimeCells, words, ends, n
<1>5. /\ MimeCells(mime) \in Seq(Cell) /\ Len(MimeCells(mime)) = n
      /\ MimeCells(mime)[n] = Blank
  <2>1. /\ words \o ends \in Seq(Cell) /\ Len(words \o ends) = (n - 2) + 2
        /\ \A i \in 1 .. (n - 2) + 2 :
               (words \o ends)[i] = IF i <= n - 2 THEN words[i] ELSE ends[i - (n - 2)]
    <3>1. /\ words \o ends \in Seq(Cell) /\ Len(words \o ends) = Len(words) + Len(ends)
          /\ \A i \in 1 .. Len(words) + Len(ends) :
                 (words \o ends)[i] = IF i <= Len(words) THEN words[i] ELSE ends[i - Len(words)]
      BY <1>2, <1>3, ConcatProperties
    <3> QED
      BY <1>2, <1>3, <3>1
  <2> QED
    BY <1>1, <1>3, <1>4, <2>1
<1>6. SubSeq(MimeCells(mime), 1, n) = SubSeq(MimeCells(mime), 1, n - 1) \o <<MimeCells(mime)[n]>>
  <2>1. 1 \in 1 .. Len(MimeCells(mime)) /\ n \in 1 .. Len(MimeCells(mime))
    BY <1>1, <1>5
  <2> QED
    BY <1>5, <2>1, SubSeqRecursiveSecond
<1>7. SubSeq(MimeCells(mime), 1, n) = MimeCells(mime)
  BY <1>5, SubSeqFull
<1>8. Before(mime) \in Seq(Cell) /\ Len(Before(mime)) = n - 1
  <2>1. \A i \in 1 .. n - 1 : MimeCells(mime)[i] \in Cell
    BY <1>1, <1>5, ElementOfSeq
  <2>2. /\ Before(mime) \in Seq(Cell)
        /\ Len(Before(mime)) = IF 1 <= n - 1 THEN n - 1 - 1 + 1 ELSE 0
    <3>1. 1 \in Int /\ n - 1 \in Int
      BY <1>1
    <3> QED
      BY <2>1, <3>1, SubSeqProperties DEF Before, n
  <2> QED
    BY <1>1, <2>2
<1> QED
  BY <1>1, <1>5, <1>6, <1>7, <1>8 DEF Before, n

LEMMA LinesAreCells == ASSUME NEW lines \in Seq(Cell) PROVE Lines(lines) \in Seq(Cell)
BY DEF Lines

(* Lines added behind a start whose end is known: if there are none, the   *)
(* blank line has to be there already.                                     *)
LEMMA AddedLines ==
    ASSUME NEW b \in Buffers, NEW start, StartsWith(b, start), NEW lines \in Seq(Cell),
           lines \in {<<>>, None} => StartsWith(b, start \o <<Blank>>)
    PROVE  LET added == AddLines(b, Len(start) + 1, lines)
           IN  /\ added.buffer \in Buffers
               /\ added.buffer.mime = b.mime /\ added.buffer.version = b.version
               /\ added.end = Len(start \o Lines(lines)) + 1
               /\ StartsWith(added.buffer, (start \o Lines(lines)) \o <<Blank>>)
<1> DEFINE added == AddLines(b, Len(start) + 1, lines)
<1>1. start \in Seq(Cell) /\ Len(start) \in Nat /\ Len(lines) \in Nat
      /\ Len(b.cells) \in Nat /\ Len(start) <= Len(b.cells)
  BY LenProperties DEF StartsWith, Buffers
<1>2. CASE lines \in {<<>>, None}
  <2>1. Lines(lines) = <<>> /\ start \o <<>> = start
    BY <1>1, <1>2, ConcatEmptySeq DEF Lines
  <2>2. added = [buffer |-> b, end |-> Len(start) + 1]
    BY <1>2 DEF AddLines
  <2> QED
    BY <1>2, <2>1, <2>2
<1>3. CASE lines \notin {<<>>, None}
  <2>1. Lines(lines) = lines
    BY <1>3 DEF Lines
  <2> DEFINE put == Put(b, Len(start) + 1, Append(lines, Blank))
  <2>2. added.buffer = put /\ added.end = Len(start) + 1 + Len(lines)
    BY <1>3 DEF AddLines
  <2>3. Blank \in Cell /\ <<Blank>> \in Seq(Cell)
    <3>1. Blank \in Cell
      BY DEF Cell
    <3> QED
      BY <3>1
  <2>4. Append(lines, Blank) \in Seq(Cell) /\ Append(lines, Blank) = lines \o <<Blank>>
    BY <2>3, AppendProperties, AppendIsConcat
  <2>5. start \o (lines \o <<Blank>>) = (start \o lines) \o <<Blank>>
    BY <1>1, <2>3, ConcatAssociative
  <2>6. Len(start \o lines) = Len(start) + Len(lines)
    BY <1>1, ConcatProperties
  <2>7. StartsWith(put, (start \o lines) \o <<Blank>>)
    <3>1. StartsWith(put, start \o (lines \o <<Blank>>))
      BY <2>4, PutBehind
    <3> QED
      BY <2>5, <3>1
  <2>8. Len(start) + 1 \in 1 .. Len(b.cells) + 1
    BY <1>1
  <2>9. put \in Buffers /\ put.mime = b.mime /\ put.version = b.version
    BY <2>4, <2>8, PutCells
  <2> HIDE DEF put, added
  <2>10. added.end = Len(start \o lines) + 1
    BY <1>1, <2>2, <2>6
  <2> QED
    BY <2>1, <2>2, <2>7, <2>9, <2>10 DEF added
<1> QED
  BY <1>2, <1>3

(* Whatever is added behind a start leaves it alone.                       *)
LEMMA AddedLater ==
    ASSUME NEW b \in Buffers, NEW start, StartsWith(b, start), NEW lines \in Seq(Cell),
           NEW end \in Len(start) + 1 .. Len(b.cells)
    PROVE  LET added == AddLines(b, end, lines)
           IN  /\ added.buffer \in Buffers
               /\ added.buffer.mime = b.mime /\ added.buffer.version = b.version
               /\ StartsWith(added.buffer, start)
               /\ added.end \in end .. Len(added.buffer.cells)
               /\ Len(added.buffer.cells) >= Len(b.cells)
<1> DEFINE added == AddLines(b, end, lines)
<1>1. start \in Seq(Cell) /\ Len(start) \in Nat /\ Len(lines) \in Nat
      /\ Len(b.cells) \in Nat /\ end \in Nat
  BY LenProperties DEF StartsWith, Buffers
<1>2. CASE lines \in {<<>>, None}
  <2>1. added = [buffer |-> b, end |-> end]
    BY <1>2 DEF AddLines
  <2> QED
    BY <1>1, <2>1
<1>3. CASE lines \notin {<<>>, None}
  <2> DEFINE put == Put(b, end, Append(lines, Blank))
  <2>1. added = [buffer |-> put, end |-> end + Len(lines)]
    BY <1>3 DEF AddLines
  <2>2. Blank \in Cell
    BY DEF Cell
  <2>3. Append(lines, Blank) \in Seq(Cell) /\ Len(Append(lines, Blank)) = Len(lines) + 1
    BY <2>2, AppendProperties
  <2>4. end \in Len(start) + 1 .. Len(b.cells) + 1 /\ end \in 1 .. Len(b.cells) + 1
    BY <1>1
  <2>5. StartsWith(put, start)
    BY <2>3, <2>4, PutLater
  <2>6. /\ put \in Buffers /\ put.mime = b.mime /\ put.version = b.version
        /\ Len(put.cells) >= Len(b.cells)
        /\ Len(put.cells) >= end + (Len(lines) + 1) - 1
    BY <2>3, <2>4, PutCells
  <2>7. Len(put.cells) \in Nat
    BY <2>6, LenProperties DEF Buffers
  <2> HIDE DEF put
  <2>8. end + Len(lines) \in end .. Len(put.cells)
    BY <1>1, <2>6, <2>7
  <2> QED
    BY <2>1, <2>5, <2>6, <2>8
<1> QED
  BY <1>2, <1>3

-----------------------------------------------------------------------------
(* The buffer between two responses: it starts with its MIME type, and     *)
(* reaches at least as far as the blank line of it.                        *)
Ready(b) ==
    /\ b \in Buffers
    /\ StartsWith(b, Before(b.mime))
    /\ Len(b.cells) >= MimeEnd[b.mime]

LEMMA MimeCellsPut ==
    ASSUME NEW b \in Buffers, NEW mime \in MimeTypes
    PROVE  Ready([Put(b, 1, MimeCells(mime)) EXCEPT !.mime = mime])
<1> DEFINE put == Put(b, 1, MimeCells(mime))
           set == [put EXCEPT !.mime = mime]
<1>1. /\ MimeEnd[mime] \in Nat /\ MimeEnd[mime] > 2
      /\ MimeCells(mime) \in Seq(Cell) /\ Len(MimeCells(mime)) = MimeEnd[mime]
      /\ Before(mime) \in Seq(Cell) /\ Len(Before(mime)) = MimeEnd[mime] - 1
      /\ MimeCells(mime) = Before(mime) \o <<Blank>>
  BY MimeFacts
<1>2. Len(b.cells) \in Nat
  BY LenProperties DEF Buffers
<1>3. /\ put \in Buffers /\ Len(put.cells) >= 1 + MimeEnd[mime] - 1
      /\ \A i \in 1 .. Len(put.cells) :
             put.cells[i] = IF i \in 1 .. 1 + MimeEnd[mime] - 1
                            THEN MimeCells(mime)[i - 1 + 1] ELSE b.cells[i]
  <2>1. 1 \in 1 .. Len(b.cells) + 1
    BY <1>2
  <2> QED
    BY <1>1, <2>1, PutCells
<1> HIDE DEF put
<1>4. set \in Buffers /\ set.cells = put.cells /\ set.mime = mime
  BY <1>3 DEF Buffers
<1>5. Len(put.cells) \in Nat
  BY <1>3, LenProperties DEF Buffers
<1>6. ASSUME NEW i \in 1 .. Len(Before(mime)) PROVE put.cells[i] = Before(mime)[i]
  <2>1. i \in 1 .. Len(put.cells) /\ i \in 1 .. MimeEnd[mime] /\ i - 1 + 1 = i
    BY <1>1, <1>3, <1>5
  <2>2. put.cells[i] = MimeCells(mime)[i]
    BY <1>1, <1>3, <2>1
  <2>3. <<Blank>> \in Seq(Cell) /\ Len(<<Blank>>) = 1
    <3>1. Blank \in Cell
      BY DEF Cell
    <3> QED
      BY <3>1
  <2>4. (Before(mime) \o <<Blank>>)[i] = Before(mime)[i]
    <3>1. \A j \in 1 .. Len(Before(mime)) + Len(<<Blank>>) :
             (Before(mime) \o <<Blank>>)[j]
                 = IF j <= Len(Before(mime)) THEN Before(mime)[j] ELSE <<Blank>>[j - Len(Before(mime))]
      BY <1>1, <2>3, ConcatProperties
    <3> QED
      BY <1>1, <2>3, <3>1
  <2> QED
    BY <1>1, <2>2, <2>4
<1>7. StartsWith(set, Before(mime)) /\ Len(set.cells) >= MimeEnd[mime]
  BY <1>1, <1>3, <1>4, <1>5, <1>6 DEF StartsWith
<1> HIDE DEF set
<1>8. Ready(set)
  BY <1>4, <1>7 DEF Ready
<1> QED
  BY <1>8 DEF set, put

LEMMA MimeTypeSet ==
    ASSUME NEW b, Ready(b), NEW mime \in MimeTypes
    PROVE  LET set == SetMimeType(b, mime)
           IN  Ready(set) /\ set.mime = mime /\ set.version = b.version
<1>1. CASE mime = b.mime
  BY <1>1 DEF SetMimeType
<1>2. CASE mime # b.mime
  <2>1. SetMimeType(b, mime) = [Put(b, 1, MimeCells(mime)) EXCEPT !.mime = mime]
    BY <1>2 DEF SetMimeType
  <2>2. b \in Buffers /\ Len(b.cells) \in Nat
    BY LenProperties DEF Ready, Buffers
  <2>3. Put(b, 1, MimeCells(mime)) \in Buffers /\ Put(b, 1, MimeCells(mime)).version = b.version
    <3>1. 1 \in 1 .. Len(b.cells) + 1
      BY <2>2
    <3> QED
      BY <2>2, <3>1, MimeFacts, PutCells
  <2>4. SetMimeType(b, mime).mime = mime /\ SetMimeType(b, mime).version = b.version
    BY <2>1, <2>3 DEF Buffers
  <2> QED
    BY <2>1, <2>2, <2>4, MimeCellsPut
<1> QED
  BY <1>1, <1>2

(* What has been put behind the blank line is read there.                  *)
LEMMA BodyRead ==
    ASSUME NEW b \in Buffers, NEW end \in 1 .. Len(b.cells), NEW cell \in Cell
    PROVE  SubSeq(Put(b, end + 1, <<cell>>).cells, end + 1, end + 1) = <<cell>>
<1> DEFINE put == Put(b, end + 1, <<cell>>)
           body == SubSeq(put.cells, end + 1, end + 1)
<1>1. Len(b.cells) \in Nat /\ end \in Nat
  BY LenProperties DEF Buffers
<1>2. <<cell>> \in Seq(Cell) /\ Len(<<cell>>) = 1 /\ <<cell>>[1] = cell
  OBVIOUS
<1>3. /\ put \in Buffers /\ Len(put.cells) >= (end + 1) + 1 - 1
      /\ \A i \in 1 .. Len(put.cells) :
             put.cells[i] = IF i \in end + 1 .. (end + 1) + 1 - 1
                            THEN <<cell>>[i - (end + 1) + 1] ELSE b.cells[i]
  <2>1. end + 1 \in 1 .. Len(b.cells) + 1
    BY <1>1
  <2> QED
    BY <1>2, <2>1, PutCells
<1>4. Len(put.cells) \in Nat
  BY <1>3, LenProperties DEF Buffers
<1> HIDE DEF put
<1>5. put.cells[end + 1] = cell
  BY <1>1, <1>2, <1>3, <1>4
<1>6. body \in Seq(Cell) /\ Len(body) = 1 /\ body[1] = cell
  <2>1. \A i \in end + 1 .. end + 1 : put.cells[i] \in Cell
    BY <1>1, <1>5
  <2>2. /\ body \in Seq(Cell)
        /\ Len(body) = IF end + 1 <= end + 1 THEN end + 1 - (end + 1) + 1 ELSE 0
        /\ \A i \in 1 .. end + 1 - (end + 1) + 1 : body[i] = put.cells[(end + 1) + i - 1]
    <3>1. end + 1 \in Int
      BY <1>1
    <3> HIDE DEF body
    <3> QED
      BY <2>1, <3>1, SubSeqProperties DEF body
  <2> HIDE DEF body
  <2> QED
    BY <1>1, <1>5, <2>2
<1> HIDE DEF body
<1>7. body = <<cell>>
  BY <1>2, <1>6, SeqEqual
<1> QED
  BY <1>7 DEF body, put

(* w is the response of one cell put into b, whose lines are h and c.      *)
IsWritten(w, b, h, c, cell, v) ==
    /\ Ready(w.buffer)
    /\ w.version = (IF v = 0 THEN 0 ELSE b.version)
    /\ w.buffer.version = w.version
    /\ w.body = <<cell>>
    /\ h # <<>> => w.head = RightHead(b.mime, h, c)

LEMMA Written ==
    ASSUME NEW b, Ready(b), NEW h \in Seq(Cell), NEW c \in Seq(Cell),
           NEW cell \in Cell, NEW v \in {0, 1}
    PROVE  IsWritten(WriteResponse(b, h, c, <<cell>>, v), b, h, c, cell, v)
<1> DEFINE start == Before(b.mime)
           n == MimeEnd[b.mime]
           restored == Restored(b, h)
           first == AddLines(restored, n, h)
           u == AddLines(first.buffer, first.end, c)
           put == Put(u.buffer, u.end + 1, <<cell>>)
           w == WriteResponse(b, h, c, <<cell>>, v)
<1>1. /\ b \in Buffers /\ b.mime \in MimeTypes /\ StartsWith(b, start)
      /\ b.version \in {0, 1} /\ Len(b.cells) \in Nat /\ Len(b.cells) >= n
  BY LenProperties DEF Ready, Buffers
<1>2. start \in Seq(Cell) /\ n \in Nat /\ Len(start) = n - 1 /\ Len(start) + 1 = n
      /\ n \in 1 .. Len(b.cells)
  BY <1>1, MimeFacts
<1>3. <<Blank>> \in Seq(Cell) /\ Len(<<Blank>>) = 1
      /\ <<cell>> \in Seq(Cell) /\ Len(<<cell>>) = 1
  <2>1. Blank \in Cell
    BY DEF Cell
  <2> QED
    BY <2>1
<1> HIDE DEF start, n
(* The blank line is there when no handler asked for the headers ...       *)
<1>4. /\ restored \in Buffers /\ restored.mime = b.mime /\ restored.version = b.version
      /\ StartsWith(restored, start) /\ Len(restored.cells) >= Len(b.cells)
      /\ h = None => StartsWith(restored, start \o <<Blank>>)
  <2>1. CASE h = None
    <3>1. restored = Put(b, n, <<Blank>>)
      BY <2>1 DEF Restored, n
    <3>2. n \in Len(start) + 1 .. Len(b.cells) + 1 /\ n \in 1 .. Len(b.cells) + 1
      BY <1>1, <1>2
    <3>3. /\ Put(b, n, <<Blank>>) \in Buffers
          /\ Put(b, n, <<Blank>>).mime = b.mime
          /\ Put(b, n, <<Blank>>).version = b.version
          /\ Len(Put(b, n, <<Blank>>).cells) >= Len(b.cells)
      BY <1>1, <1>3, <3>2, PutCells
    <3>4. StartsWith(Put(b, n, <<Blank>>), start)
      BY <1>1, <1>3, <3>2, PutLater
    <3>5. StartsWith(Put(b, n, <<Blank>>), start \o <<Blank>>)
      BY <1>1, <1>2, <1>3, PutBehind
    <3> QED
      BY <3>1, <3>3, <3>4, <3>5
  <2>2. CASE h # None
    BY <1>1, <2>2 DEF Restored
  <2> QED
    BY <2>1, <2>2
<1> HIDE DEF restored
<1>5. Len(restored.cells) \in Nat /\ n \in Len(start) + 1 .. Len(restored.cells)
  <2>1. Len(restored.cells) \in Nat
    BY <1>4, LenProperties DEF Buffers
  <2> QED
    BY <1>1, <1>2, <1>4, <2>1
<1>6. /\ first.buffer \in Buffers /\ first.buffer.mime = b.mime /\ first.buffer.version = b.version
      /\ StartsWith(first.buffer, start)
      /\ first.end \in n .. Len(first.buffer.cells)
      /\ Len(first.buffer.cells) >= Len(restored.cells)
  <2> HIDE DEF first
  <2> QED
    BY <1>4, <1>5, AddedLater DEF first
(* ... and also when there are lines.                                      *)
<1>7. ASSUME h # <<>>
      PROVE  /\ first.end = Len(start \o Lines(h)) + 1
             /\ StartsWith(first.buffer, (start \o Lines(h)) \o <<Blank>>)
  <2>1. h \in {<<>>, None} => StartsWith(restored, start \o <<Blank>>)
    BY <1>4, <1>7
  <2>2. /\ AddLines(restored, Len(start) + 1, h).end = Len(start \o Lines(h)) + 1
        /\ StartsWith(AddLines(restored, Len(start) + 1, h).buffer, (start \o Lines(h)) \o <<Blank>>)
    BY <1>4, <2>1, AddedLines
  <2> QED
    BY <1>2, <2>2
<1> HIDE DEF first
<1>8. Len(first.buffer.cells) \in Nat /\ first.end \in Len(start) + 1 .. Len(first.buffer.cells)
  <2>1. Len(first.buffer.cells) \in Nat
    BY <1>6, LenProperties DEF Buffers
  <2> QED
    BY <1>2, <1>6, <2>1
<1>9. /\ u.buffer \in Buffers /\ u.buffer.mime = b.mime /\ u.buffer.version = b.version
      /\ StartsWith(u.buffer, start)
      /\ u.end \in first.end .. Len(u.buffer.cells)
  <2> HIDE DEF u
  <2> QED
    BY <1>6, <1>8, AddedLater DEF u
<1> DEFINE before == (start \o Lines(h)) \o Lines(c)
           head == before \o <<Blank>>
<1>10. ASSUME h # <<>>
       PROVE  /\ u.end = Len(before) + 1 /\ before \in Seq(Cell)
              /\ StartsWith(u.buffer, head)
  <2> DEFINE sofar == start \o Lines(h)
  <2>1. sofar \in Seq(Cell) /\ Lines(c) \in Seq(Cell)
    BY <1>2, LinesAreCells, ConcatProperties
  <2>2. first.end = Len(sofar) + 1 /\ StartsWith(first.buffer, sofar \o <<Blank>>)
    BY <1>7, <1>10
  <2>3. StartsWith(first.buffer, sofar)
    <3>1. /\ Len(sofar \o <<Blank>>) = Len(sofar) + 1
          /\ \A i \in 1 .. Len(sofar) + 1 :
                 (sofar \o <<Blank>>)[i] = IF i <= Len(sofar) THEN sofar[i] ELSE <<Blank>>[i - Len(sofar)]
      <4> HIDE DEF sofar
      <4> QED
        BY <1>3, <2>1, ConcatProperties
    <3>2. Len(sofar) \in Nat
      BY <2>1, LenProperties
    <3> HIDE DEF sofar
    <3>3. \A i \in 1 .. Len(sofar) : (sofar \o <<Blank>>)[i] = sofar[i] /\ i \in 1 .. Len(sofar \o <<Blank>>)
      BY <3>1, <3>2
    <3>4. \A i \in 1 .. Len(sofar) : first.buffer.cells[i] = sofar[i]
      BY <2>2, <3>3 DEF StartsWith
    <3>5. Len(sofar) <= Len(first.buffer.cells)
      BY <1>8, <2>2, <3>1, <3>2 DEF StartsWith
    <3> QED
      BY <2>1, <3>4, <3>5 DEF StartsWith
  <2> HIDE DEF sofar
  <2>4. LET added == AddLines(first.buffer, Len(sofar) + 1, c)
        IN  /\ added.end = Len(sofar \o Lines(c)) + 1
            /\ StartsWith(added.buffer, (sofar \o Lines(c)) \o <<Blank>>)
    BY <1>6, <2>2, <2>3, AddedLines
  <2>5. sofar \o Lines(c) \in Seq(Cell)
    BY <2>1, ConcatProperties
  <2> QED
    BY <2>2, <2>4, <2>5 DEF sofar
<1> HIDE DEF u, before
<1>11. Len(u.buffer.cells) \in Nat /\ u.end \in Nat
       /\ u.end \in 1 .. Len(u.buffer.cells) /\ u.end + 1 \in 1 .. Len(u.buffer.cells) + 1
       /\ u.end + 1 \in Len(start) + 1 .. Len(u.buffer.cells) + 1
       /\ u.end >= n
  <2>1. Len(u.buffer.cells) \in Nat
    BY <1>9, LenProperties DEF Buffers
  <2>2. /\ first.end \in Nat /\ first.end >= Len(start) + 1 /\ Len(start) \in Nat /\ Len(start) + 1 = n
    BY <1>2, <1>8
  <2>3. u.end \in first.end .. Len(u.buffer.cells)
    BY <1>9
  <2> DEFINE L == Len(u.buffer.cells)
             S == Len(start)
             F == first.end
             E == u.end
  <2>4. L \in Nat /\ F \in Nat /\ S \in Nat /\ F >= S + 1 /\ S + 1 = n /\ E \in F .. L
    BY <2>1, <2>2, <2>3
  <2> HIDE DEF L, S, F, E
  <2>5. E \in Nat /\ E \in 1 .. L /\ E + 1 \in 1 .. L + 1 /\ E + 1 \in S + 1 .. L + 1 /\ E >= n
    BY ONLY <2>4
  <2> QED
    BY ONLY <2>4, <2>5 DEF L, S, E
<1>12. /\ put \in Buffers /\ put.mime = b.mime /\ put.version = b.version
       /\ Len(put.cells) >= Len(u.buffer.cells)
       /\ StartsWith(put, start)
       /\ SubSeq(put.cells, u.end + 1, u.end + 1) = <<cell>>
  <2>1. /\ put \in Buffers /\ put.mime = b.mime /\ put.version = b.version
        /\ Len(put.cells) >= Len(u.buffer.cells)
    BY <1>3, <1>9, <1>11, PutCells
  <2>2. StartsWith(put, start)
    BY <1>3, <1>9, <1>11, PutLater
  <2>3. SubSeq(put.cells, u.end + 1, u.end + 1) = <<cell>>
    BY <1>9, <1>11, BodyRead
  <2> QED
    BY <2>1, <2>2, <2>3
<1>13. ASSUME h # <<>> PROVE SubSeq(put.cells, 1, u.end) = head
  <2>1. head \in Seq(Cell) /\ Len(head) = u.end
    BY <1>3, <1>10, <1>13, ConcatProperties
  <2>2. StartsWith(u.buffer, head)
    BY <1>10, <1>13
  <2> HIDE DEF head
  <2>3. u.end + 1 \in Len(head) + 1 .. Len(u.buffer.cells) + 1
    BY <1>11, <2>1
  <2>4. StartsWith(put, head)
    BY <1>3, <1>9, <2>2, <2>3, PutLater
  <2> HIDE DEF put
  <2> QED
    BY <1>12, <2>1, <2>4, StartRead
<1>14. /\ w.buffer = IF v = 0 THEN [put EXCEPT !.version = 0] ELSE put
       /\ w.version = IF v = 0 THEN 0 ELSE put.version
       /\ w.head = SubSeq(put.cells, 1, u.end)
       /\ w.body = SubSeq(put.cells, u.end + 1, u.end + 1)
  BY <1>3 DEF WriteResponse, UpdateHeaders, u, first, restored, n
<1> HIDE DEF put, w
<1>15. Len(put.cells) \in Nat /\ Len(put.cells) >= n
  <2>1. Len(put.cells) \in Nat
    BY <1>12, LenProperties DEF Buffers
  <2>2. Len(put.cells) >= Len(u.buffer.cells) /\ Len(u.buffer.cells) >= u.end /\ u.end >= n
    BY <1>11, <1>12
  <2>3. Len(u.buffer.cells) \in Nat /\ u.end \in Nat /\ n \in Nat
    BY <1>2, <1>11
  <2> HIDE DEF u, n
  <2> QED
    BY ONLY <2>1, <2>2, <2>3
<1>16. /\ w.buffer \in Buffers /\ w.buffer.cells = put.cells /\ w.buffer.mime = b.mime
       /\ w.buffer.version = w.version
       /\ w.version = (IF v = 0 THEN 0 ELSE b.version)
  BY <1>12, <1>14 DEF Buffers
<1>17. Ready(w.buffer)
  BY <1>12, <1>15, <1>16 DEF Ready, StartsWith, start, n
<1>18. h # <<>> => w.head = RightHead(b.mime, h, c)
  BY <1>13, <1>14 DEF RightHead, head, before, start, Before
<1>19. IsWritten(w, b, h, c, cell, v)
  BY <1>12, <1>14, <1>16, <1>17, <1>18 DEF IsWritten
<1> QED
  BY <1>19 DEF w

-----------------------------------------------------------------------------
(* Answers.  A response is put together of what is left in the buffer and  *)
(* in the one Response: what that is between the steps of the handlers.    *)
Cells ==
    /\ Ready(buffer)
    /\ headers \in Seq(Cell) /\ cookies \in Seq(Cell)
    /\ owed \in [headers : Seq(Cell), cookies : Seq(Cell)]
    /\ minor \in {0, 1} /\ msg \in Nat

AnswerInv ==
    /\ Cells
    /\ handling => msg # 0
    /\ buffer.version = 1 \/ olds
    /\ handling => mixed \/ (headers = owed.headers /\ cookies = owed.cookies)
    /\ return404 <=> stuck \/ (handling /\ called)

LEMMA NewLines ==
    /\ None \in Seq(Cell)
    /\ NothingOwed \in [headers : Seq(Cell), cookies : Seq(Cell)]
    /\ \A m \in Nat : <<"body", m>> \in Cell
    /\ \A lines \in Nat, m \in Nat :
           /\ [i \in 1 .. lines |-> <<"header", m>>] \in Seq(Cell)
           /\ [i \in 1 .. lines |-> <<"cookie", m>>] \in Seq(Cell)
<1>1. None \in Seq(Cell)
  <2>1. "none" \in Cell
    BY DEF Cell
  <2> QED
    BY <2>1 DEF None
<1>2. \A m \in Nat : <<"body", m>> \in Cell /\ <<"header", m>> \in Cell /\ <<"cookie", m>> \in Cell
  BY DEF Cell
<1>3. ASSUME NEW lines \in Nat, NEW m \in Nat
      PROVE  /\ [i \in 1 .. lines |-> <<"header", m>>] \in Seq(Cell)
             /\ [i \in 1 .. lines |-> <<"cookie", m>>] \in Seq(Cell)
  <2>1. /\ [i \in 1 .. lines |-> <<"header", m>>] \in [1 .. lines -> Cell]
        /\ [i \in 1 .. lines |-> <<"cookie", m>>] \in [1 .. lines -> Cell]
    BY <1>2
  <2> QED
    BY <2>1, FunctionIsSeq
<1> QED
  BY <1>1, <1>2, <1>3 DEF NothingOwed

LEMMA InitAnswerInv == Init => AnswerInv
<1> SUFFICES ASSUME Init PROVE AnswerInv
  OBVIOUS
<1>1. Ready(InitialBuffer)
  <2>1. "html" \in MimeTypes /\ <<>> \in Seq(Cell)
    BY DEF MimeTypes
  <2>2. /\ MimeEnd["html"] \in Nat /\ MimeEnd["html"] > 2
        /\ MimeCells("html") \in Seq(Cell) /\ Len(MimeCells("html")) = MimeEnd["html"]
        /\ Before("html") \in Seq(Cell) /\ Len(Before("html")) = MimeEnd["html"] - 1
        /\ MimeCells("html") = Before("html") \o <<Blank>>
    BY <2>1, MimeFacts
  <2>3. /\ InitialBuffer \in Buffers
        /\ InitialBuffer.cells = MimeCells("html") /\ InitialBuffer.mime = "html"
    BY <2>1, <2>2 DEF InitialBuffer, Buffers
  <2>4. <<Blank>> \in Seq(Cell) /\ Len(<<Blank>>) = 1
    <3>1. Blank \in Cell
      BY DEF Cell
    <3> QED
      BY <3>1
  <2>5. \A i \in 1 .. Len(Before("html")) + Len(<<Blank>>) :
           (Before("html") \o <<Blank>>)[i]
               = IF i <= Len(Before("html")) THEN Before("html")[i] ELSE <<Blank>>[i - Len(Before("html"))]
    BY <2>2, <2>4, ConcatProperties
  <2>6. \A i \in 1 .. Len(Before("html")) : MimeCells("html")[i] = Before("html")[i]
    BY <2>2, <2>4, <2>5
  <2> QED
    BY <2>2, <2>3, <2>6 DEF Ready, StartsWith
<1>2. Cells
  BY <1>1, NewLines DEF Init, Cells
<1>3. ~handling /\ ~return404 /\ ~stuck /\ buffer.version = 1
  BY DEF Init, InitialBuffer
<1> QED
  BY <1>2, <1>3 DEF AnswerInv

(* The step that ends with an answer keeps the buffer in order, and the    *)
(* answer is the handler's own.                                            *)
LEMMA ReturnAnswers ==
    ASSUME AnswerInv, NEW mime \in Mimes, Return(mime)
    PROVE  AnswerInv' /\ AnswerIsOwn'
<1> DEFINE b == SetMimeType(buffer, mime)
           cell == <<"body", msg>>
           w == WriteResponse(b, headers, cookies, <<cell>>, minor)
<1>1. /\ Ready(buffer) /\ headers \in Seq(Cell) /\ cookies \in Seq(Cell)
      /\ minor \in {0, 1} /\ msg \in Nat /\ mime \in MimeTypes
      /\ <<"body", msg>> \in Cell
  BY NewLines, RequestObjectAssumption DEF AnswerInv, Cells
<1>2. Ready(b) /\ b.mime = mime /\ b.version = buffer.version
  BY <1>1, MimeTypeSet
<1>3. /\ Ready(w.buffer)
      /\ w.version = (IF minor = 0 THEN 0 ELSE b.version)
      /\ w.buffer.version = w.version
      /\ w.body = <<<<"body", msg>>>>
      /\ headers # <<>> => w.head = RightHead(mime, headers, cookies)
  <2>1. cell \in Cell
    BY <1>1
  <2> HIDE DEF b, cell
  <2>2. /\ Ready(w.buffer)
        /\ w.version = (IF minor = 0 THEN 0 ELSE b.version)
        /\ w.buffer.version = w.version
        /\ w.body = <<cell>>
        /\ headers # <<>> => w.head = RightHead(b.mime, headers, cookies)
    <3>1. headers \in Seq(Cell) /\ cookies \in Seq(Cell) /\ minor \in {0, 1} /\ Ready(b)
      BY <1>1, <1>2
    <3>2. IsWritten(WriteResponse(b, headers, cookies, <<cell>>, minor), b, headers, cookies, cell, minor)
      BY ONLY <2>1, <3>1, Written
    <3>3. IsWritten(w, b, headers, cookies, cell, minor)
      BY ONLY <3>2
    <3> HIDE DEF w
    <3> QED
      BY ONLY <3>3, Zenon DEF IsWritten
  <2>3. b.mime = mime
    BY <1>2
  <2> HIDE DEF w
  <2>4. /\ Ready(w.buffer)
        /\ w.version = (IF minor = 0 THEN 0 ELSE b.version)
        /\ w.buffer.version = w.version
        /\ w.body = <<cell>>
    BY ONLY <2>2, Zenon
  <2>5. headers # <<>> => w.head = RightHead(mime, headers, cookies)
    BY ONLY <2>2, <2>3, Zenon
  <2> QED
    BY ONLY <2>4, <2>5, Zenon DEF cell
<1>4. /\ handling /\ ~handling' /\ buffer' = w.buffer
      /\ headers' = None /\ cookies' = None
      /\ last' = [kind |-> "response", version |-> w.version, head |-> w.head, body |-> w.body,
                  mime |-> mime, headers |-> headers, cookies |-> cookies, olds |-> olds]
      /\ olds' = (olds \/ minor = 0) /\ stuck' = (stuck \/ called)
      /\ UNCHANGED <<msg, minor, return404, owed, mixed>>
  BY DEF Return, RequestReset
<1> HIDE DEF w
<1>5. /\ last'.kind = "response" /\ last'.version = w.version /\ last'.head = w.head
      /\ last'.body = w.body /\ last'.mime = mime /\ last'.headers = headers
      /\ last'.cookies = cookies /\ last'.olds = olds
  BY <1>4
<1>6. Cells'
  BY <1>1, <1>3, <1>4, NewLines DEF AnswerInv, Cells
<1>7. buffer'.version = 1 \/ olds'
  BY <1>1, <1>2, <1>3, <1>4 DEF AnswerInv
<1>8. return404' <=> stuck'
  BY <1>4 DEF AnswerInv
<1>9. AnswerInv'
  BY <1>4, <1>6, <1>7, <1>8 DEF AnswerInv
<1>10. mixed' \/ (last'.headers = owed'.headers /\ last'.cookies = owed'.cookies)
  BY <1>4, <1>5 DEF AnswerInv
<1>11. last'.version = minor' \/ last'.olds
  BY <1>1, <1>2, <1>3, <1>4, <1>5 DEF AnswerInv
<1>12. last'.headers # <<>> => last'.head = RightHead(last'.mime, last'.headers, last'.cookies)
  BY <1>3, <1>5
<1>13. last'.body = <<<<"body", msg'>>>>
  BY <1>3, <1>4, <1>5
<1>14. last'.kind # "error"
  BY <1>5
<1> QED
  BY <1>9, <1>10, <1>11, <1>12, <1>13, <1>14 DEF AnswerIsOwn

LEMMA RaiseAnswers ==
    ASSUME AnswerInv, NEW raised \in Exceptions, Raise(raised)
    PROVE  AnswerInv' /\ AnswerIsOwn'
<1>1. /\ handling /\ ~handling' /\ ~return404' /\ ~stuck'
      /\ last' = [kind |-> "error", raised |-> raised, page |-> ErrorPage(raised),
                  looked |-> TRUE, stuck |-> stuck]
      /\ owed' = NothingOwed
      /\ UNCHANGED <<called, msg, minor, headers, cookies, buffer, olds>>
  BY DEF Raise
<1>2. AnswerInv'
  BY <1>1, NewLines DEF AnswerInv, Cells
<1>3. /\ last'.kind = "error" /\ last'.raised = raised /\ last'.page = ErrorPage(raised)
      /\ last'.stuck = stuck /\ last'.looked
  BY <1>1
<1>4. msg \in Nat /\ msg # 0 /\ (return404 <=> stuck \/ called)
  BY <1>1 DEF AnswerInv, Cells
<1>5. ErrorPage(raised).code = "404" <=> return404
  BY DEF ErrorPage, RaisedPage, NotFoundPage, RedirectResponse, ErrorResponse
<1>6. ASSUME ~return404
      PROVE  /\ ErrorPage(raised).code = "own" <=> raised # "other"
             /\ ErrorPage(raised).message = msg <=> raised = "HTTPError"
             /\ ErrorPage(raised).location = msg <=> raised = "HTTPRedirect"
  BY <1>4, <1>6 DEF ErrorPage, RaisedPage, RedirectResponse, ErrorResponse, Exceptions
<1>7. AnswerIsOwn'
  BY <1>1, <1>3, <1>4, <1>5, <1>6 DEF AnswerIsOwn
<1> QED
  BY <1>2, <1>7

LEMMA TaskEndKeeps == AnswerInv /\ TaskEnds => AnswerInv'
<1> SUFFICES ASSUME AnswerInv, TaskEnds PROVE AnswerInv'
  OBVIOUS
<1>1. /\ ~handling' /\ headers' = None /\ cookies' = None /\ owed' = NothingOwed
      /\ handling /\ stuck' = (stuck \/ called)
      /\ UNCHANGED <<msg, minor, return404, buffer, olds>>
  BY DEF TaskEnds, RequestReset
<1>2. Cells'
  BY <1>1, NewLines DEF AnswerInv, Cells
<1> QED
  BY <1>1, <1>2 DEF AnswerInv

(* A coroutine that raises is never answered with the page of a 404.       *)
LEMMA TaskRaiseAnswers ==
    ASSUME AnswerInv, NEW raised \in Exceptions, TaskRaises(raised)
    PROVE  AnswerInv' /\ AnswerIsOwn'
<1>1. AnswerInv'
  BY TaskEndKeeps DEF TaskRaises
<1>2. /\ handling /\ UNCHANGED <<called, msg>>
      /\ last' = [kind |-> "error", raised |-> raised, page |-> RaisedPage(raised),
                  looked |-> FALSE, stuck |-> stuck]
  BY DEF TaskRaises, TaskEnds
<1>3. /\ last'.kind = "error" /\ last'.raised = raised /\ last'.page = RaisedPage(raised)
      /\ ~last'.looked
  BY <1>2
<1>4. msg \in Nat /\ msg # 0
  BY <1>2 DEF AnswerInv, Cells
<1>5. /\ RaisedPage(raised).code # "404"
      /\ RaisedPage(raised).code = "own" <=> raised # "other"
      /\ RaisedPage(raised).message = msg <=> raised = "HTTPError"
      /\ RaisedPage(raised).location = msg <=> raised = "HTTPRedirect"
  BY <1>4 DEF RaisedPage, RedirectResponse, ErrorResponse, Exceptions
<1> QED
  BY <1>1, <1>2, <1>3, <1>5 DEF AnswerIsOwn

(* What the handlers of other Requests do to the Response.                 *)
LEMMA OtherSetKeeps == ASSUME AnswerInv, NEW n \in 0 .. 1, OtherSets(n) PROVE AnswerInv'
<1>1. /\ headers' = OtherLines(n) /\ mixed' = handling
      /\ UNCHANGED <<msg, handling, minor, return404, cookies, buffer, owed, called, stuck, olds>>
  BY DEF OtherSets
<1>2. OtherLines(n) \in Seq(Cell)
  <2>1. headers \in Seq(Cell) /\ n \in Nat /\ 0 \in Nat
    BY DEF AnswerInv, Cells
  <2>2. [i \in 1 .. n |-> <<"header", 0>>] \in Seq(Cell) /\ Lines(headers) \in Seq(Cell)
    BY <2>1, NewLines, LinesAreCells
  <2> QED
    BY <2>2, ConcatProperties DEF OtherLines
<1>3. Cells'
  BY <1>1, <1>2 DEF AnswerInv, Cells
<1> QED
  BY <1>1, <1>3 DEF AnswerInv

LEMMA OtherResetKeeps == ASSUME AnswerInv, OtherResets, Ready(buffer'), buffer'.version = buffer.version PROVE AnswerInv'
<1>1. /\ headers' = None /\ cookies' = None
      /\ mixed' = (handling /\ (mixed \/ headers # None \/ cookies # None))
      /\ UNCHANGED <<msg, handling, minor, return404, owed, called, stuck, olds>>
  BY DEF OtherResets
<1>2. Cells'
  BY <1>1, NewLines DEF AnswerInv, Cells
<1> QED
  BY <1>1, <1>2 DEF AnswerInv

LEMMA OtherReturnKeeps ==
    ASSUME AnswerInv, NEW mime \in Mimes, NEW n \in 0 .. 1, OtherReturns(mime, n)
    PROVE  AnswerInv'
<1> DEFINE b == SetMimeType(buffer, mime)
           others == IF n = 0 THEN headers ELSE OtherLines(n)
           cell == <<"body", 0>>
           w == WriteResponse(b, others, cookies, <<cell>>, 1)
<1>1. /\ Ready(buffer) /\ headers \in Seq(Cell) /\ cookies \in Seq(Cell)
      /\ mime \in MimeTypes /\ <<"body", 0>> \in Cell
  BY NewLines, RequestObjectAssumption DEF AnswerInv, Cells
<1>2. Ready(b) /\ b.mime = mime /\ b.version = buffer.version
  BY <1>1, MimeTypeSet
<1>3. others \in Seq(Cell)
  <2>1. [i \in 1 .. n |-> <<"header", 0>>] \in Seq(Cell)
    <3>1. n \in Nat /\ 0 \in Nat
      OBVIOUS
    <3> QED
      BY <3>1, NewLines
  <2>2. Lines(headers) \in Seq(Cell)
    BY <1>1, LinesAreCells
  <2> QED
    BY <1>1, <2>1, <2>2, ConcatProperties DEF OtherLines
<1>4. Ready(w.buffer) /\ w.buffer.version = b.version
  <2>1. 1 \in {0, 1} /\ cell \in Cell
    BY <1>1
  <2> HIDE DEF b, others, cell
  <2>2. Ready(w.buffer) /\ w.buffer.version = w.version
        /\ w.version = (IF 1 = 0 THEN 0 ELSE b.version)
    BY <1>1, <1>2, <1>3, <2>1, Written DEF IsWritten
  <2> QED
    BY <2>2
<1> HIDE DEF b, others
<1>5. OtherResets /\ buffer' = w.buffer
  BY DEF OtherReturns, w, others, b
<1> HIDE DEF w
<1> QED
  BY <1>2, <1>4, <1>5, OtherResetKeeps

LEMMA NextAnswerInv == AnswerInv /\ AnswerIsOwn /\ [Next]_vars => AnswerInv' /\ AnswerIsOwn'
<1> SUFFICES ASSUME AnswerInv, AnswerIsOwn, [Next]_vars PROVE AnswerInv' /\ AnswerIsOwn'
  OBVIOUS
<1>1. ASSUME last'.kind \notin {"response", "error"} PROVE AnswerIsOwn'
  BY <1>1 DEF AnswerIsOwn
<1>2. ASSUME NEW parts, NEW v \in {0, 1}, NEW c, Load(parts, v, c) PROVE AnswerInv' /\ AnswerIsOwn'
  <2>1. /\ ~handling /\ handling' /\ msg' = msg + 1 /\ minor' = v /\ last' = NothingYet
        /\ ~called' /\ owed' = NothingOwed /\ mixed' = (headers # None \/ cookies # None)
        /\ UNCHANGED <<return404, headers, cookies, buffer, stuck, olds>>
    BY <1>2 DEF Load
  <2>2. Cells' /\ msg' # 0
    BY <2>1, NewLines DEF AnswerInv, Cells
  <2>3. owed'.headers = None /\ owed'.cookies = None
    BY <2>1 DEF NothingOwed
  <2> QED
    BY <1>1, <2>1, <2>2, <2>3 DEF AnswerInv, NothingYet
<1>3. ASSUME NEW f \in Fields, Read(f) PROVE AnswerInv' /\ AnswerIsOwn'
  <2>1. /\ last'.kind = "read"
        /\ UNCHANGED <<msg, handling, minor, return404, headers, cookies, buffer,
                       owed, mixed, called, stuck, olds>>
    BY <1>3 DEF Read
  <2> QED
    BY <1>1, <2>1 DEF AnswerInv, Cells
<1>4. ASSUME NEW n \in 0 .. 1, SetHeaders(n) PROVE AnswerInv' /\ AnswerIsOwn'
  <2>1. /\ handling /\ last' = NothingYet
        /\ headers' = Lines(headers) \o Given("header", n)
        /\ owed' = [owed EXCEPT !.headers = Lines(owed.headers) \o Given("header", n)]
        /\ UNCHANGED <<msg, handling, minor, return404, cookies, buffer, mixed, called, stuck, olds>>
    BY <1>4 DEF SetHeaders, Running
  <2>2. headers \in Seq(Cell) /\ owed.headers \in Seq(Cell) /\ msg \in Nat
        /\ owed \in [headers : Seq(Cell), cookies : Seq(Cell)]
    BY DEF AnswerInv, Cells
  <2>3. Given("header", n) \in Seq(Cell)
    <3>1. n \in Nat
      OBVIOUS
    <3> QED
      BY <2>2, <3>1, NewLines DEF Given
  <2>4. headers' \in Seq(Cell) /\ Lines(owed.headers) \o Given("header", n) \in Seq(Cell)
    BY <2>1, <2>2, <2>3, LinesAreCells, ConcatProperties
  <2>5. /\ owed' \in [headers : Seq(Cell), cookies : Seq(Cell)]
        /\ owed'.headers = Lines(owed.headers) \o Given("header", n)
        /\ owed'.cookies = owed.cookies
    BY <2>1, <2>2, <2>4
  <2>6. Cells'
    BY <2>1, <2>4, <2>5 DEF AnswerInv, Cells
  <2> QED
    BY <1>1, <2>1, <2>5, <2>6 DEF AnswerInv, NothingYet
<1>5. ASSUME NEW n \in 0 .. 1, SetCookies(n) PROVE AnswerInv' /\ AnswerIsOwn'
  <2>1. /\ handling /\ last' = NothingYet
        /\ cookies' = Given("cookie", n)
        /\ owed' = [owed EXCEPT !.cookies = Given("cookie", n)]
        /\ UNCHANGED <<msg, handling, minor, return404, headers, buffer, mixed, called, stuck, olds>>
    BY <1>5 DEF SetCookies, Running
  <2>2. msg \in Nat /\ owed \in [headers : Seq(Cell), cookies : Seq(Cell)]
    BY DEF AnswerInv, Cells
  <2>3. Given("cookie", n) \in Seq(Cell)
    <3>1. n \in Nat
      OBVIOUS
    <3> QED
      BY <2>2, <3>1, NewLines DEF Given
  <2>4. /\ owed' \in [headers : Seq(Cell), cookies : Seq(Cell)]
        /\ owed'.cookies = Given("cookie", n)
        /\ owed'.headers = owed.headers
    BY <2>1, <2>2, <2>3
  <2>5. Cells'
    BY <2>1, <2>3, <2>4 DEF AnswerInv, Cells
  <2> QED
    BY <1>1, <2>1, <2>4, <2>5 DEF AnswerInv, NothingYet
<1>6. CASE NotFound
  <2>1. /\ handling /\ return404' /\ called' /\ last' = NothingYet
        /\ UNCHANGED <<msg, handling, minor, headers, cookies, buffer, owed, mixed, stuck, olds>>
    BY <1>6 DEF NotFound, Running
  <2> QED
    BY <1>1, <2>1 DEF AnswerInv, Cells, NothingYet
<1>7. ASSUME NEW mime \in Mimes, Return(mime) PROVE AnswerInv' /\ AnswerIsOwn'
  BY <1>7, ReturnAnswers
<1>8. ASSUME NEW mime \in Mimes, NEW n \in 0 .. 1, OtherReturns(mime, n) PROVE AnswerInv' /\ AnswerIsOwn'
  BY <1>1, <1>8, OtherReturnKeeps DEF OtherReturns, OtherResets, NothingYet
<1>9. ASSUME NEW raised \in Exceptions, Raise(raised) \/ TaskRaises(raised) PROVE AnswerInv' /\ AnswerIsOwn'
  BY <1>9, RaiseAnswers, TaskRaiseAnswers
<1>10. CASE UNCHANGED vars
  BY <1>10 DEF vars, AnswerInv, Cells, AnswerIsOwn
<1>11. CASE Queue
  BY <1>1, <1>11 DEF Queue, AnswerInv, Cells, NothingYet
<1>12. CASE TaskDropped
  BY <1>1, <1>12, TaskEndKeeps DEF TaskDropped, NothingYet
<1>13. CASE OtherRaises
  <2>1. Ready(buffer') /\ buffer'.version = buffer.version
    BY <1>13 DEF OtherRaises, AnswerInv, Cells
  <2> QED
    BY <1>1, <1>13, <2>1, OtherResetKeeps DEF OtherRaises, OtherResets, NothingYet
<1>14. ASSUME NEW n \in 0 .. 1, OtherSets(n) PROVE AnswerInv' /\ AnswerIsOwn'
  BY <1>1, <1>14, OtherSetKeeps DEF OtherSets, NothingYet
<1> QED
  BY <1>2, <1>3, <1>4, <1>5, <1>6, <1>7, <1>8, <1>9, <1>10, <1>11, <1>12, <1>13, <1>14 DEF Next

(* Each response has its own headers, cookies, body and blank line, though *)
(* all are written into one buffer and one Response, and each exception    *)
(* becomes its own page, but for the cases AnswerIsOwn names: for every    *)
(* sequence of messages, settings and answers, with any MIME types, and    *)
(* with other handlers answering meanwhile.                                *)
THEOREM AnswerIsOwnAlways == Spec => []AnswerIsOwn
<1>1. Init => AnswerIsOwn
  BY DEF Init, AnswerIsOwn, NothingYet
<1> QED
  BY <1>1, InitAnswerInv, NextAnswerInv, PTL DEF Spec
=============================================================================
