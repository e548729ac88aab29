--------------------------- MODULE RespParserProofs ---------------------------
(***************************************************************************)
(* What the methods of StreamByteBuffer do to the bytes a reader has in    *)
(* front of it, for every capacity, content and chunk.                     *)
(*                                                                         *)
(* The parser's buffer always holds the part of the stream that it has not *)
(* consumed, for every stream and every way of cutting it into chunks.     *)
(* UnreadExact is not inductive: ParserInv adds that the buffer is one,    *)
(* that a pending length is a length, and that the unread bytes are no     *)
(* more than what was fed.                                                 *)
(*                                                                         *)
(* So execute returns what the stream encodes and throws where it is no    *)
(* RESP.  ReadingInv says where the parser is in the reading of its        *)
(* stream: the arrays on its stack are open nodes, each with the values of *)
(* the items behind the parser; it stands at the next node, at its payload *)
(* or behind it; and when it waits, the next node has not arrived.         *)
(***************************************************************************)
EXTENDS RespParser, LeastNumber, FiniteSetTheorems, SequenceTheorems, TLAPS

(***************************************************************************)
(* The buffer.                                                             *)
(***************************************************************************)
\* The bytes in front of a reader number readableBytes.
LEMMA UnreadLength ==
    ASSUME NEW b, IsBuffer(b)
    PROVE  /\ readableBytes(b) \in Nat
           /\ Unread(b) \in [1..readableBytes(b) -> Cell]
<1>1. readableBytes(b) \in Nat
  BY CapacityAssumption DEF IsBuffer, readableBytes
<1>2. ASSUME NEW i \in 1..readableBytes(b)
      PROVE  b.cells[b.readOffset + i - 1] \in Cell
  <2>1. b.readOffset + i - 1 \in 0..b.capacity - 1
    BY CapacityAssumption DEF IsBuffer, readableBytes
  <2> QED
    BY <2>1 DEF IsBuffer
<1> QED
  BY <1>1, <1>2 DEF Unread

\* compact slides the unread bytes to the front and loses none.
LEMMA CompactKeeps ==
    ASSUME NEW b, IsBuffer(b)
    PROVE  /\ IsBuffer(compact(b)) /\ Unread(compact(b)) = Unread(b)
           /\ compact(b).capacity = b.capacity
           /\ compact(b).writeOffset = readableBytes(b)
<1> DEFINE c == compact(b)
           n == readableBytes(b)
<1>1. n \in Nat /\ n = b.writeOffset - b.readOffset /\ n <= b.capacity /\ b.capacity \in Nat
      /\ b.readOffset \in Nat /\ b.writeOffset \in Nat
  BY UnreadLength, CapacityAssumption DEF IsBuffer, readableBytes
<1>2. c = [cells |-> c.cells, capacity |-> b.capacity, readOffset |-> 0, writeOffset |-> n]
  BY DEF compact, IsBuffer
<1>3. c.cells = [i \in 0..b.capacity - 1 |->
                    IF i < n THEN b.cells[b.readOffset + i] ELSE b.cells[i]]
  BY <1>1 DEF compact, copy, IsBuffer
<1>4. c.cells \in [0..b.capacity - 1 -> Cell]
  <2>1. ASSUME NEW i \in 0..b.capacity - 1
        PROVE  (IF i < n THEN b.cells[b.readOffset + i] ELSE b.cells[i]) \in Cell
    <3>1. i < n => b.readOffset + i \in 0..b.capacity - 1
      BY <1>1 DEF IsBuffer
    <3> QED
      BY <3>1 DEF IsBuffer
  <2> QED
    BY <1>3, <2>1
<1>5. IsBuffer(c)
  BY <1>1, <1>2, <1>4 DEF IsBuffer
<1>6. readableBytes(c) = n
  BY <1>1, <1>2 DEF readableBytes
<1>7. \A i \in 1..n : c.cells[c.readOffset + i - 1] = b.cells[b.readOffset + i - 1]
  <2>1. TAKE i \in 1..n
  <2>2. i - 1 \in 0..b.capacity - 1 /\ i - 1 < n
    BY <1>1
  <2>3. c.cells[i - 1] = b.cells[b.readOffset + (i - 1)]
    BY <1>3, <2>2
  <2>4. c.readOffset + i - 1 = i - 1 /\ b.readOffset + (i - 1) = b.readOffset + i - 1
    BY <1>1, <1>2
  <2> QED
    BY <2>3, <2>4
<1>8. Unread(c) = Unread(b)
  BY <1>6, <1>7 DEF Unread
<1> QED
  BY <1>2, <1>5, <1>8

\* So does growing, into a buffer that is large enough for what is needed.
LEMMA GrowKeeps ==
    ASSUME NEW b, IsBuffer(b),
           NEW needed \in Nat, readableBytes(b) <= needed, needed <= maxCapacity
    PROVE  /\ IsBuffer(grow(b, needed)) /\ Unread(grow(b, needed)) = Unread(b)
           /\ grow(b, needed).capacity >= needed
           /\ grow(b, needed).writeOffset = readableBytes(b)
<1> DEFINE n == readableBytes(b)
           m == Smaller(Larger(2 * b.capacity, needed), maxCapacity)
           g == grow(b, needed)
<1>1. n \in Nat /\ n = b.writeOffset - b.readOffset /\ b.capacity \in 1..maxCapacity
      /\ b.readOffset \in Nat /\ b.writeOffset \in Nat /\ b.writeOffset <= b.capacity
  BY UnreadLength, CapacityAssumption DEF IsBuffer, readableBytes
<1>2. m \in 1..maxCapacity /\ needed <= m
  BY <1>1, CapacityAssumption DEF Smaller, Larger
<1> HIDE DEF m
<1>3. g = [cells |-> g.cells, capacity |-> m, readOffset |-> 0, writeOffset |-> n]
  BY DEF grow, m
<1>4. g.cells = [i \in 0..m - 1 |-> IF i < n THEN b.cells[b.readOffset + i] ELSE Unwritten]
  BY <1>1, <1>2 DEF grow, copy, allocUnsafe, readableBytes, m
<1>5. g.cells \in [0..m - 1 -> Cell]
  <2>1. ASSUME NEW i \in 0..m - 1
        PROVE  (IF i < n THEN b.cells[b.readOffset + i] ELSE Unwritten) \in Cell
    <3>1. i < n => b.readOffset + i \in 0..b.capacity - 1
      BY <1>1, <1>2
    <3> QED
      BY <3>1 DEF IsBuffer, Cell
  <2> QED
    BY <1>4, <2>1
<1>6. IsBuffer(g)
  BY <1>1, <1>2, <1>3, <1>5, CapacityAssumption DEF IsBuffer
<1>7. readableBytes(g) = n
  BY <1>1, <1>3 DEF readableBytes
<1>8. \A i \in 1..n : g.cells[g.readOffset + i - 1] = b.cells[b.readOffset + i - 1]
  <2>1. TAKE i \in 1..n
  <2>2. i - 1 \in 0..m - 1 /\ i - 1 < n
    BY <1>1, <1>2
  <2>3. g.cells[i - 1] = b.cells[b.readOffset + (i - 1)]
    BY <1>4, <2>2
  <2>4. g.readOffset + i - 1 = i - 1 /\ b.readOffset + (i - 1) = b.readOffset + i - 1
    BY <1>1, <1>3
  <2> QED
    BY <2>3, <2>4
<1>9. Unread(g) = Unread(b)
  BY <1>7, <1>8 DEF Unread
<1> QED
  BY <1>2, <1>3, <1>6, <1>9

\* Whether it fits, compacts or grows, there is room for the chunk.
LEMMA RoomIsMade ==
    ASSUME NEW b, IsBuffer(b), NEW chunk \in Seq(Byte), ~Overflows(b, chunk)
    PROVE  /\ IsBuffer(WithRoom(b, chunk)) /\ Unread(WithRoom(b, chunk)) = Unread(b)
           /\ WithRoom(b, chunk).writeOffset + Len(chunk) <= WithRoom(b, chunk).capacity
<1>1. /\ readableBytes(b) \in Nat /\ Len(chunk) \in Nat
      /\ totalNeeded(b, chunk) = readableBytes(b) + Len(chunk)
      /\ totalNeeded(b, chunk) <= maxCapacity
  BY UnreadLength, CapacityAssumption DEF Overflows, totalNeeded
<1>2. b.capacity \in Nat /\ b.writeOffset \in Nat
  BY CapacityAssumption DEF IsBuffer
<1>3. CASE Fits(b, chunk)
  BY <1>1, <1>2, <1>3 DEF Fits, WithRoom
<1>4. CASE ~Fits(b, chunk) /\ b.capacity >= totalNeeded(b, chunk) /\ b.readOffset > 0
  <2>1. WithRoom(b, chunk) = compact(b)
    BY <1>4 DEF WithRoom
  <2> QED
    BY <1>1, <1>2, <1>4, <2>1, CompactKeeps
<1>5. CASE ~Fits(b, chunk) /\ ~(b.capacity >= totalNeeded(b, chunk) /\ b.readOffset > 0)
  <2>1. WithRoom(b, chunk) = grow(b, totalNeeded(b, chunk))
    BY <1>5 DEF WithRoom
  <2>2. totalNeeded(b, chunk) \in Nat /\ readableBytes(b) <= totalNeeded(b, chunk)
    BY <1>1
  <2>3. /\ IsBuffer(grow(b, totalNeeded(b, chunk)))
        /\ Unread(grow(b, totalNeeded(b, chunk))) = Unread(b)
        /\ grow(b, totalNeeded(b, chunk)).capacity >= totalNeeded(b, chunk)
        /\ grow(b, totalNeeded(b, chunk)).writeOffset = readableBytes(b)
    BY <1>1, <2>2, GrowKeeps
  <2>4. grow(b, totalNeeded(b, chunk)).capacity \in Nat
    BY <2>3, CapacityAssumption DEF IsBuffer
  <2> QED
    BY <1>1, <2>1, <2>3, <2>4
<1> QED
  BY <1>3, <1>4, <1>5

\* chunk.copy puts the chunk behind the unread bytes.
LEMMA PutAppends ==
    ASSUME NEW b, IsBuffer(b), NEW chunk \in Seq(Byte),
           b.writeOffset + Len(chunk) <= b.capacity
    PROVE  /\ IsBuffer(Put(b, chunk))
           /\ readableBytes(Put(b, chunk)) = readableBytes(b) + Len(chunk)
           /\ \A i \in 1..readableBytes(b) : Unread(Put(b, chunk))[i] = Unread(b)[i]
           /\ \A i \in 1..Len(chunk) : Unread(Put(b, chunk))[readableBytes(b) + i] = chunk[i]
<1> DEFINE p == Put(b, chunk)
           n == readableBytes(b)
           k == Len(chunk)
           w == b.writeOffset
<1>1. /\ n \in Nat /\ k \in Nat /\ w \in Nat /\ b.readOffset \in Nat /\ b.capacity \in 1..maxCapacity
      /\ n = w - b.readOffset /\ w + k <= b.capacity /\ b.capacity \in Nat
  BY UnreadLength, CapacityAssumption DEF IsBuffer, readableBytes
<1>2. p = [cells |-> p.cells, capacity |-> b.capacity, readOffset |-> b.readOffset,
           writeOffset |-> w + k]
  BY DEF Put, IsBuffer
<1>3. p.cells = [i \in 0..b.capacity - 1 |->
                    IF w <= i /\ i < w + k THEN chunk[i - w + 1] ELSE b.cells[i]]
  BY DEF Put, IsBuffer
<1>4. p.cells \in [0..b.capacity - 1 -> Cell]
  <2>1. ASSUME NEW i \in 0..b.capacity - 1
        PROVE  (IF w <= i /\ i < w + k THEN chunk[i - w + 1] ELSE b.cells[i]) \in Cell
    <3>1. CASE w <= i /\ i < w + k
      <4>1. i - w + 1 \in 1..k
        BY <1>1, <3>1
      <4> QED
        BY <3>1, <4>1 DEF Cell
    <3>2. CASE ~(w <= i /\ i < w + k)
      BY <3>2 DEF IsBuffer
    <3> QED
      BY <3>1, <3>2
  <2> QED
    BY <1>3, <2>1
<1>5. IsBuffer(p)
  BY <1>1, <1>2, <1>4 DEF IsBuffer
<1>6. readableBytes(p) = n + k
  BY <1>1, <1>2 DEF readableBytes
<1>7. \A i \in 1..n + k : Unread(p)[i] = p.cells[b.readOffset + i - 1]
  BY <1>2, <1>6 DEF Unread
<1>8. ASSUME NEW i \in 1..n
      PROVE  Unread(p)[i] = Unread(b)[i]
  <2>1. i \in 1..n + k /\ b.readOffset + i - 1 \in 0..b.capacity - 1 /\ b.readOffset + i - 1 < w
    BY <1>1
  <2>2. p.cells[b.readOffset + i - 1] = b.cells[b.readOffset + i - 1]
    BY <1>1, <1>3, <2>1
  <2> QED
    BY <1>7, <2>1, <2>2 DEF Unread
<1>9. ASSUME NEW i \in 1..k
      PROVE  Unread(p)[n + i] = chunk[i]
  <2> DEFINE j == b.readOffset + (n + i) - 1
  <2>1. n + i \in 1..n + k
    BY <1>1
  <2>2. i \in Nat /\ 1 <= i /\ i <= k
    BY <1>1
  <2>3. j = w + i - 1
    BY <1>1, <2>2
  <2> HIDE DEF j
  <2>4. j \in 0..b.capacity - 1 /\ w <= j /\ j < w + k /\ j - w + 1 = i
    <3> HIDE DEF n, k, w
    <3>1. \A c \in Nat : w + k <= c => w + i - 1 \in 0..c - 1 /\ w <= w + i - 1
                                      /\ w + i - 1 < w + k /\ (w + i - 1) - w + 1 = i
      BY <1>1, <2>2
    <3> QED
      BY <1>1, <2>3, <3>1
  <2>5. p.cells[j] = chunk[j - w + 1]
    BY <1>3, <2>4
  <2>6. Unread(p)[n + i] = p.cells[j]
    BY <1>7, <2>1 DEF j
  <2> QED
    BY <2>4, <2>5, <2>6
<1> QED
  BY <1>5, <1>6, <1>8, <1>9

\* append extends what a reader has in front of it by the chunk, whatever it has to
\* move for it.
THEOREM AppendExtends ==
    ASSUME NEW b, IsBuffer(b), NEW chunk \in Seq(Byte), ~Overflows(b, chunk)
    PROVE  /\ IsBuffer(append(b, chunk))
           /\ readableBytes(append(b, chunk)) = readableBytes(b) + Len(chunk)
           /\ \A i \in 1..readableBytes(b) : Unread(append(b, chunk))[i] = Unread(b)[i]
           /\ \A i \in 1..Len(chunk) : Unread(append(b, chunk))[readableBytes(b) + i] = chunk[i]
<1>1. CASE chunk = <<>>
  <2>1. append(b, chunk) = b /\ Len(chunk) = 0
    BY <1>1 DEF append
  <2> QED
    BY <2>1, UnreadLength
<1>2. CASE chunk # <<>>
  <2> DEFINE r == WithRoom(b, chunk)
  <2>1. append(b, chunk) = Put(r, chunk)
    BY <1>2 DEF append
  <2>2. IsBuffer(r) /\ Unread(r) = Unread(b) /\ r.writeOffset + Len(chunk) <= r.capacity
    BY RoomIsMade
  <2>3. readableBytes(r) = readableBytes(b)
    <3>1. readableBytes(r) \in Nat /\ readableBytes(b) \in Nat
      BY <2>2, UnreadLength
    <3>2. DOMAIN Unread(r) = 1..readableBytes(r) /\ DOMAIN Unread(b) = 1..readableBytes(b)
      BY DEF Unread
    <3> QED
      BY <2>2, <3>1, <3>2
  <2> HIDE DEF r
  <2> QED
    BY <2>1, <2>2, <2>3, PutAppends
<1> QED
  BY <1>1, <1>2

\* advance takes the first bytes off.
LEMMA AdvanceDrops ==
    ASSUME NEW b, IsBuffer(b), NEW n \in 0..readableBytes(b)
    PROVE  /\ IsBuffer(advance(b, n))
           /\ readableBytes(advance(b, n)) = readableBytes(b) - n
           /\ \A i \in 1..readableBytes(b) - n : Unread(advance(b, n))[i] = Unread(b)[n + i]
<1> DEFINE a == [cells |-> b.cells, capacity |-> b.capacity, readOffset |-> b.readOffset + n,
                 writeOffset |-> b.writeOffset]
<1>1. /\ b.readOffset \in Nat /\ b.writeOffset \in Nat /\ b.capacity \in Nat /\ n \in Nat
      /\ readableBytes(b) = b.writeOffset - b.readOffset
      /\ b.readOffset + n <= b.writeOffset /\ b.writeOffset <= b.capacity
  BY UnreadLength, CapacityAssumption DEF IsBuffer, readableBytes
<1>2. IsBuffer(a) /\ readableBytes(a) = readableBytes(b) - n
  BY <1>1 DEF IsBuffer, readableBytes
<1>3. CASE b.readOffset + n = b.writeOffset
  <2>1. advance(b, n) = [cells |-> b.cells, capacity |-> b.capacity, readOffset |-> 0, writeOffset |-> 0]
    BY <1>3 DEF advance, checkAutoReset, clear
  <2>2. IsBuffer(advance(b, n))
    BY <1>1, <2>1 DEF IsBuffer
  <2>3. readableBytes(advance(b, n)) = 0 /\ readableBytes(b) - n = 0
    BY <1>1, <1>3, <2>1 DEF readableBytes
  <2> QED
    BY <2>2, <2>3
<1>4. CASE b.readOffset + n # b.writeOffset
  <2>1. advance(b, n) = a
    BY <1>4 DEF advance, checkAutoReset
  <2>2. IsBuffer(a)
    BY <1>1, <1>2 DEF IsBuffer
  <2>3. readableBytes(a) = readableBytes(b) - n
    BY <1>1, <1>2 DEF readableBytes
  <2>4. ASSUME NEW i \in 1..readableBytes(b) - n
        PROVE  Unread(a)[i] = Unread(b)[n + i]
    <3>1. n + i \in 1..readableBytes(b) /\ b.readOffset + n + i - 1 = b.readOffset + (n + i) - 1
      BY <1>1
    <3> QED
      BY <1>2, <2>3, <3>1 DEF Unread
  <2> QED
    BY <2>1, <2>2, <2>3, <2>4
<1> QED
  BY <1>3, <1>4

-----------------------------------------------------------------------------
(***************************************************************************)
(* The parser.                                                             *)
(***************************************************************************)

\* The unread bytes of b are the last ones of the first n of the stream.
Holds(b, bytes, n) ==
    /\ IsBuffer(b) /\ readableBytes(b) <= n
    /\ \A i \in 1..readableBytes(b) : Unread(b)[i] = bytes[n - readableBytes(b) + i]

ParserInv ==
    /\ IsBuffer(buffer)
    /\ stream \in Streams
    /\ fed \in 0..Len(stream.bytes)
    /\ pendingBulkLength \in {NoBulk} \cup Nat
    /\ error = "none" => Holds(buffer, stream.bytes, fed)

\* Pointwise or as a subsequence, it is the same.
LEMMA HoldsIsUnread ==
    ASSUME NEW bytes \in Seq(Byte), NEW b, NEW n \in 0..Len(bytes), Holds(b, bytes, n)
    PROVE  Unread(b) = SubSeq(bytes, n - readableBytes(b) + 1, n)
<1> DEFINE r == readableBytes(b)
<1>1. r \in Nat /\ r <= n /\ n \in Nat /\ Len(bytes) \in Nat
  BY UnreadLength DEF Holds
<1>2. SubSeq(bytes, n - r + 1, n) = [i \in 1..r |-> bytes[n - r + i]]
  BY <1>1
<1>3. Unread(b) = [i \in 1..r |-> Unread(b)[i]]
  BY DEF Unread
<1> QED
  BY <1>2, <1>3 DEF Holds

\* Appending the next bytes of the stream.
LEMMA FeedHolds ==
    ASSUME NEW bytes \in Seq(Byte), NEW b, NEW f \in Nat, NEW n \in Nat,
           f + n <= Len(bytes), Holds(b, bytes, f),
           ~Overflows(b, SubSeq(bytes, f + 1, f + n))
    PROVE  Holds(append(b, SubSeq(bytes, f + 1, f + n)), bytes, f + n)
<1> DEFINE chunk == SubSeq(bytes, f + 1, f + n)
           r == readableBytes(b)
           a == append(b, chunk)
<1>1. r \in Nat /\ r <= f /\ IsBuffer(b) /\ Len(bytes) \in Nat
  BY UnreadLength DEF Holds
<1>2. chunk \in Seq(Byte) /\ Len(chunk) = n /\ \A i \in 1..n : chunk[i] = bytes[f + i]
  BY <1>1
<1>3. ~Overflows(b, chunk)
  OBVIOUS
<1> HIDE DEF chunk
<1>4. /\ IsBuffer(a) /\ readableBytes(a) = r + n
      /\ \A i \in 1..r : Unread(a)[i] = Unread(b)[i]
      /\ \A i \in 1..n : Unread(a)[r + i] = chunk[i]
  BY <1>1, <1>2, <1>3, AppendExtends
<1> HIDE DEF a
<1>5. ASSUME NEW i \in 1..r + n
      PROVE  Unread(a)[i] = bytes[(f + n) - (r + n) + i]
  <2>1. (f + n) - (r + n) + i = f - r + i
    BY <1>1
  <2>2. CASE i <= r
    <3>1. i \in 1..r
      BY <1>1, <2>2
    <3>2. Unread(b)[i] = bytes[f - r + i]
      BY <3>1 DEF Holds
    <3> QED
      BY <1>4, <2>1, <3>1, <3>2
  <2>3. CASE ~(i <= r)
    <3>1. i - r \in 1..n /\ r + (i - r) = i /\ f + (i - r) = f - r + i
      BY <1>1, <2>3
    <3>2. Unread(a)[r + (i - r)] = chunk[i - r]
      BY <1>4, <3>1
    <3>3. chunk[i - r] = bytes[f + (i - r)]
      BY <1>2, <3>1
    <3> QED
      BY <2>1, <3>1, <3>2, <3>3
  <2> QED
    BY <2>2, <2>3
<1>6. Holds(a, bytes, f + n)
  BY <1>1, <1>4, <1>5 DEF Holds
<1> QED
  BY <1>6 DEF a, chunk

\* Consuming unread bytes.
LEMMA DropHolds ==
    ASSUME NEW bytes, NEW b, NEW f \in Nat, Holds(b, bytes, f), NEW n \in 0..readableBytes(b)
    PROVE  Holds(advance(b, n), bytes, f)
<1> DEFINE r == readableBytes(b)
           a == advance(b, n)
<1>1. r \in Nat /\ r <= f /\ IsBuffer(b) /\ n \in Nat /\ n <= r
  BY UnreadLength DEF Holds
<1>2. /\ IsBuffer(a) /\ readableBytes(a) = r - n
      /\ \A i \in 1..r - n : Unread(a)[i] = Unread(b)[n + i]
  BY <1>1, AdvanceDrops
<1> HIDE DEF a
<1>3. ASSUME NEW i \in 1..r - n
      PROVE  Unread(a)[i] = bytes[f - (r - n) + i]
  <2>1. n + i \in 1..r /\ f - r + (n + i) = f - (r - n) + i
    BY <1>1
  <2>2. Unread(b)[n + i] = bytes[f - r + (n + i)]
    BY <2>1 DEF Holds
  <2> QED
    BY <1>2, <2>1, <2>2
<1>4. Holds(a, bytes, f)
  BY <1>1, <1>2, <1>3 DEF Holds
<1> QED
  BY <1>4 DEF a

\* A buffer with nothing unread holds nothing of a stream of which nothing was fed.
LEMMA EmptyHolds ==
    ASSUME NEW b, IsBuffer(b), b.readOffset = 0, b.writeOffset = 0, NEW bytes
    PROVE  Holds(b, bytes, 0)
<1>1. readableBytes(b) = 0
  BY DEF readableBytes
<1> QED
  BY <1>1 DEF Holds

\* The line that findCrlf found, and its end, are unread bytes.
LEMMA LineIsUnread ==
    ASSUME LimitAssumption, IsBuffer(buffer), CrlfOffsets # {}
    PROVE  findCrlf + 2 \in 0..readable
<1>1. readable \in Nat
  BY UnreadLength DEF readable
<1>2. CrlfOffsets \in SUBSET Nat /\ \A i \in CrlfOffsets : i + 2 <= readable
  BY <1>1 DEF CrlfOffsets, Smaller, LimitAssumption
<1>3. findCrlf \in CrlfOffsets
  BY <1>2, Least DEF findCrlf
<1> QED
  BY <1>1, <1>2, <1>3
-----------------------------------------------------------------------------
StreamsOfBytes == LaterStreams \subseteq Streams /\ \A s \in Streams : s.bytes \in Seq(Byte)
Assumptions == CapacityAssumption /\ LimitAssumption /\ StreamsOfBytes

\* Steps that leave the buffer and the stream alone keep the invariant.
LEMMA ParserUntouched ==
    ASSUME ParserInv, UNCHANGED <<buffer, stream, fed>>, pendingBulkLength' \in {NoBulk} \cup Nat,
           error' = "none" => error = "none"
    PROVE  ParserInv'
BY DEF ParserInv, Holds, IsBuffer, readableBytes, Unread, NoBulk, Cell

\* Steps that consume unread bytes keep it.
LEMMA ParserConsumes ==
    ASSUME ParserInv, StreamsOfBytes, NEW n \in 0..readable, buffer' = advance(buffer, n),
           error' = "none" => error = "none", UNCHANGED <<stream, fed>>,
           pendingBulkLength' \in {NoBulk} \cup Nat
    PROVE  ParserInv'
<1>1. fed \in Nat /\ n \in 0..readableBytes(buffer)
  BY DEF ParserInv, StreamsOfBytes, readable
<1>2. IsBuffer(advance(buffer, n))
  BY <1>1, AdvanceDrops DEF ParserInv
<1>3. error' = "none" => Holds(advance(buffer, n), stream.bytes, fed)
  BY <1>1, DropHolds DEF ParserInv
<1>4. IsBuffer(buffer)' /\ (error' = "none" => Holds(buffer, stream.bytes, fed)')
  <2>1. IsBuffer(buffer')
    BY <1>2
  <2>2. error' = "none" => Holds(buffer', stream.bytes, fed)
    BY <1>3
  <2> QED
    BY <2>1, <2>2 DEF Holds, IsBuffer, readableBytes, Unread, Cell
<1> QED
  BY <1>4 DEF ParserInv, NoBulk

\* The empty buffer is one, and holds nothing.
LEMMA ParserStarts ==
    ASSUME Assumptions, Init
    PROVE  ParserInv
<1>1. IsBuffer(EmptyBuffer) /\ EmptyBuffer.readOffset = 0 /\ EmptyBuffer.writeOffset = 0
  BY DEF Assumptions, CapacityAssumption, EmptyBuffer, IsBuffer, allocUnsafe, Cell
<1>2. stream.bytes \in Seq(Byte)
  BY DEF Init, Assumptions, StreamsOfBytes
<1> QED
  BY <1>1, <1>2, EmptyHolds DEF Init, ParserInv, NoBulk

\* Feeding a chunk.
LEMMA ParserFeeds ==
    ASSUME Assumptions, ParserInv, NEW n \in 1..Len(stream.bytes), executeChunk(n)
    PROVE  ParserInv'
<1> DEFINE chunk == SubSeq(stream.bytes, fed + 1, fed + n)
<1>1. /\ stream.bytes \in Seq(Byte) /\ Len(stream.bytes) \in Nat /\ fed \in Nat /\ n \in Nat
      /\ fed + n <= Len(stream.bytes) /\ fed' = fed + n /\ stream' = stream
      /\ pendingBulkLength' = pendingBulkLength /\ error = "none"
  BY DEF Assumptions, StreamsOfBytes, ParserInv, executeChunk
<1>2. CASE Overflows(buffer, chunk)
  <2>1. error' = "overflow" /\ buffer' = buffer
    BY <1>2 DEF executeChunk
  <2> QED
    BY <1>1, <2>1 DEF ParserInv, IsBuffer, NoBulk, Cell
<1>3. CASE ~Overflows(buffer, chunk)
  <2>1. buffer' = append(buffer, chunk) /\ error' = error
    BY <1>3 DEF executeChunk
  <2>2. Holds(append(buffer, chunk), stream.bytes, fed + n)
    BY <1>1, <1>3, FeedHolds DEF ParserInv
  <2>3. Holds(buffer', stream'.bytes, fed')
    BY <1>1, <2>1, <2>2
  <2>4. Holds(buffer, stream.bytes, fed)' /\ IsBuffer(buffer)'
    BY <2>3 DEF Holds, IsBuffer, readableBytes, Unread, Cell
  <2> QED
    BY <1>1, <2>4 DEF ParserInv, NoBulk
<1> QED
  BY <1>2, <1>3

\* A new stream.
LEMMA ParserRestarts ==
    ASSUME Assumptions, ParserInv, reset
    PROVE  ParserInv'
<1>1. IsBuffer(clear(buffer)) /\ clear(buffer).readOffset = 0 /\ clear(buffer).writeOffset = 0
  BY DEF ParserInv, IsBuffer, clear, Assumptions, CapacityAssumption
<1>2. stream' \in Streams /\ fed' = 0 /\ buffer' = clear(buffer) /\ pendingBulkLength' = NoBulk
  BY DEF reset, Assumptions, StreamsOfBytes
<1>3. Holds(clear(buffer), stream'.bytes, 0)
  BY <1>1, EmptyHolds
<1>4. Holds(buffer', stream'.bytes, fed')
  BY <1>2, <1>3
<1>5. Holds(buffer, stream.bytes, fed)' /\ IsBuffer(buffer)'
  BY <1>4 DEF Holds, IsBuffer, readableBytes, Unread, Cell
<1>6. stream'.bytes \in Seq(Byte)
  BY <1>2 DEF Assumptions, StreamsOfBytes
<1> QED
  BY <1>2, <1>5, <1>6 DEF ParserInv, NoBulk

\* A header line: it is consumed whatever it says.
LEMMA ParserReadsLine ==
    ASSUME Assumptions, ParserInv, Header \/ MalformedLine
    PROVE  ParserInv'
<1>1. CrlfOffsets # {} /\ Consume /\ UNCHANGED <<stream, fed>> /\ (error' = "none" => error = "none")
  BY DEF Header, SimpleLine, IntegerLine, BulkLine, ArrayLine, MalformedLine, HasLine, Rest,
         Complete, Throw, call
<1>2. findCrlf + 2 \in 0..readable
  BY <1>1, LineIsUnread DEF Assumptions, ParserInv
<1>3. pendingBulkLength' \in {NoBulk} \cup Nat
  <2>1. CASE BulkLine
    BY <2>1 DEF BulkLine, ParserInv, Assumptions, LimitAssumption
  <2>2. CASE SimpleLine \/ IntegerLine \/ ArrayLine \/ MalformedLine
    BY <2>2 DEF SimpleLine, IntegerLine, ArrayLine, MalformedLine, ParserInv
  <2> QED
    BY <2>1, <2>2 DEF Header
<1> QED
  BY <1>1, <1>2, <1>3, ParserConsumes DEF Consume, Assumptions

\* A payload and its terminator.
LEMMA ParserReadsBulk ==
    ASSUME Assumptions, ParserInv, ReadBulk
    PROVE  ParserInv'
<1>1. /\ buffer' = advance(buffer, pendingBulkLength + 2) /\ pendingBulkLength' = NoBulk
      /\ UNCHANGED <<stream, fed, error>>
      /\ pendingBulkLength # NoBulk /\ readable >= pendingBulkLength + 2
  BY DEF ReadBulk, InBulk, BulkArrived, Complete, Rest
<1>2. pendingBulkLength + 2 \in 0..readable
  BY <1>1, UnreadLength DEF ParserInv, readable
<1> QED
  BY <1>1, <1>2, ParserConsumes DEF Assumptions

\* Every step of the parser keeps the invariant.
LEMMA ParserSteps ==
    ASSUME Assumptions, ParserInv, [Next]_vars
    PROVE  ParserInv'
<1>1. pendingBulkLength \in {NoBulk} \cup Nat
  BY DEF ParserInv
<1>2. CASE UNCHANGED vars
  BY <1>1, <1>2, ParserUntouched DEF vars, parser, call
<1>3. ASSUME NEW n \in 1..Len(stream.bytes), executeChunk(n)
      PROVE  ParserInv'
  BY <1>3, ParserFeeds
<1>4. CASE Header \/ MalformedLine
  BY <1>4, ParserReadsLine
<1>5. CASE Waits
  BY <1>1, <1>5, ParserUntouched DEF Waits, Drained, AwaitBulk, AwaitLine, return, parser
<1>6. CASE MalformedBulk \/ LineTooLong
  BY <1>1, <1>6, ParserUntouched DEF MalformedBulk, LineTooLong, Throw, Rest
<1>7. CASE ReadBulk
  BY <1>7, ParserReadsBulk
<1>8. CASE AddItem
  BY <1>1, <1>8, ParserUntouched DEF AddItem, Rest
<1>9. CASE emitCompleted
  BY <1>1, <1>9, ParserUntouched DEF emitCompleted
<1>10. CASE reset
  BY <1>10, ParserRestarts
<1> QED
  BY <1>2, <1>3, <1>4, <1>5, <1>6, <1>7, <1>8, <1>9, <1>10 DEF Next, execute, Throws

\* The buffer holds, after any compaction, growth and automatic reset, exactly the bytes
\* of the stream that were not consumed, for every stream and capacity.
THEOREM UnreadAlwaysExact == Spec => []UnreadExact
<1>1. Assumptions
  BY CapacityAssumption, LimitAssumption, StreamAssumption DEF Assumptions, StreamsOfBytes, IsStream
<1>2. Init => ParserInv
  BY <1>1, ParserStarts
<1>3. ParserInv /\ [Next]_vars => ParserInv'
  BY <1>1, ParserSteps
<1>4. ParserInv => UnreadExact
  BY <1>1, HoldsIsUnread DEF ParserInv, UnreadExact, readable, Assumptions, StreamsOfBytes
<1> QED
  BY <1>2, <1>3, <1>4, PTL DEF Spec

-----------------------------------------------------------------------------
(***************************************************************************)
(* The reading of a stream.                                                *)
(***************************************************************************)
\* What a digit stands for.
DigitValue(d) == (CHOOSE i \in 1..10 : Digits[i] = d) - 1

\* A digit stands for an integer.
LEMMA DigitsCount ==
    ASSUME NEW d \in ToSet(Digits)
    PROVE  DigitValue(d) \in Int
<1>1. DOMAIN Digits = 1..10
  BY DEF Digits
<1>2. PICK j \in 1..10 : Digits[j] = d
  BY <1>1 DEF ToSet
<1> HIDE DEF Digits
<1>3. PICK c : c = CHOOSE i \in 1..10 : Digits[i] = d
  OBVIOUS
<1>4. c \in 1..10
  BY <1>2, <1>3, Zenon
<1>5. DigitValue(d) = c - 1
  BY <1>3 DEF DigitValue
<1> QED
  BY <1>4, <1>5

\* A number in a line is an integer.
LEMMA IntegersAreInt ==
    ASSUME NEW text, text \in Seq(Byte), IsInteger(text)
    PROVE  parseInteger(text) \in Int
<1> DEFINE l == Unsigned(text)
<1>1. l \in Seq(Byte) /\ ToSet(l) \subseteq ToSet(Digits)
  BY DEF Unsigned, IsInteger
<1> HIDE DEF l
<1>2. PICK n \in Nat : n = Len(l) /\ DOMAIN l = 1..n
  BY <1>1
<1>3. ASSUME NEW i \in 1..n
      PROVE  DigitValue(l[i]) \in Int
  <2>1. l[i] \in ToSet(l)
    BY <1>2 DEF ToSet
  <2> QED
    BY <1>1, <2>1, DigitsCount
<1>4. PICK value : value = [i \in 1..n |-> DigitValue(l[i])]
  OBVIOUS
<1>5. \A i \in 1..n : value[i] \in Int /\ value[i] = DigitValue(l[i])
  BY <1>3, <1>4
<1> DEFINE step == [p \in Int \X (1..n) |-> 10 * p[1] + value[p[2]]]
           Is(h) == h = [s \in SUBSET (1..n) |->
                           IF s = {} THEN 0 ELSE 10 * h[s \ {Max(s)}] + DigitValue(l[Max(s)])]
           iter == CHOOSE h : Is(h)
<1>6. \A y \in Int, i \in 1..n : step[<<y, i>>] = 10 * y + value[i]
  OBVIOUS
<1> HIDE DEF step
<1>7. PICK f \in [SUBSET (1..n) -> Int] : FoldsWith(f, 0, step, n)
  <2>1. ASSUME NEW y \in Int, NEW i \in 1..n
        PROVE  step[<<y, i>>] \in Int
    <3>1. value[i] \in Int
      BY <1>5
    <3>2. step[<<y, i>>] = 10 * y + value[i]
      BY <1>6
    <3> QED
      BY <3>1, <3>2
  <2>2. StaysIn(step, Int, n)
    BY <2>1 DEF StaysIn
  <2>3. 0 \in Int
    OBVIOUS
  <2> QED
    BY <1>2, <2>2, <2>3, FoldWith
<1>8. ASSUME NEW s \in SUBSET (1..n)
      PROVE  f[s] = IF s = {} THEN 0 ELSE 10 * f[s \ {Max(s)}] + DigitValue(l[Max(s)])
  <2>1. CASE s # {}
    <3>1. /\ Max(s) \in 1..n /\ s \ {Max(s)} \in SUBSET (1..n)
          /\ f[s] = step[<<f[s \ {Max(s)}], Max(s)>>]
      BY <1>7, <2>1 DEF FoldsWith
    <3>2. f[s \ {Max(s)}] \in Int
      BY <3>1
    <3> QED
      BY <1>5, <1>6, <2>1, <3>1, <3>2
  <2> QED
    BY <1>7, <2>1 DEF FoldsWith
<1>9. f = [s \in SUBSET (1..n) |-> f[s]]
  OBVIOUS
<1>10. Is(f)
  BY <1>8, <1>9
<1>11. Is(iter)
  <2> HIDE DEF Is
  <2> QED
    BY <1>10
<1>12. Magnitude(l) = iter[1..n]
  BY <1>2 DEF Magnitude, FoldLeft, MapThenFoldSet, DigitValue
<1> HIDE DEF iter
<1>13. \A i \in 0..n : iter[1..i] \in Int
  <2> DEFINE S == {i \in 0..n : iter[1..i] \in Int}
  <2>1. 0 \in S
    <3>1. 1..0 = {} /\ {} \in SUBSET (1..n) /\ 0 \in 0..n
      OBVIOUS
    <3> QED
      BY <1>11, <3>1
  <2>2. ASSUME NEW i \in 1..n, i - 1 \in S
        PROVE  i \in S
    <3>1. /\ 1..i \in SUBSET (1..n) /\ 1..i # {}
          /\ Max(1..i) = i /\ (1..i) \ {i} = 1..i - 1
      BY FirstPositions
    <3>2. iter[1..i] = 10 * iter[1..i - 1] + DigitValue(l[i])
      BY <1>11, <3>1
    <3>3. DigitValue(l[i]) \in Int /\ iter[1..i - 1] \in Int /\ i \in 0..n
      BY <1>5, <2>2
    <3> QED
      BY <3>2, <3>3
  <2>3. \A i \in 0..n : i \in S
    <3> HIDE DEF S
    <3> QED
      BY <2>1, <2>2, Reached
  <2> QED
    BY <2>3
<1>14. Magnitude(l) \in Int
  BY <1>2, <1>12, <1>13
<1> QED
  BY <1>14 DEF parseInteger, l

\* Where a node and its first line are.
Shaped(s, v) ==
    /\ v.from \in Nat /\ v.to \in Nat /\ v.from < v.to /\ v.to <= Len(s.bytes)
    /\ HasHeader(s, v) => v.line \in Nat /\ v.from <= v.line /\ v.line + 2 <= v.to

\* A header is in the stream.
LEMMA HeaderShape ==
    ASSUME NEW s, s.bytes \in Seq(Byte), LimitAssumption, NEW v, v.from \in Nat, HasHeader(s, v)
    PROVE  v.line \in Nat /\ v.from <= v.line /\ v.line + 2 <= Len(s.bytes)
BY DEF HasHeader, LimitAssumption

\* A number of the stream is an integer.
LEMMA NumbersAreInt ==
    ASSUME NEW s, s.bytes \in Seq(Byte), LimitAssumption,
           NEW v, v.from \in Nat, NEW type, Starts(s, v, type), Counts(s, v)
    PROVE  Number(s, v) \in Int
<1>1. HasHeader(s, v) /\ Text(s, v) # <<>>
  BY DEF Starts
<1>2. v.line \in Nat /\ v.from <= v.line /\ v.line + 2 <= Len(s.bytes)
  BY <1>1, HeaderShape
<1>3. Text(s, v) \in Seq(Byte)
  BY <1>2 DEF Text
<1>4. Argument(s, v) \in Seq(Byte)
  BY <1>1, <1>3 DEF Argument
<1> QED
  BY <1>4, IntegersAreInt DEF Counts, Number

\* The nodes of a row start where the row does, or later.
LEMMA RowGoesOn ==
    ASSUME NEW s, NEW vs, NEW from \in Nat, NEW d, InARow(s, vs, from, d),
           \A v \in s.nodes : v.from \in Nat /\ (v.from >= from => Shaped(s, v))
    PROVE  \A i \in 1..Len(vs) : Shaped(s, vs[i]) /\ vs[i].from >= from
<1>1. PICK n \in Nat : n = Len(vs) /\ DOMAIN vs = 1..n /\ \A i \in 1..n : vs[i] \in s.nodes
  BY DEF InARow
<1> DEFINE S == {i \in 0..n : i > 0 => Shaped(s, vs[i]) /\ vs[i].from >= from}
<1>2. 0 \in S
  OBVIOUS
<1>3. ASSUME NEW i \in 1..n, i - 1 \in S
      PROVE  i \in S
  <2>1. vs[i].from = IF i = 1 THEN from ELSE vs[i - 1].to
    BY <1>1 DEF InARow
  <2>2. vs[i] \in s.nodes /\ vs[i].from \in Nat
    BY <1>1
  <2>3. vs[i].from >= from
    <3>1. CASE i = 1
      BY <2>1, <3>1
    <3>2. CASE i # 1
      <4>1. Shaped(s, vs[i - 1]) /\ vs[i - 1].from >= from
        BY <1>3, <3>2
      <4> QED
        BY <2>1, <3>2, <4>1 DEF Shaped
    <3> QED
      BY <3>1, <3>2
  <2>4. Shaped(s, vs[i])
    BY <2>2, <2>3
  <2> QED
    BY <2>3, <2>4
<1>4. \A i \in 0..n : i \in S
  <2> HIDE DEF S
  <2> QED
    BY <1>1, <1>2, <1>3, Reached
<1>5. ASSUME NEW i \in 1..n
      PROVE  Shaped(s, vs[i]) /\ vs[i].from >= from
  BY <1>4
<1> QED
  BY <1>1, <1>5

\* An array holds its items.
LEMMA ArrayShape ==
    ASSUME NEW s, s.bytes \in Seq(Byte), LimitAssumption, NEW v, v.from \in Nat, IsArray(s, v),
           \A w \in s.nodes : w.from \in Nat /\ (w.from >= v.line + 2 => Shaped(s, w))
    PROVE  Shaped(s, v)
<1>1. HasHeader(s, v) /\ Starts(s, v, "*") /\ Counts(s, v)
  BY DEF IsArray, Starts
<1>2. v.line \in Nat /\ v.from <= v.line /\ v.line + 2 <= Len(s.bytes) /\ Number(s, v) \in Int
  BY <1>1, HeaderShape, NumbersAreInt
<1>3. PICK n \in Nat : n = Len(v.items) /\ n >= 1
  BY <1>2 DEF IsArray, InARow
<1>4. InARow(s, v.items, v.line + 2, v.depth + 1) /\ v.to = Last(v.items).to
  BY DEF IsArray
<1>5. v.line + 2 \in Nat
  BY <1>2
<1>6. Shaped(s, v.items[n]) /\ v.items[n].from >= v.line + 2
  BY <1>3, <1>4, <1>5, RowGoesOn
<1>7. v.to = v.items[n].to
  BY <1>3, <1>4 DEF Last
<1> QED
  BY <1>2, <1>6, <1>7 DEF Shaped

\* Every node of a stream is in its bytes.
LEMMA NodeShape ==
    ASSUME NEW s, IsStream(s), LimitAssumption
    PROVE  \A v \in s.nodes : Shaped(s, v)
<1>1. s.bytes \in Seq(Byte) /\ (\A v \in s.nodes : IsNode(s, v))
  BY DEF IsStream
<1>2. PICK len \in Nat : len = Len(s.bytes)
  BY <1>1
<1>3. ASSUME NEW v \in s.nodes, ~IsArray(s, v)
      PROVE  Shaped(s, v)
  <2>1. v.from \in Nat
    BY <1>1 DEF IsNode
  <2>2. CASE HasHeader(s, v)
    <3>1. v.line \in Nat /\ v.from <= v.line /\ v.line + 2 <= len
      BY <1>1, <1>2, <2>1, <2>2, HeaderShape
    <3>2. CASE IsLine(s, v) \/ IsBadLine(s, v)
      BY <1>2, <2>1, <3>1, <3>2 DEF IsLine, IsBadLine, Shaped
    <3>3. CASE IsBulk(s, v)
      <4>1. Number(s, v) \in Nat /\ v.to = v.line + Number(s, v) + 4 /\ v.to <= len
        BY <1>2, <3>3 DEF IsBulk, LimitAssumption
      <4> QED
        BY <1>2, <2>1, <3>1, <4>1 DEF Shaped
    <3>4. ~IsLongLine(s, v)
      <4>1. v.line + 1 \in v.from + 1..v.from + maxInlineLength - 1 /\ EndsLine(s, v.line + 1)
        BY <2>1, <2>2, <3>1 DEF HasHeader, LimitAssumption
      <4> QED
        BY <4>1 DEF IsLongLine
    <3> QED
      BY <1>1, <1>3, <3>2, <3>3, <3>4 DEF IsNode
  <2>3. CASE ~HasHeader(s, v)
    <3>1. IsLongLine(s, v)
      BY <1>1, <1>3, <2>3 DEF IsNode, IsLine, IsBulk, IsBadLine, Starts
    <3> QED
      BY <1>2, <2>1, <2>3, <3>1 DEF IsLongLine, Shaped, LimitAssumption
  <2> QED
    BY <2>2, <2>3
<1>4. \A v \in s.nodes : v.from \in Nat /\ v.from <= len
  <2> TAKE v \in s.nodes
  <2>1. v.from \in Nat
    BY <1>1 DEF IsNode
  <2>2. CASE IsArray(s, v)
    BY <1>1, <1>2, <2>1, <2>2, HeaderShape DEF IsArray, Starts
  <2>3. CASE ~IsArray(s, v)
    BY <1>2, <1>3, <2>3 DEF Shaped
  <2> QED
    BY <2>1, <2>2, <2>3
<1> DEFINE M == {len - v.from : v \in {w \in s.nodes : ~Shaped(s, w)}}
<1>5. M = {}
  <2> SUFFICES ASSUME M # {} PROVE FALSE
    OBVIOUS
  <2>1. M \in SUBSET Nat
    BY <1>4
  <2>2. PICK m \in M : \A j \in M : m <= j
    BY <2>1, Least
  <2>3. PICK v \in s.nodes : ~Shaped(s, v) /\ m = len - v.from
    BY <2>2
  <2>4. IsArray(s, v) /\ v.from \in Nat
    BY <1>3, <1>4, <2>3
  <2>5. v.line \in Nat /\ v.from <= v.line
    BY <1>1, <2>4, HeaderShape DEF IsArray, Starts
  <2>6. ASSUME NEW w \in s.nodes, w.from >= v.line + 2, ~Shaped(s, w)
        PROVE  FALSE
    <3>1. len - w.from \in M
      BY <2>6
    <3>2. m <= len - w.from
      BY <2>2, <3>1
    <3> QED
      BY <1>4, <2>3, <2>4, <2>5, <2>6, <3>2
  <2> QED
    BY <1>1, <1>4, <2>3, <2>4, <2>6, ArrayShape
<1> QED
  BY <1>5

-----------------------------------------------------------------------------
(***************************************************************************)
(* Where the parser is in the reading of its stream.  at.done frames are   *)
(* behind it, and the arrays on its stack are open nodes: open[1] a frame, *)
(* each next one an item of the one in front of it.                        *)
(***************************************************************************)
Depth(at) == Len(at.stack)

\* The nodes at a level, and how many of them are behind the parser.
Row(at, k) == IF k = 0 THEN at.stream.frames ELSE at.open[k].items
Passed(at, k) == IF k = 0 THEN at.done ELSE Len(at.stack[k].items)
HasNode(at, k) == Passed(at, k) \in 0..Len(Row(at, k)) - 1
Node(at, k) == Row(at, k)[Passed(at, k) + 1]
FrontOf(at, k) == IF k = 0 THEN 0 ELSE at.open[k].line + 2
Begins(at, k) == IF Passed(at, k) = 0 THEN FrontOf(at, k) ELSE Row(at, k)[Passed(at, k)].to

\* Level k of the stack holds what was read of an open array.
IsOpen(at, k) ==
    /\ HasNode(at, k - 1) /\ at.open[k] = Node(at, k - 1) /\ IsArray(at.stream, at.open[k])
    /\ HasNode(at, k)
    /\ at.stack[k] = [count |-> Number(at.stream, at.open[k]),
                      items |-> [i \in 1..Passed(at, k) |-> at.open[k].items[i].value]]

Path(at) ==
    /\ IsStream(at.stream)
    /\ Depth(at) \in Nat /\ at.done \in 0..Len(at.stream.frames)
    /\ at.open \in [1..Depth(at) -> at.stream.nodes]
    /\ \A k \in 1..Depth(at) : IsOpen(at, k)

\* The parser is behind the next node, at its payload, or at the beginning of it.
Behind(at, value, position) ==
    /\ HasNode(at, Depth(at)) /\ position = Node(at, Depth(at)).to
    /\ value = Node(at, Depth(at)).value /\ value # NotResp
AtPayload(at, length, position) ==
    /\ HasNode(at, Depth(at)) /\ IsBulk(at.stream, Node(at, Depth(at)))
    /\ length = Number(at.stream, Node(at, Depth(at)))
    /\ position = Node(at, Depth(at)).line + 2
AtNext(at, position) == position = Begins(at, Depth(at))

\* An open array has a header.
LEMMA ArrayHeader ==
    ASSUME NEW s, IsStream(s), LimitAssumption, NEW v \in s.nodes, IsArray(s, v)
    PROVE  /\ v.from \in Nat /\ v.line \in Nat /\ Number(s, v) \in Int /\ Len(v.items) \in Nat
           /\ HasHeader(s, v) /\ v.line + 2 <= v.to /\ Len(v.items) <= Number(s, v)
<1>1. /\ s.bytes \in Seq(Byte) /\ v.from \in Nat
      /\ Starts(s, v, "*") /\ HasHeader(s, v) /\ Counts(s, v)
  BY DEF IsStream, IsNode, IsArray, Starts
<1>2. Number(s, v) \in Int
  BY <1>1, NumbersAreInt
<1>3. v.items \in Seq(s.nodes) /\ Len(v.items) \in 1..Number(s, v)
  BY DEF IsArray, InARow
<1>4. Shaped(s, v)
  BY NodeShape
<1> QED
  BY <1>1, <1>2, <1>3, <1>4 DEF Shaped

\* The nodes of a row follow each other.
LEMMA RowOrder ==
    ASSUME NEW s, IsStream(s), LimitAssumption,
           NEW vs, NEW from \in Nat, NEW d, InARow(s, vs, from, d)
    PROVE  /\ Len(vs) \in Nat
           /\ \A i \in 1..Len(vs) : vs[i] \in s.nodes /\ Shaped(s, vs[i]) /\ vs[i].from >= from
                                    /\ vs[i].depth = d /\ (i < Len(vs) => vs[i].value # NotResp)
           /\ \A i, j \in 1..Len(vs) : i < j => vs[i].to <= vs[j].from
<1>1. PICK n \in Nat : n = Len(vs) /\ DOMAIN vs = 1..n /\ \A i \in 1..n : vs[i] \in s.nodes
  BY DEF InARow
<1>2. \A i \in 1..n : Shaped(s, vs[i])
  BY <1>1, NodeShape
<1>3. \A v \in s.nodes : v.from \in Nat /\ Shaped(s, v)
  BY NodeShape DEF Shaped
<1>4. \A i \in 1..n : vs[i].from >= from
  BY <1>1, <1>3, RowGoesOn
<1>5. ASSUME NEW i \in 1..n
      PROVE  \A j \in 1..n : i < j => vs[i].to <= vs[j].from
  <2> DEFINE S == {j \in 0..n : i < j => vs[i].to <= vs[j].from}
  <2>1. 0 \in S
    BY <1>5
  <2>2. ASSUME NEW j \in 1..n, j - 1 \in S
        PROVE  j \in S
    <3>1. vs[j].from = IF j = 1 THEN from ELSE vs[j - 1].to
      BY <1>1 DEF InARow
    <3>2. CASE i < j - 1
      <4>1. vs[i].to <= vs[j - 1].from
        BY <2>2, <3>2
      <4>2. j - 1 \in 1..n
        BY <1>5, <2>2, <3>2
      <4>3. vs[j - 1].from \in Nat /\ vs[j - 1].to \in Nat /\ vs[j - 1].from < vs[j - 1].to
            /\ vs[i].to \in Nat
        BY <1>2, <4>2 DEF Shaped
      <4> QED
        BY <3>1, <3>2, <4>1, <4>2, <4>3
    <3>3. CASE i = j - 1
      <4>1. vs[i].to \in Nat
        BY <1>2 DEF Shaped
      <4> QED
        BY <3>1, <3>3, <4>1
    <3> QED
      BY <3>2, <3>3
  <2>3. \A j \in 0..n : j \in S
    <3> HIDE DEF S
    <3> QED
      BY <2>1, <2>2, Reached
  <2> QED
    BY <2>3
<1>6. ASSUME NEW i \in 1..n
      PROVE  vs[i].depth = d /\ (i < n => vs[i].value # NotResp)
  BY <1>1 DEF InARow
<1> QED
  BY <1>1, <1>2, <1>4, <1>5, <1>6

\* Every level of a path is a row of its stream.
LEMMA RowsOfPath ==
    ASSUME NEW at, Path(at), LimitAssumption
    PROVE  \A k \in 0..Depth(at) :
              FrontOf(at, k) \in Nat /\ InARow(at.stream, Row(at, k), FrontOf(at, k), k)
<1> DEFINE S == {k \in 0..Depth(at) :
                    FrontOf(at, k) \in Nat /\ InARow(at.stream, Row(at, k), FrontOf(at, k), k)}
<1>1. Depth(at) \in Nat /\ IsStream(at.stream)
  BY DEF Path
<1>2. 0 \in S
  BY <1>1 DEF FrontOf, Row, IsStream
<1>3. ASSUME NEW k \in 1..Depth(at), k - 1 \in S
      PROVE  k \in S
  <2>1. IsOpen(at, k) /\ at.open[k] \in at.stream.nodes
    BY DEF Path
  <2>2. PICK v \in at.stream.nodes : v = at.open[k] /\ IsArray(at.stream, v)
    BY <2>1 DEF IsOpen
  <2>3. /\ v = Row(at, k - 1)[Passed(at, k - 1) + 1]
        /\ Passed(at, k - 1) \in 0..Len(Row(at, k - 1)) - 1
    BY <2>1, <2>2 DEF IsOpen, Node, HasNode
  <2>4. PICK r : r = Row(at, k - 1)
    OBVIOUS
  <2>5. /\ FrontOf(at, k - 1) \in Nat /\ InARow(at.stream, r, FrontOf(at, k - 1), k - 1)
    BY <1>3, <2>4
  <2>6. /\ Len(r) \in Nat
        /\ \A i \in 1..Len(r) : r[i].depth = k - 1
    BY <1>1, <2>5, RowOrder
  <2>7. v.depth = k - 1
    <3>1. PICK i \in 1..Len(r) : v = r[i]
      BY <2>3, <2>4, <2>6
    <3> QED
      BY <2>6, <3>1
  <2>8. v.line \in Nat /\ InARow(at.stream, v.items, v.line + 2, v.depth + 1)
    BY <1>1, <2>2, ArrayHeader DEF IsArray
  <2>9. FrontOf(at, k) = v.line + 2 /\ Row(at, k) = v.items /\ v.depth + 1 = k
    BY <2>2, <2>7 DEF FrontOf, Row
  <2> QED
    BY <2>8, <2>9
<1> HIDE DEF S
<1>4. \A k \in 0..Depth(at) : k \in S
  BY <1>1, <1>2, <1>3, Reached
<1> QED
  BY <1>4 DEF S

\* A level of a path: its row, and the node that is next in it.
LEMMA LevelOfPath ==
    ASSUME NEW at, Path(at), LimitAssumption, NEW k \in 0..Depth(at), HasNode(at, k)
    PROVE  /\ Node(at, k) \in at.stream.nodes /\ IsNode(at.stream, Node(at, k))
           /\ Shaped(at.stream, Node(at, k)) /\ Node(at, k).depth = k
           /\ Node(at, k).from = Begins(at, k)
           /\ Passed(at, k) + 1 \in 1..Len(Row(at, k)) /\ Len(Row(at, k)) \in Nat
           /\ Node(at, k).to <= Last(Row(at, k)).to
           /\ Node(at, k).value = NotResp => Passed(at, k) + 1 = Len(Row(at, k))
<1>1. PICK s, r, p, f : /\ s = at.stream /\ r = Row(at, k)
                        /\ p = Passed(at, k) /\ f = FrontOf(at, k)
  OBVIOUS
<1>2. IsStream(s) /\ f \in Nat /\ InARow(s, r, f, k)
  BY <1>1, RowsOfPath DEF Path
<1>3. /\ Len(r) \in Nat
      /\ \A i \in 1..Len(r) : r[i] \in s.nodes /\ Shaped(s, r[i]) /\ r[i].from >= f
                              /\ r[i].depth = k /\ (i < Len(r) => r[i].value # NotResp)
      /\ \A i, j \in 1..Len(r) : i < j => r[i].to <= r[j].from
  BY <1>2, RowOrder
<1>4. p \in 0..Len(r) - 1 /\ Node(at, k) = r[p + 1]
  BY <1>1 DEF HasNode, Node
<1>5. p + 1 \in 1..Len(r)
  BY <1>3, <1>4
<1>6. r[p + 1] \in s.nodes /\ IsNode(s, r[p + 1]) /\ Shaped(s, r[p + 1]) /\ r[p + 1].depth = k
  BY <1>2, <1>3, <1>5 DEF IsStream
<1>7. r[p + 1].from = Begins(at, k)
  <2>1. DOMAIN r = 1..Len(r)
    BY <1>2 DEF InARow
  <2>2. \A i \in 1..Len(r) : r[i].from = IF i = 1 THEN f ELSE r[i - 1].to
    BY <1>2, <2>1 DEF InARow
  <2>3. p + 1 - 1 = p /\ (p + 1 = 1 <=> p = 0)
    BY <1>3, <1>4
  <2>4. r[p + 1].from = IF p = 0 THEN f ELSE r[p].to
    <3>1. PICK i \in 1..Len(r) : i = p + 1 /\ i - 1 = p
      BY <1>3, <1>4, <1>5
    <3>2. r[i].from = IF i = 1 THEN f ELSE r[i - 1].to
      BY <2>2, Zenon
    <3> QED
      BY <2>3, <3>1, <3>2
  <2> QED
    BY <1>1, <2>4 DEF Begins
<1>8. r[p + 1].to <= Last(r).to
  <2>1. Last(r) = r[Len(r)] /\ Len(r) \in 1..Len(r)
    BY <1>3, <1>5 DEF Last
  <2>2. CASE p + 1 = Len(r)
    BY <1>6, <2>1, <2>2 DEF Shaped
  <2>3. CASE p + 1 < Len(r)
    <3>1. r[p + 1].to <= r[Len(r)].from
      BY <1>3, <1>5, <2>1, <2>3
    <3>2. r[Len(r)].from < r[Len(r)].to /\ r[Len(r)].from \in Nat /\ r[Len(r)].to \in Nat
      BY <1>3, <2>1 DEF Shaped
    <3>3. r[p + 1].to \in Nat
      BY <1>6 DEF Shaped
    <3> QED
      BY <2>1, <3>1, <3>2, <3>3
  <2> QED
    BY <1>5, <2>2, <2>3
<1>9. r[p + 1].value = NotResp => p + 1 = Len(r)
  BY <1>3, <1>5
<1> QED
  BY <1>1, <1>3, <1>4, <1>5, <1>6, <1>7, <1>8, <1>9

\* The frame that the next node is in does not end before it, and where the next node is
\* no RESP, there the stream is none.
LEMMA PathEnds ==
    ASSUME NEW at, Path(at), LimitAssumption, HasNode(at, Depth(at))
    PROVE  /\ HasNode(at, 0) /\ Node(at, Depth(at)).to <= Node(at, 0).to
           /\ Node(at, Depth(at)).value = NotResp =>
                 Broken(at.stream.frames) /\ Last(at.stream.frames) = Node(at, 0)
                 /\ at.done = Len(at.stream.frames) - 1
                 /\ Last(at.stream.frames).to = Node(at, Depth(at)).to
<1>1. PICK d \in Nat, v \in {Node(at, Depth(at))} : d = Depth(at) /\ v = Node(at, d)
  BY DEF Path
<1> DEFINE Around(k) == /\ HasNode(at, k) /\ v.to <= Node(at, k).to
                        /\ v.value = NotResp => Node(at, k).value = NotResp /\ Node(at, k).to = v.to
           S == {j \in 0..d : Around(d - j)}
<1>2. 0 \in S
  <2>1. v.to \in Nat
    BY <1>1, LevelOfPath DEF Shaped
  <2> QED
    BY <1>1, <2>1
<1>3. ASSUME NEW j \in 1..d, j - 1 \in S
      PROVE  j \in S
  <2>1. PICK k \in 1..d : k = d - (j - 1) /\ k - 1 = d - j
    BY <1>1
  <2>2. Around(k) /\ k \in 0..Depth(at) /\ k - 1 \in 0..Depth(at)
    BY <1>1, <1>3, <2>1
  <2>3. IsOpen(at, k)
    BY <1>1 DEF Path
  <2>4. HasNode(at, k - 1) /\ at.open[k] = Node(at, k - 1) /\ IsArray(at.stream, Node(at, k - 1))
    BY <2>3 DEF IsOpen
  <2>5. PICK w, u : w = Node(at, k) /\ u = Node(at, k - 1)
    OBVIOUS
  <2>6. Row(at, k) = u.items
    BY <2>1, <2>4, <2>5 DEF Row
  <2>7. /\ Shaped(at.stream, w) /\ w.to <= Last(u.items).to
        /\ Len(u.items) \in Nat /\ Passed(at, k) + 1 \in 1..Len(u.items)
        /\ u.items \in Seq(at.stream.nodes)
        /\ w = u.items[Passed(at, k) + 1]
        /\ w.value = NotResp => Passed(at, k) + 1 = Len(u.items)
    BY <2>2, <2>4, <2>5, <2>6, LevelOfPath DEF Node, IsArray, InARow
  <2>8. u.to = Last(u.items).to /\ (Broken(u.items) => u.value = NotResp)
    BY <2>4, <2>5 DEF IsArray
  <2>9. Shaped(at.stream, u)
    BY <2>2, <2>4, <2>5, LevelOfPath
  <2>10. v.to <= u.to
    <3>1. v.to <= w.to /\ w.to <= u.to
      BY <2>2, <2>5, <2>7, <2>8
    <3>2. v.to \in Nat /\ w.to \in Nat /\ u.to \in Nat
      <4>1. v.to \in Nat
        BY <1>1, LevelOfPath DEF Shaped
      <4> QED
        BY <2>7, <2>9, <4>1 DEF Shaped
    <3> QED
      BY <3>1, <3>2
  <2>11. ASSUME v.value = NotResp
         PROVE  u.value = NotResp /\ u.to = v.to
    <3>1. w.value = NotResp /\ w.to = v.to
      BY <2>2, <2>5, <2>11
    <3>2. w = u.items[Len(u.items)] /\ u.items # <<>>
      BY <2>7, <3>1
    <3>3. Last(u.items) = w
      BY <3>2 DEF Last
    <3> QED
      BY <2>8, <3>1, <3>2, <3>3 DEF Broken
  <2>12. Around(k - 1)
    BY <2>4, <2>5, <2>10, <2>11
  <2> QED
    BY <2>1, <2>12
<1>4. Around(0)
  <2>1. \A j \in 0..d : j \in S
    <3> HIDE DEF S
    <3> QED
      BY <1>1, <1>2, <1>3, Reached
  <2>2. d \in S /\ d - d = 0
    BY <1>1, <2>1
  <2> QED
    BY <2>2
<1>5. ASSUME v.value = NotResp
      PROVE  /\ Broken(at.stream.frames) /\ Last(at.stream.frames) = Node(at, 0)
             /\ at.done = Len(at.stream.frames) - 1
             /\ Last(at.stream.frames).to = v.to
  <2>1. Node(at, 0).value = NotResp /\ Node(at, 0).to = v.to /\ HasNode(at, 0) /\ 0 \in 0..Depth(at)
    BY <1>1, <1>4, <1>5
  <2>2. Passed(at, 0) = at.done /\ Row(at, 0) = at.stream.frames
    BY DEF Passed, Row
  <2>3. Passed(at, 0) + 1 = Len(Row(at, 0)) /\ Len(Row(at, 0)) \in Nat
    BY <2>1, LevelOfPath
  <2>4. at.done = Len(at.stream.frames) - 1 /\ at.done + 1 = Len(at.stream.frames)
    BY <2>1, <2>2, <2>3 DEF HasNode
  <2>5. Last(at.stream.frames) = Node(at, 0) /\ at.stream.frames # <<>>
    BY <2>1, <2>2, <2>4 DEF Last, Node, HasNode
  <2> QED
    BY <2>1, <2>4, <2>5 DEF Broken
<1> QED
  BY <1>1, <1>4, <1>5

\* The last element of a sequence is one of its elements.
LEMMA LastIn ==
    ASSUME NEW S, NEW q \in Seq(S), NEW d \in Nat, d = Len(q), d > 0
    PROVE  q[d] \in S
OBVIOUS

\* A sequence is the function of its elements.
LEMMA SeqIs ==
    ASSUME NEW S, NEW q \in Seq(S), NEW n \in Nat, n = Len(q)
    PROVE  q = [i \in 1..n |-> q[i]]
OBVIOUS

\* What Append adds, and leaves alone.
LEMMA AppendIs ==
    ASSUME NEW S, NEW q \in Seq(S), NEW x \in S, NEW p \in Nat, p = Len(q)
    PROVE  /\ Append(q, x) \in Seq(S) /\ Len(Append(q, x)) = p + 1
           /\ Append(q, x)[p + 1] = x /\ \A i \in 1..p : Append(q, x)[i] = q[i]
BY AppendProperties

\* What Front leaves.
LEMMA FrontIs ==
    ASSUME NEW S, NEW q \in Seq(S), NEW d \in Nat, d = Len(q), d > 0
    PROVE  /\ Front(q) \in Seq(S) /\ Len(Front(q)) = d - 1
           /\ \A k \in 1..d - 1 : Front(q)[k] = q[k]
BY DEF Front

\* What replacing the last element leaves.
LEMMA PutLast ==
    ASSUME NEW S, NEW q \in Seq(S), NEW d \in Nat, d = Len(q), d > 0, NEW e \in S
    PROVE  /\ [q EXCEPT ![d] = e] \in Seq(S) /\ Len([q EXCEPT ![d] = e]) = d
           /\ [q EXCEPT ![d] = e][d] = e
           /\ \A k \in 1..d - 1 : [q EXCEPT ![d] = e][k] = q[k]
OBVIOUS

\* What the parser knows of an array.
Entry(V) == [count : Int, items : Seq(V)]

\* Level k is the same in both.
Same(b, at, k) ==
    /\ b.stream = at.stream
    /\ IF k = 0 THEN b.done = at.done ELSE b.open[k] = at.open[k] /\ b.stack[k] = at.stack[k]

\* Levels that agree in what they rest on are the same.
LEMMA LevelsAgree ==
    ASSUME NEW at, NEW b, NEW k, Same(b, at, k)
    PROVE  /\ Passed(b, k) = Passed(at, k) /\ Row(b, k) = Row(at, k)
           /\ HasNode(b, k) = HasNode(at, k) /\ Node(b, k) = Node(at, k)
           /\ Begins(b, k) = Begins(at, k)
<1>1. Passed(b, k) = Passed(at, k) /\ Row(b, k) = Row(at, k) /\ FrontOf(b, k) = FrontOf(at, k)
  BY DEF Passed, Row, FrontOf, Same
<1> QED
  BY <1>1 DEF HasNode, Node, Begins

\* The open arrays below the last one stay open when what is on top changes.
LEMMA LowerOpen ==
    ASSUME NEW at, Path(at), NEW b, NEW n \in Nat, n <= Depth(at), \A k \in 0..n : Same(b, at, k)
    PROVE  \A k \in 1..n : IsOpen(b, k)
<1> TAKE k \in 1..n
<1>1. k \in 1..Depth(at) /\ k # 0 /\ k \in 0..n /\ k - 1 \in 0..n
  BY DEF Path
<1>2. IsOpen(at, k) /\ Same(b, at, k) /\ Same(b, at, k - 1)
  BY <1>1 DEF Path
<1>3. Passed(b, k) = Passed(at, k) /\ HasNode(b, k) = HasNode(at, k)
  BY <1>2, LevelsAgree
<1>4. HasNode(b, k - 1) = HasNode(at, k - 1) /\ Node(b, k - 1) = Node(at, k - 1)
  BY <1>2, LevelsAgree
<1>5. b.stream = at.stream /\ b.open[k] = at.open[k] /\ b.stack[k] = at.stack[k]
  BY <1>1, <1>2 DEF Same
<1> QED
  BY <1>2, <1>3, <1>4, <1>5 DEF IsOpen

\* Passing a frame.
LEMMA PassFrame ==
    ASSUME NEW at, Path(at), LimitAssumption, Depth(at) = 0,
           NEW value, NEW position, Behind(at, value, position),
           NEW b, b.stream = at.stream, b.stack = at.stack, b.open = at.open, b.done = at.done + 1
    PROVE  Path(b) /\ AtNext(b, position)
<1>1. HasNode(at, 0) /\ position = Node(at, 0).to
  BY DEF Behind
<1>2. at.done \in 0..Len(at.stream.frames) - 1
  BY <1>1 DEF HasNode, Passed, Row
<1>3. Len(at.stream.frames) \in Nat
  <2>1. Len(Row(at, 0)) \in Nat
    BY <1>1, LevelOfPath
  <2> QED
    BY <2>1 DEF Row
<1>4. at.done + 1 # 0 /\ at.done + 1 \in 0..Len(at.stream.frames)
  BY <1>2, <1>3
<1>5. Begins(b, 0) = Node(at, 0).to
  BY <1>4 DEF Begins, Passed, Row, Node
<1>6. Depth(b) = 0
  BY DEF Depth
<1>7. Path(b)
  BY <1>4, <1>6 DEF Path, Depth
<1> QED
  BY <1>1, <1>5, <1>6, <1>7 DEF AtNext

\* v is the innermost open array, and the parser is behind its item p + 1.
Inner(at, d, V, value, position, v, p) ==
    /\ v = at.open[d] /\ v = Node(at, d - 1) /\ HasNode(at, d - 1) /\ IsArray(at.stream, v)
    /\ p = Passed(at, d) /\ p + 1 \in 1..Len(v.items) /\ Len(v.items) \in Nat
    /\ Number(at.stream, v) \in Int /\ Len(v.items) <= Number(at.stream, v)
    /\ at.stack[d].count = Number(at.stream, v)
    /\ at.stack[d].items \in Seq(V) /\ Len(at.stack[d].items) = p
    /\ Append(at.stack[d].items, value) = [i \in 1..p + 1 |-> v.items[i].value]
    /\ Len(Append(at.stack[d].items, value)) = p + 1
    /\ position = v.items[p + 1].to
    /\ (Broken(v.items) => p + 1 < Len(v.items))

\* What was read of the innermost array, and the node behind which the parser is.
LEMMA InnerArray ==
    ASSUME NEW at, Path(at), LimitAssumption, NEW d \in Nat, d = Depth(at), d > 0,
           NEW V, at.stack \in Seq(Entry(V)),
           NEW value \in V, NEW position, Behind(at, value, position)
    PROVE  \E v \in at.stream.nodes : \E p \in Nat : Inner(at, d, V, value, position, v, p)
<1>1. IsOpen(at, d) /\ d \in 1..d /\ at.open[d] \in at.stream.nodes
  BY DEF Path
<1>2. PICK v \in at.stream.nodes : v = at.open[d]
  BY <1>1
<1>3. v = Node(at, d - 1) /\ HasNode(at, d - 1) /\ IsArray(at.stream, v) /\ HasNode(at, d)
  BY <1>1, <1>2 DEF IsOpen
<1>4. Number(at.stream, v) \in Int /\ Len(v.items) \in Nat /\ Len(v.items) <= Number(at.stream, v)
  BY <1>3, ArrayHeader DEF Path
<1>5. PICK q \in Seq(V) : q = at.stack[d].items
  <2>1. at.stack[d] \in Entry(V)
    BY LastIn DEF Depth
  <2> QED
    BY <2>1 DEF Entry
<1>6. PICK p \in Nat : p = Len(q) /\ p = Passed(at, d)
  BY <1>5 DEF Passed
<1>7. Row(at, d) = v.items /\ p \in 0..Len(v.items) - 1 /\ p + 1 \in 1..Len(v.items)
  BY <1>2, <1>3, <1>4, <1>6 DEF Row, HasNode
<1>8. at.stack[d] = [count |-> Number(at.stream, v), items |-> [i \in 1..p |-> v.items[i].value]]
  BY <1>1, <1>2, <1>6 DEF IsOpen
<1>9. q = [i \in 1..p |-> v.items[i].value] /\ at.stack[d].count = Number(at.stream, v)
  BY <1>5, <1>8
<1>10. Node(at, d) = v.items[p + 1]
  BY <1>6, <1>7 DEF Node
<1>11. value = v.items[p + 1].value /\ position = v.items[p + 1].to /\ value # NotResp
  BY <1>10 DEF Behind
<1>12. Append(q, value) \in Seq(V) /\ Len(Append(q, value)) = p + 1
  <2>1. Append(q, value) \in Seq(V) /\ Len(Append(q, value)) = Len(q) + 1
    BY AppendProperties
  <2> QED
    BY <1>6, <2>1
<1>13. Append(q, value) = [i \in 1..p + 1 |-> v.items[i].value]
  <2>1. PICK g \in Seq(V) : g = Append(q, value)
    BY <1>12
  <2>2. Len(g) = p + 1 /\ g[p + 1] = value /\ \A i \in 1..p : g[i] = q[i]
    <3>1. /\ \A i \in 1..Len(q) : Append(q, value)[i] = q[i]
          /\ Append(q, value)[Len(q) + 1] = value
      BY AppendProperties
    <3>2. Len(q) = p
      BY <1>6
    <3> QED
      BY <1>12, <2>1, <3>1, <3>2
  <2>3. ASSUME NEW i \in 1..p + 1
        PROVE  g[i] = v.items[i].value
    <3>1. CASE i <= p
      <4>1. i \in 1..p
        BY <1>6, <3>1
      <4>2. q[i] = v.items[i].value
        BY <1>9, <4>1
      <4> QED
        BY <2>2, <4>1, <4>2
    <3>2. CASE ~(i <= p)
      <4>1. i = p + 1
        BY <1>6, <3>2
      <4> QED
        BY <1>11, <2>2, <4>1
    <3> QED
      BY <3>1, <3>2
  <2>4. g = [i \in 1..p + 1 |-> g[i]]
    BY <2>2, SeqIs
  <2> QED
    BY <2>1, <2>3, <2>4
<1>14. Broken(v.items) => p + 1 < Len(v.items)
  <2>1. Broken(v.items) => v.items[Len(v.items)].value = NotResp
    BY DEF Broken, Last
  <2> QED
    BY <1>4, <1>7, <1>11, <2>1
<1> QED
  BY <1>2, <1>3, <1>4, <1>5, <1>6, <1>7, <1>9, <1>11, <1>13, <1>12, <1>14 DEF Inner

\* An item is put into the array at level d.
WithItems(q, d, items) == [q EXCEPT ![d].items = items]

\* Passing an item that is not the last of its array.
LEMMA PassItem ==
    ASSUME NEW at, Path(at), LimitAssumption, NEW d \in Nat, d = Depth(at), d > 0,
           NEW V, at.stack \in Seq(Entry(V)),
           NEW value \in V, NEW position, Behind(at, value, position),
           Len(Append(at.stack[d].items, value)) # at.stack[d].count,
           NEW b, b.stream = at.stream, b.done = at.done, b.open = at.open,
           b.stack = WithItems(at.stack, d, Append(at.stack[d].items, value))
    PROVE  /\ Path(b) /\ AtNext(b, position)
           /\ Len(Append(at.stack[d].items, value)) < at.stack[d].count
           /\ b.stack \in Seq(Entry(V))
<1>1. PICK v \in at.stream.nodes, p \in Nat : Inner(at, d, V, value, position, v, p)
  BY InnerArray
<1>2. /\ v = at.open[d] /\ v = Node(at, d - 1) /\ HasNode(at, d - 1) /\ IsArray(at.stream, v)
      /\ p = Passed(at, d) /\ p + 1 \in 1..Len(v.items) /\ Len(v.items) \in Nat
      /\ Number(at.stream, v) \in Int /\ Len(v.items) <= Number(at.stream, v)
      /\ at.stack[d].count = Number(at.stream, v)
      /\ at.stack[d].items \in Seq(V) /\ Len(at.stack[d].items) = p
      /\ Append(at.stack[d].items, value) = [i \in 1..p + 1 |-> v.items[i].value]
      /\ Len(Append(at.stack[d].items, value)) = p + 1
      /\ position = v.items[p + 1].to
      /\ (Broken(v.items) => p + 1 < Len(v.items))
  BY <1>1 DEF Inner
<1>3. PICK more \in Seq(V) : more = Append(at.stack[d].items, value)
  BY <1>2, AppendIs
<1>4. at.stack[d] \in Entry(V)
  BY LastIn DEF Depth
<1>5. PICK e \in Entry(V) : e = [at.stack[d] EXCEPT !.items = more]
                              /\ e = [count |-> Number(at.stream, v), items |-> more]
  <2>1. at.stack[d] = [count |-> at.stack[d].count, items |-> at.stack[d].items]
    <3>1. PICK c \in Int, q \in Seq(V) : at.stack[d] = [count |-> c, items |-> q]
      BY <1>4 DEF Entry
    <3> QED
      BY <3>1
  <2>2. PICK c, q : at.stack[d] = [count |-> c, items |-> q] /\ c = Number(at.stream, v)
    BY <1>2, <2>1
  <2>3. [at.stack[d] EXCEPT !.items = more] = [count |-> Number(at.stream, v), items |-> more]
    BY <2>2
  <2> QED
    BY <1>2, <2>3 DEF Entry
<1>6. b.stack = [at.stack EXCEPT ![d] = e]
  BY <1>3, <1>5 DEF WithItems
<1>7. /\ b.stack \in Seq(Entry(V)) /\ Len(b.stack) = d
      /\ b.stack[d] = [count |-> Number(at.stream, v), items |-> more]
      /\ \A k \in 1..d - 1 : b.stack[k] = at.stack[k]
  <2>1. /\ [at.stack EXCEPT ![d] = e] \in Seq(Entry(V)) /\ Len([at.stack EXCEPT ![d] = e]) = d
        /\ [at.stack EXCEPT ![d] = e][d] = e
        /\ \A k \in 1..d - 1 : [at.stack EXCEPT ![d] = e][k] = at.stack[k]
    BY PutLast DEF Depth
  <2> QED
    BY <1>5, <1>6, <2>1
<1>8. p + 1 < Len(v.items)
  <2>1. CASE Broken(v.items)
    BY <1>2, <2>1
  <2>2. CASE ~Broken(v.items)
    <3>1. Len(v.items) = Number(at.stream, v)
      BY <1>2, <2>2 DEF IsArray
    <3> QED
      BY <1>2, <3>1
  <2> QED
    BY <2>1, <2>2
<1>9. Passed(b, d) = p + 1 /\ Row(b, d) = v.items
  <2>1. b.stack[d].items = more
    BY <1>7
  <2>2. Len(more) = p + 1
    BY <1>2, <1>3
  <2>3. Len(b.stack[d].items) = p + 1 /\ b.open[d] = v
    BY <1>2, <2>1, <2>2
  <2> QED
    BY <2>3 DEF Passed, Row
<1>10. HasNode(b, d)
  BY <1>2, <1>8, <1>9 DEF HasNode
<1>11. \A k \in 1..d - 1 : IsOpen(b, k)
  <2>1. d - 1 \in Nat /\ d - 1 <= Depth(at)
    OBVIOUS
  <2>2. \A k \in 0..d - 1 : Same(b, at, k)
    BY <1>7 DEF Same
  <2> QED
    BY <2>1, <2>2, LowerOpen
<1>12. HasNode(b, d - 1) /\ Node(b, d - 1) = v
  <2>1. Same(b, at, d - 1)
    BY <1>7 DEF Same
  <2>2. HasNode(b, d - 1) = HasNode(at, d - 1) /\ Node(b, d - 1) = Node(at, d - 1)
    BY <2>1, LevelsAgree
  <2> QED
    BY <1>2, <2>2
<1>13. IsOpen(b, d)
  BY <1>2, <1>3, <1>7, <1>9, <1>10, <1>12 DEF IsOpen
<1>14. Depth(b) = d
  BY <1>7 DEF Depth
<1>15. \A k \in 1..d : IsOpen(b, k)
  BY <1>11, <1>13
<1>16. Path(b)
  BY <1>14, <1>15 DEF Path
<1>17. AtNext(b, position)
  BY <1>2, <1>9, <1>14 DEF AtNext, Begins
<1> QED
  BY <1>2, <1>7, <1>8, <1>16, <1>17

\* Passing the last item of an array: the array is behind the parser.
LEMMA PassArray ==
    ASSUME NEW at, Path(at), LimitAssumption, NEW d \in Nat, d = Depth(at), d > 0,
           NEW V, at.stack \in Seq(Entry(V)),
           NEW value \in V, NEW position, Behind(at, value, position),
           Len(Append(at.stack[d].items, value)) = at.stack[d].count,
           NEW b, b.stream = at.stream, b.done = at.done,
           b.open = [k \in 1..d - 1 |-> at.open[k]], b.stack = Front(at.stack)
    PROVE  /\ Path(b) /\ Behind(b, [array |-> Append(at.stack[d].items, value)], position)
           /\ b.stack \in Seq(Entry(V))
           /\ Node(b, Depth(b)) \in at.stream.nodes
<1>1. PICK v \in at.stream.nodes, p \in Nat : Inner(at, d, V, value, position, v, p)
  BY InnerArray
<1>2. /\ v = at.open[d] /\ v = Node(at, d - 1) /\ HasNode(at, d - 1) /\ IsArray(at.stream, v)
      /\ p = Passed(at, d) /\ p + 1 \in 1..Len(v.items) /\ Len(v.items) \in Nat
      /\ Number(at.stream, v) \in Int /\ Len(v.items) <= Number(at.stream, v)
      /\ at.stack[d].count = Number(at.stream, v)
      /\ at.stack[d].items \in Seq(V) /\ Len(at.stack[d].items) = p
      /\ Append(at.stack[d].items, value) = [i \in 1..p + 1 |-> v.items[i].value]
      /\ Len(Append(at.stack[d].items, value)) = p + 1
      /\ position = v.items[p + 1].to
      /\ (Broken(v.items) => p + 1 < Len(v.items))
  BY <1>1 DEF Inner
<1>3. p + 1 = Len(v.items) /\ ~Broken(v.items) /\ v.items \in Seq(at.stream.nodes)
  BY <1>2 DEF IsArray, InARow
<1>4. v.to = position
  BY <1>2, <1>3 DEF IsArray, Last
<1>5. v.value = [array |-> Append(at.stack[d].items, value)]
  <2>1. DOMAIN v.items = 1..p + 1
    BY <1>3
  <2>2. v.value = [array |-> [i \in DOMAIN v.items |-> v.items[i].value]]
    BY <1>2, <1>3 DEF IsArray
  <2> QED
    BY <1>2, <2>1, <2>2
<1>6. v.value # NotResp
  <2>1. DOMAIN v.value = {"array"}
    BY <1>5
  <2>2. DOMAIN NotResp = {"notResp"}
    BY DEF NotResp
  <2> QED
    BY <2>1, <2>2
<1>7. /\ b.stack \in Seq(Entry(V)) /\ Len(b.stack) = d - 1
      /\ \A k \in 1..d - 1 : b.stack[k] = at.stack[k]
  BY FrontIs DEF Depth
<1>8. d - 1 \in Nat /\ d - 1 <= Depth(at) /\ Depth(b) = d - 1
  BY <1>7 DEF Depth
<1>9. \A k \in 0..d - 1 : Same(b, at, k)
  BY <1>7 DEF Same
<1>10. \A k \in 1..d - 1 : IsOpen(b, k)
  BY <1>8, <1>9, LowerOpen
<1>11. b.open \in [1..d - 1 -> at.stream.nodes]
  BY DEF Path
<1>12. Path(b)
  BY <1>8, <1>10, <1>11 DEF Path
<1>13. HasNode(b, d - 1) /\ Node(b, d - 1) = v
  <2>1. Same(b, at, d - 1)
    BY <1>8, <1>9
  <2>2. HasNode(b, d - 1) = HasNode(at, d - 1) /\ Node(b, d - 1) = Node(at, d - 1)
    BY <2>1, LevelsAgree
  <2> QED
    BY <1>2, <2>2
<1> QED
  BY <1>4, <1>5, <1>6, <1>7, <1>8, <1>12, <1>13 DEF Behind

\* Entering an array.
LEMMA EnterArray ==
    ASSUME NEW at, Path(at), LimitAssumption, NEW d \in Nat, d = Depth(at),
           NEW V, at.stack \in Seq(Entry(V)),
           NEW v \in at.stream.nodes, HasNode(at, d), v = Node(at, d), IsArray(at.stream, v),
           NEW b, b.stream = at.stream, b.done = at.done,
           b.open = [k \in 1..d + 1 |-> IF k = d + 1 THEN v ELSE at.open[k]],
           b.stack = Append(at.stack, [count |-> Number(at.stream, v), items |-> <<>>])
    PROVE  /\ Path(b) /\ AtNext(b, v.line + 2)
           /\ b.stack \in Seq(Entry(V))
<1>1. Number(at.stream, v) \in Int /\ Len(v.items) \in Nat
  BY ArrayHeader DEF Path
<1>2. PICK e \in Entry(V) : e = [count |-> Number(at.stream, v), items |-> <<>>]
  <2>1. <<>> \in Seq(V)
    OBVIOUS
  <2> QED
    BY <1>1, <2>1 DEF Entry
<1>3. /\ b.stack \in Seq(Entry(V)) /\ Len(b.stack) = d + 1
      /\ b.stack[d + 1] = e /\ \A k \in 1..d : b.stack[k] = at.stack[k]
  BY <1>2, AppendIs DEF Depth
<1>4. \A k \in 0..d : Same(b, at, k)
  BY <1>3 DEF Same
<1>5. \A k \in 1..d : IsOpen(b, k)
  BY <1>4, LowerOpen
<1>6. b.open[d + 1] = v /\ d + 1 # 0 /\ d + 1 - 1 = d
  OBVIOUS
<1>7. Passed(b, d + 1) = 0 /\ Row(b, d + 1) = v.items /\ FrontOf(b, d + 1) = v.line + 2
  BY <1>2, <1>3, <1>6 DEF Passed, Row, FrontOf
<1>8. HasNode(b, d + 1)
  <2>1. Len(v.items) >= 1
    BY <1>1 DEF IsArray
  <2> QED
    BY <1>1, <1>7, <2>1 DEF HasNode
<1>9. HasNode(b, d) /\ Node(b, d) = v
  <2>1. Same(b, at, d)
    BY <1>4
  <2>2. HasNode(b, d) = HasNode(at, d) /\ Node(b, d) = Node(at, d)
    BY <2>1, LevelsAgree
  <2> QED
    BY <2>2
<1>10. IsOpen(b, d + 1)
  <2>1. [i \in 1..0 |-> v.items[i].value] = <<>>
    OBVIOUS
  <2>2. b.stack[d + 1] = [count |-> Number(b.stream, v),
                          items |-> [i \in 1..0 |-> v.items[i].value]]
    BY <1>2, <1>3, <2>1
  <2>3. PICK m : m = d + 1 /\ m - 1 = d
    OBVIOUS
  <2>4. HasNode(b, m - 1) /\ b.open[m] = Node(b, m - 1) /\ IsArray(b.stream, b.open[m])
    BY <1>6, <1>9, <2>3
  <2>5. HasNode(b, m) /\ Passed(b, m) = 0
    BY <1>7, <1>8, <2>3
  <2>6. b.stack[m] = [count |-> Number(b.stream, b.open[m]),
                      items |-> [i \in 1..0 |-> b.open[m].items[i].value]]
    BY <1>6, <2>2, <2>3
  <2>7. IsOpen(b, m)
    BY <2>4, <2>5, <2>6 DEF IsOpen
  <2> QED
    BY <2>3, <2>7
<1>11. Depth(b) = d + 1 /\ \A k \in 1..d + 1 : IsOpen(b, k)
  BY <1>3, <1>5, <1>10 DEF Depth
<1>12. b.open \in [1..d + 1 -> at.stream.nodes]
  BY DEF Path
<1>13. Path(b)
  BY <1>11, <1>12 DEF Path
<1> QED
  BY <1>3, <1>7, <1>11, <1>13 DEF AtNext, Begins

-----------------------------------------------------------------------------
(***************************************************************************)
(* The bytes in front of the parser.                                       *)
(***************************************************************************)
position == fed - readable

\* What the parser is at, when nothing was thrown.
LEMMA InStream ==
    ASSUME ParserInv, error = "none"
    PROVE  /\ stream \in Streams /\ IsStream(stream) /\ stream.bytes \in Seq(Byte)
           /\ Len(stream.bytes) \in Nat /\ fed \in Nat /\ fed <= Len(stream.bytes)
           /\ readable \in Nat /\ position \in Nat /\ fed = position + readable
<1>1. stream \in Streams /\ IsStream(stream)
  BY StreamAssumption DEF ParserInv
<1>2. stream.bytes \in Seq(Byte) /\ Len(stream.bytes) \in Nat
  BY <1>1 DEF IsStream
<1>3. readable \in Nat /\ readable <= fed
  BY UnreadLength DEF ParserInv, Holds, readable
<1> QED
  BY <1>1, <1>2, <1>3 DEF ParserInv, position

\* A part of a sequence, by element.
LEMMA PartIs ==
    ASSUME NEW S, NEW q \in Seq(S), NEW x \in Nat, NEW k \in Nat, x + k <= Len(q)
    PROVE  SubSeq(q, x + 1, x + k) = [i \in 1..k |-> q[x + i]]
<1>1. Len(q) \in Nat /\ DOMAIN q = 1..Len(q)
  OBVIOUS
<1>2. PICK p : p = SubSeq(q, x + 1, x + k)
  OBVIOUS
<1>3. p \in Seq(S) /\ Len(p) = k /\ \A i \in 1..k : p[i] = q[x + i]
  <2>1. PICK a \in Int, b \in Int : a = x + 1 /\ b = x + k /\ b - a + 1 = k
    OBVIOUS
  <2>2. \A i \in a..b : q[i] \in S
    BY <1>1, <2>1
  <2>3. /\ SubSeq(q, a, b) \in Seq(S)
        /\ Len(SubSeq(q, a, b)) = IF a <= b THEN b - a + 1 ELSE 0
        /\ \A i \in 1..b - a + 1 : SubSeq(q, a, b)[i] = q[a + i - 1]
    BY <2>2, SubSeqProperties
  <2>4. Len(p) = k
    BY <1>2, <2>1, <2>3
  <2>5. \A i \in 1..k : a + i - 1 = x + i
    BY <2>1
  <2> QED
    BY <1>2, <2>1, <2>3, <2>4, <2>5
<1>4. p = [i \in 1..k |-> p[i]]
  BY <1>3, SeqIs
<1> QED
  BY <1>2, <1>3, <1>4

\* Looking at the bytes of a buffer is looking at the stream.
LEMMA LooksAhead ==
    ASSUME NEW bytes \in Seq(Byte), NEW b, NEW n \in 0..Len(bytes), Holds(b, bytes, n)
    PROVE  /\ \A i \in 0..readableBytes(b) - 1 :
                 peekByteAt(b, i) = bytes[n - readableBytes(b) + i + 1]
           /\ \A k \in 0..readableBytes(b) :
                 readBytes(b, k) = SubSeq(bytes, n - readableBytes(b) + 1, n - readableBytes(b) + k)
<1>1. PICK r \in Nat, len \in Nat : r = readableBytes(b) /\ len = Len(bytes) /\ r <= n /\ n <= len
  BY UnreadLength DEF Holds
<1>2. b.readOffset \in Nat
  BY DEF Holds, IsBuffer
<1>3. ASSUME NEW j \in 1..r
      PROVE  b.cells[b.readOffset + j - 1] = bytes[n - r + j]
  <2>1. Unread(b)[j] = bytes[n - r + j]
    BY <1>1 DEF Holds
  <2>2. Unread(b)[j] = b.cells[b.readOffset + j - 1]
    BY <1>1 DEF Unread
  <2> QED
    BY <2>1, <2>2
<1>4. ASSUME NEW i \in 0..r - 1
      PROVE  peekByteAt(b, i) = bytes[n - r + i + 1]
  <2>1. PICK j \in 1..r : /\ j = i + 1 /\ b.readOffset + j - 1 = b.readOffset + i
                          /\ n - r + j = n - r + i + 1
    BY <1>1, <1>2
  <2>2. b.cells[b.readOffset + i] = bytes[n - r + i + 1]
    BY <1>3, <2>1
  <2>3. i < readableBytes(b)
    BY <1>1
  <2> QED
    BY <2>2, <2>3 DEF peekByteAt
<1>5. ASSUME NEW k \in 0..r
      PROVE  readBytes(b, k) = SubSeq(bytes, n - r + 1, n - r + k)
  <2>1. SubSeq(bytes, n - r + 1, n - r + k) = [i \in 1..k |-> bytes[n - r + i]]
    <3>1. PICK x \in Nat : x = n - r /\ x + k <= len
      BY <1>1
    <3>2. SubSeq(bytes, x + 1, x + k) = [i \in 1..k |-> bytes[x + i]]
      <4>1. x + k <= Len(bytes) /\ k \in Nat
        BY <1>1, <3>1
      <4> QED
        BY <4>1, PartIs
    <3> QED
      BY <3>1, <3>2
  <2>2. \A i \in 1..k : b.cells[b.readOffset + i - 1] = bytes[n - r + i]
    BY <1>1, <1>3
  <2>3. readBytes(b, k) = [i \in 1..k |-> b.cells[b.readOffset + i - 1]]
    BY DEF readBytes
  <2> QED
    BY <2>1, <2>2, <2>3
<1> QED
  BY <1>1, <1>4, <1>5

\* The ends of lines that findCrlf looks for, and the line in front of one.
LEMMA LineEnds ==
    ASSUME ParserInv, error = "none"
    PROVE  /\ \A i : i \in CrlfOffsets <=>
                 /\ i \in Nat /\ i + 2 <= readable /\ i + 2 <= maxInlineLength
                 /\ EndsLine(stream, position + i + 1)
           /\ \A k \in 0..readable :
                 readBytes(buffer, k) = SubSeq(stream.bytes, position + 1, position + k)
<1>1. PICK bytes \in Seq(Byte), n \in 0..Len(stream.bytes) :
         bytes = stream.bytes /\ n = fed /\ Holds(buffer, bytes, n)
  <2>1. stream.bytes \in Seq(Byte) /\ fed \in 0..Len(stream.bytes)
    BY InStream
  <2>2. Holds(buffer, stream.bytes, fed)
    BY DEF ParserInv
  <2> QED
    BY <2>1, <2>2
<1>2. /\ \A i \in 0..readable - 1 : peekByteAt(buffer, i) = bytes[n - readable + i + 1]
      /\ \A k \in 0..readable :
            readBytes(buffer, k) = SubSeq(bytes, n - readable + 1, n - readable + k)
  BY <1>1, LooksAhead DEF readable
<1>3. readable \in Nat /\ maxInlineLength \in Nat /\ position \in Nat /\ n - readable = position
  BY <1>1, InStream, LimitAssumption DEF position
<1>4. \A k \in 0..readable :
         readBytes(buffer, k) = SubSeq(stream.bytes, position + 1, position + k)
  BY <1>1, <1>2, <1>3
<1>5. ASSUME NEW i \in Nat, i + 2 <= readable
      PROVE  (peekByteAt(buffer, i) = CR /\ peekByteAt(buffer, i + 1) = LF)
             <=> EndsLine(stream, position + i + 1)
  <2>1. i \in 0..readable - 1 /\ i + 1 \in 0..readable - 1
    BY <1>3, <1>5
  <2>2. peekByteAt(buffer, i) = bytes[position + i + 1]
    BY <1>2, <1>3, <2>1
  <2>3. peekByteAt(buffer, i + 1) = bytes[position + (i + 1) + 1]
    BY <1>2, <1>3, <2>1
  <2>4. position + (i + 1) + 1 = position + i + 1 + 1
    BY <1>3
  <2> QED
    BY <1>1, <2>2, <2>3, <2>4 DEF EndsLine
<1>6. \A i : i \in 0..Smaller(readable, maxInlineLength) - 2
             <=> i \in Nat /\ i + 2 <= readable /\ i + 2 <= maxInlineLength
  BY <1>3 DEF Smaller
<1>7. \A i : i \in CrlfOffsets <=>
                 /\ i \in Nat /\ i + 2 <= readable /\ i + 2 <= maxInlineLength
                 /\ EndsLine(stream, position + i + 1)
  BY <1>5, <1>6 DEF CrlfOffsets
<1> QED
  BY <1>4, <1>7

\* A node in front of the parser that has a header: when findCrlf finds a line, it is
\* this one, and when it finds none, the header has not arrived.
LEMMA FindsHeader ==
    ASSUME ParserInv, error = "none",
           NEW v \in stream.nodes, v.from = position, HasHeader(stream, v)
    PROVE  /\ CrlfOffsets # {} =>
                 /\ findCrlf \in Nat /\ findCrlf + 2 \in 0..readable
                 /\ position + findCrlf = v.line /\ Line = Text(stream, v)
           /\ CrlfOffsets = {} => readable <= maxInlineLength /\ fed < v.line + 2
<1>1. PICK p \in Nat, r \in Nat, max \in Nat :
         p = position /\ r = readable /\ max = maxInlineLength /\ fed = p + r
  BY InStream, LimitAssumption
<1>2. \A i : i \in CrlfOffsets <=>
             i \in Nat /\ i + 2 <= r /\ i + 2 <= max /\ EndsLine(stream, p + i + 1)
  BY <1>1, LineEnds
<1>3. PICK k \in Nat : k = v.line - p /\ v.line = p + k /\ k + 2 <= max
  BY <1>1, LimitAssumption DEF HasHeader
<1>4. EndsLine(stream, p + k + 1) /\ \A i \in Nat : i < k => ~EndsLine(stream, p + i + 1)
  <2>1. EndsLine(stream, v.line + 1) /\ (\A i \in p + 1..v.line : ~EndsLine(stream, i))
    BY <1>1 DEF HasHeader
  <2>2. ASSUME NEW i \in Nat, i < k
        PROVE  ~EndsLine(stream, p + i + 1)
    <3>1. p + i + 1 \in p + 1..v.line
      BY <1>3, <2>2
    <3> QED
      BY <2>1, <3>1
  <2> QED
    BY <1>3, <2>1, <2>2
<1>5. ASSUME CrlfOffsets # {}
      PROVE  findCrlf \in Nat /\ findCrlf = k /\ k + 2 <= r
  <2>1. CrlfOffsets \in SUBSET Nat
    BY <1>2
  <2>2. PICK least \in CrlfOffsets : \A j \in CrlfOffsets : least <= j
    BY <1>5, <2>1, Least
  <2>3. findCrlf \in CrlfOffsets /\ \A j \in CrlfOffsets : findCrlf <= j
    BY <2>2 DEF findCrlf
  <2>4. PICK f \in Nat : f = findCrlf /\ f + 2 <= r /\ EndsLine(stream, p + f + 1)
    BY <1>2, <2>3
  <2>5. k <= f
    BY <1>4, <2>4
  <2>6. k \in CrlfOffsets
    BY <1>2, <1>3, <1>4, <2>4, <2>5
  <2>7. f <= k
    BY <2>3, <2>4, <2>6
  <2> QED
    BY <2>4, <2>5, <2>7
<1>6. ASSUME CrlfOffsets # {}
      PROVE  Line = Text(stream, v)
  <2>1. k \in 0..readable /\ findCrlf = k
    BY <1>1, <1>5, <1>6
  <2>2. readBytes(buffer, k) = SubSeq(stream.bytes, p + 1, p + k)
    BY <1>1, <2>1, LineEnds
  <2> QED
    BY <1>1, <1>3, <2>1, <2>2 DEF Line, Text
<1>7. ASSUME CrlfOffsets = {}
      PROVE  r <= max /\ fed < v.line + 2
  <2>1. ~(k + 2 <= r)
    BY <1>2, <1>3, <1>4, <1>7
  <2> QED
    BY <1>1, <1>3, <2>1
<1> QED
  BY <1>1, <1>3, <1>5, <1>6, <1>7

\* One that has none is a line that is too long, and findCrlf finds nothing.
LEMMA FindsNone ==
    ASSUME ParserInv, error = "none",
           NEW v \in stream.nodes, v.from = position, IsLongLine(stream, v)
    PROVE  CrlfOffsets = {} /\ v.to = fed - readable + maxInlineLength + 1
<1>1. PICK p \in Nat, r \in Nat, max \in Nat :
         p = position /\ r = readable /\ max = maxInlineLength /\ fed = p + r
  BY InStream, LimitAssumption
<1>2. \A i : i \in CrlfOffsets <=>
             i \in Nat /\ i + 2 <= r /\ i + 2 <= max /\ EndsLine(stream, p + i + 1)
  BY <1>1, LineEnds
<1>3. v.to = p + max + 1 /\ \A i \in p + 1..p + max - 1 : ~EndsLine(stream, i)
  BY <1>1 DEF IsLongLine
<1>4. ASSUME NEW i \in CrlfOffsets
      PROVE  FALSE
  <2>1. p + i + 1 \in p + 1..p + max - 1 /\ EndsLine(stream, p + i + 1)
    BY <1>2
  <2> QED
    BY <1>3, <2>1
<1> QED
  BY <1>1, <1>3, <1>4 DEF position

-----------------------------------------------------------------------------
(***************************************************************************)
(* Which node a header belongs to.                                         *)
(***************************************************************************)
\* What a header says of its node.
LEMMA NodeOfHeader ==
    ASSUME NEW s, IsStream(s), LimitAssumption, NEW v \in s.nodes, HasHeader(s, v),
           NEW text, text = Text(s, v)
    PROVE  /\ IsLine(s, v) \/ IsBulk(s, v) \/ IsArray(s, v) \/ IsBadLine(s, v)
           /\ \A type : Starts(s, v, type) <=> text # <<>> /\ text[1] = type
           /\ text # <<>> => Argument(s, v) = Tail(text)
           /\ \A type : Starts(s, v, type) /\ Counts(s, v) => Number(s, v) \in Int
<1>1. s.bytes \in Seq(Byte) /\ v.from \in Nat /\ IsNode(s, v)
  BY DEF IsStream, IsNode
<1>2. ~IsLongLine(s, v)
  <2>1. v.line + 1 \in v.from + 1..v.from + maxInlineLength - 1 /\ EndsLine(s, v.line + 1)
    BY <1>1 DEF HasHeader, LimitAssumption
  <2> QED
    BY <2>1 DEF IsLongLine
<1>3. \A type : Starts(s, v, type) /\ Counts(s, v) => Number(s, v) \in Int
  BY <1>1, NumbersAreInt
<1>4. \A type : Starts(s, v, type) <=> text # <<>> /\ text[1] = type
  BY DEF Starts
<1>5. Argument(s, v) = Tail(text)
  BY DEF Argument
<1> QED
  BY <1>1, <1>2, <1>3, <1>4, <1>5 DEF IsNode

\* A line that is a value.
LEMMA GoodLine ==
    ASSUME NEW s, IsStream(s), LimitAssumption, NEW v \in s.nodes,
           NEW type, Starts(s, v, type),
           \/ type \in {"+", "-"}
           \/ type = ":" /\ Counts(s, v)
           \/ type = "$" /\ Counts(s, v) /\ Number(s, v) = -1
           \/ type = "*" /\ Counts(s, v) /\ Number(s, v) \in {-1, 0}
    PROVE  /\ v.to = v.line + 2
           /\ v.value = CASE type = "+" -> [simple |-> Argument(s, v)]
                          [] type = "-" -> [failure |-> Argument(s, v)]
                          [] type = ":" -> [integer |-> Number(s, v)]
                          [] type = "$" -> NullBulk
                          [] type = "*" -> IF Number(s, v) = 0 THEN [array |-> <<>>] ELSE NullArray
<1>1. HasHeader(s, v)
  BY DEF Starts
<1>2. \A other : Starts(s, v, other) <=> other = type
  BY NodeOfHeader, <1>1 DEF Starts
<1>3. ~IsBulk(s, v)
  BY <1>2, LimitAssumption DEF IsBulk
<1>4. ~IsArray(s, v)
  <2>1. CASE type = "*"
    <3>1. Number(s, v) \in {-1, 0}
      BY <2>1
    <3> QED
      BY <3>1 DEF IsArray
  <2>2. CASE type # "*"
    BY <1>2, <2>2 DEF IsArray
  <2> QED
    BY <2>1, <2>2
<1>5. ~IsBadLine(s, v)
  <2>1. type \in {"+", "-", ":", "$", "*"}
    OBVIOUS
  <2>2. ~ \A other \in {"+", "-", ":", "$", "*"} : ~Starts(s, v, other)
    BY <2>1
  <2>3. ~ \E other \in {":", "$", "*"} : Starts(s, v, other) /\ ~Counts(s, v)
    BY <1>2
  <2>4. \A other \in {"$", "*"} : Starts(s, v, other) => Number(s, v) \in {-1, 0}
    BY <1>2
  <2> QED
    BY <2>2, <2>3, <2>4, LimitAssumption DEF IsBadLine
<1>6. IsLine(s, v)
  BY <1>1, <1>3, <1>4, <1>5, NodeOfHeader
<1>7. v.to = v.line + 2
  BY <1>6 DEF IsLine
<1>8. v.value = CASE type = "+" -> [simple |-> Argument(s, v)]
                          [] type = "-" -> [failure |-> Argument(s, v)]
                          [] type = ":" -> [integer |-> Number(s, v)]
                          [] type = "$" -> NullBulk
                          [] type = "*" -> IF Number(s, v) = 0 THEN [array |-> <<>>] ELSE NullArray
  <2>1. CASE type = "+"
    BY <1>2, <1>6, <2>1 DEF IsLine
  <2>2. CASE type = "-"
    BY <1>2, <1>6, <2>2 DEF IsLine
  <2>3. CASE type = ":"
    BY <1>2, <1>6, <2>3 DEF IsLine
  <2>4. CASE type = "$"
    BY <1>2, <1>6, <2>4 DEF IsLine
  <2>5. CASE type = "*"
    BY <1>2, <1>6, <2>5 DEF IsLine
  <2> QED
    BY <2>1, <2>2, <2>3, <2>4, <2>5
<1> QED
  BY <1>7, <1>8

\* A line in front of a payload, or of items.
LEMMA OpeningLine ==
    ASSUME NEW s, IsStream(s), LimitAssumption, NEW v \in s.nodes,
           NEW type, Starts(s, v, type), Counts(s, v), v.depth \in Nat,
           \/ type = "$" /\ Number(s, v) \in 0..maxBulkLength
           \/ type = "*" /\ Number(s, v) > 0 /\ v.depth < maxArrayDepth
    PROVE  IF type = "$" THEN IsBulk(s, v) ELSE IsArray(s, v)
<1>1. HasHeader(s, v)
  BY DEF Starts
<1>2. /\ \A other : Starts(s, v, other) <=> other = type
      /\ Number(s, v) \in Int
  BY NodeOfHeader, <1>1 DEF Starts
<1>3. ~IsLine(s, v)
  BY <1>2, LimitAssumption DEF IsLine
<1>4. ~IsBadLine(s, v)
  <2>1. ~ \A other \in {"+", "-", ":", "$", "*"} : ~Starts(s, v, other)
    BY <1>2
  <2> QED
    BY <1>2, <2>1, LimitAssumption DEF IsBadLine
<1>5. IsLine(s, v) \/ IsBulk(s, v) \/ IsArray(s, v) \/ IsBadLine(s, v)
  BY <1>1, NodeOfHeader
<1>6. type = "$" => ~IsArray(s, v)
  BY <1>2 DEF IsArray
<1>7. type = "*" => ~IsBulk(s, v)
  BY <1>2 DEF IsBulk
<1> QED
  BY <1>3, <1>4, <1>5, <1>6, <1>7

\* A line that is no RESP.
LEMMA BadLine ==
    ASSUME NEW s, IsStream(s), LimitAssumption, NEW v \in s.nodes, HasHeader(s, v),
           \/ Text(s, v) = <<>>
           \/ \E type : /\ Starts(s, v, type)
                        /\ \/ type \notin {"+", "-", ":", "$", "*"}
                           \/ type \in {":", "$", "*"} /\ ~Counts(s, v)
                           \/ type \in {"$", "*"} /\ Counts(s, v) /\ Number(s, v) < -1
                           \/ type = "$" /\ Counts(s, v) /\ Number(s, v) > maxBulkLength
                           \/ type = "*" /\ Counts(s, v) /\ Number(s, v) > 0
                              /\ ~(v.depth < maxArrayDepth)
    PROVE  v.value = NotResp /\ v.to = v.line + 2
<1>1. IsLine(s, v) \/ IsBulk(s, v) \/ IsArray(s, v) \/ IsBadLine(s, v)
  BY NodeOfHeader
<1>2. CASE Text(s, v) = <<>>
  BY <1>1, <1>2 DEF IsLine, IsBulk, IsArray, IsBadLine, Starts
<1>3. CASE Text(s, v) # <<>>
  <2>1. PICK type : /\ Starts(s, v, type)
                    /\ \/ type \notin {"+", "-", ":", "$", "*"}
                       \/ type \in {":", "$", "*"} /\ ~Counts(s, v)
                       \/ type \in {"$", "*"} /\ Counts(s, v) /\ Number(s, v) < -1
                       \/ type = "$" /\ Counts(s, v) /\ Number(s, v) > maxBulkLength
                       \/ type = "*" /\ Counts(s, v) /\ Number(s, v) > 0
                          /\ ~(v.depth < maxArrayDepth)
    BY <1>3
  <2>2. /\ \A other : Starts(s, v, other) <=> other = type
        /\ Counts(s, v) => Number(s, v) \in Int
    BY NodeOfHeader, <1>3, <2>1 DEF Starts
  <2>3. ~IsLine(s, v)
    BY <2>1, <2>2, LimitAssumption DEF IsLine
  <2>4. ~IsBulk(s, v)
    BY <2>1, <2>2, LimitAssumption DEF IsBulk
  <2>5. ~IsArray(s, v)
    <3> SUFFICES ASSUME IsArray(s, v) PROVE FALSE
      OBVIOUS
    <3>1. /\ type = "*" /\ Counts(s, v) /\ v.depth < maxArrayDepth
          /\ Len(v.items) \in 1..Number(s, v) /\ Number(s, v) \in Int
      BY <2>2 DEF IsArray
    <3>2. Number(s, v) >= 1
      BY <3>1
    <3> QED
      BY <2>1, <3>1, <3>2
  <2> QED
    BY <1>1, <2>3, <2>4, <2>5 DEF IsBadLine
<1> QED
  BY <1>2, <1>3

-----------------------------------------------------------------------------
(***************************************************************************)
(* The parser follows the reading of its stream.                           *)
(***************************************************************************)
done == Len(returned) + Len(results)
At(open) == [stream |-> stream, stack |-> arrayStack, done |-> done, open |-> open]
Values == {v.value : v \in stream.nodes}

\* Behind a node, at its payload, or at the beginning of the next one.
Place(open) ==
    IF pc = "complete" THEN pendingBulkLength = NoBulk /\ Behind(At(open), completing, position)
    ELSE IF pendingBulkLength # NoBulk THEN AtPayload(At(open), pendingBulkLength, position)
    ELSE AtNext(At(open), position)

\* When it waits, the next node has not arrived.
Waiting(open) ==
    pc = "idle" /\ HasNode(At(open), Len(arrayStack)) => fed < Node(At(open), Len(arrayStack)).to

\* q are the values of the frames from the n-th on.
AreFrames(q, n) ==
    \A i \in 1..Len(q) : q[i] = stream.frames[n + i].value /\ q[i] # NotResp

EndOf(n) == IF n = 0 THEN 0 ELSE stream.frames[n].to

StackTyped ==
    /\ arrayStack \in Seq(Entry(Values)) /\ Len(arrayStack) <= maxArrayDepth
    /\ \A i \in 1..Len(arrayStack) : Len(arrayStack[i].items) < arrayStack[i].count

Typed ==
    /\ StackTyped
    /\ returned \in Seq(Values) /\ results \in Seq(Values)
    /\ pendingBulkLength \in {NoBulk} \cup 0..maxBulkLength
    /\ totalBytesProcessed = fed /\ lastCompletedOffset \in 0..fed
    /\ pc \in {"idle", "loop", "complete"} /\ (pc = "complete" <=> completing # Nothing)
    /\ error \in {"none", "overflow", "protocol"} /\ resets \in 0..MaxResets
    /\ pc = "idle" => results = <<>>
    /\ error # "none" => pc = "idle"

\* What was returned are the first frames, which have arrived.
Returns ==
    /\ Len(returned) <= Len(stream.frames) /\ AreFrames(returned, 0)
    /\ EndOf(Len(returned)) <= fed

\* So is what the running execute has, and the offset is the end of the last frame.
Emitted ==
    /\ done <= Len(stream.frames) /\ AreFrames(results, Len(returned))
    /\ lastCompletedOffset = EndOf(done) /\ lastCompletedOffset <= position
    /\ arrayStack # <<>> \/ pendingBulkLength # NoBulk => lastCompletedOffset < position

Follows == \E open : Path(At(open)) /\ Place(open) /\ Waiting(open)

\* The stream is no RESP, and that has arrived.
Refuted ==
    /\ Broken(stream.frames) /\ failsAt(stream) <= fed
    /\ lastCompletedOffset = EndOf(Len(stream.frames) - 1)

ReadingInv ==
    /\ ParserInv /\ Typed /\ Returns
    /\ error = "none" => Emitted /\ Follows
    /\ error = "protocol" => Refuted

\* The frames of a stream.
LEMMA FramesInOrder ==
    ASSUME NEW s, IsStream(s)
    PROVE  /\ s.frames \in Seq(s.nodes) /\ Len(s.frames) \in Nat
           /\ \A i \in 1..Len(s.frames) :
                 /\ s.frames[i] \in s.nodes /\ Shaped(s, s.frames[i])
                 /\ i < Len(s.frames) => s.frames[i].value # NotResp
           /\ \A i, j \in 1..Len(s.frames) : i < j => s.frames[i].to < s.frames[j].to
<1>1. InARow(s, s.frames, 0, 0) /\ 0 \in Nat
  BY DEF IsStream
<1>2. /\ Len(s.frames) \in Nat
      /\ \A i \in 1..Len(s.frames) : s.frames[i] \in s.nodes /\ Shaped(s, s.frames[i])
                                     /\ s.frames[i].from >= 0 /\ s.frames[i].depth = 0
                                     /\ (i < Len(s.frames) => s.frames[i].value # NotResp)
      /\ \A i, j \in 1..Len(s.frames) : i < j => s.frames[i].to <= s.frames[j].from
  BY <1>1, LimitAssumption, RowOrder
<1>3. ASSUME NEW i \in 1..Len(s.frames), NEW j \in 1..Len(s.frames), i < j
      PROVE  s.frames[i].to < s.frames[j].to
  <2>1. s.frames[i].to <= s.frames[j].from
    BY <1>2, <1>3
  <2>2. /\ s.frames[i].to \in Nat /\ s.frames[j].from \in Nat /\ s.frames[j].to \in Nat
        /\ s.frames[j].from < s.frames[j].to
    BY <1>2 DEF Shaped
  <2> QED
    BY <2>1, <2>2
<1> QED
  BY <1>1, <1>2, <1>3 DEF InARow

\* While there is something unread, the next node is there, and the parser at it.
NextIs(open, v) ==
    /\ Path(At(open)) /\ Place(open) /\ HasNode(At(open), Len(arrayStack))
    /\ v = Node(At(open), Len(arrayStack)) /\ v \in stream.nodes /\ Shaped(stream, v)
    /\ v.depth = Len(arrayStack)
    /\ IF pendingBulkLength # NoBulk
       THEN /\ IsBulk(stream, v) /\ pendingBulkLength = Number(stream, v)
            /\ position = v.line + 2
       ELSE v.from = position

\* The reading goes on as long as there are bytes: a stream does not end in between.
LEMMA NextNode ==
    ASSUME ReadingInv, error = "none", pc # "complete", readable > 0
    PROVE  \E open : \E v : NextIs(open, v)
<1>1. Typed /\ Emitted /\ Follows /\ ParserInv
  BY DEF ReadingInv
<1>2. PICK open : Path(At(open)) /\ Place(open)
  BY <1>1 DEF Follows
<1>3. PICK d \in Nat, at \in {At(open)} :
          /\ d = Len(arrayStack) /\ at = At(open) /\ d = Depth(at)
          /\ at.stream = stream /\ at.done = done
  <2>1. Len(arrayStack) \in Nat
    BY <1>1 DEF Typed, StackTyped
  <2>2. At(open).stack = arrayStack /\ At(open).stream = stream /\ At(open).done = done
    BY DEF At
  <2> QED
    BY <2>1, <2>2 DEF Depth
<1>4. HasNode(at, d)
  <2>1. CASE d > 0
    <3>1. IsOpen(at, d)
      BY <1>2, <1>3, <2>1 DEF Path
    <3> QED
      BY <3>1 DEF IsOpen
  <2>2. CASE d = 0 /\ pendingBulkLength # NoBulk
    BY <1>2, <1>3, <2>2 DEF Place, AtPayload
  <2>3. CASE d = 0 /\ pendingBulkLength = NoBulk
    <3>1. position = Begins(at, 0)
      BY <1>2, <1>3, <2>3 DEF Place, AtNext
    <3>2. PICK n \in Nat : /\ n = Len(stream.frames)
                         /\ \A i \in 1..n : Shaped(stream, stream.frames[i])
      BY <1>1, InStream, FramesInOrder
    <3>3. done \in 0..n
      BY <1>2, <1>3, <3>2 DEF Path
    <3>4. /\ position = IF done = 0 THEN 0 ELSE stream.frames[done].to
          /\ position < Len(stream.bytes)
      <4>1. position = IF done = 0 THEN 0 ELSE stream.frames[done].to
        BY <1>3, <3>1 DEF Begins, Passed, Row, FrontOf
      <4>2. position < Len(stream.bytes)
        BY <1>1, InStream
      <4> QED
        BY <4>1, <4>2
    <3>5. done # n
      <4> SUFFICES ASSUME done = n PROVE FALSE
        OBVIOUS
      <4>1. ~Broken(stream.frames)
        <5> SUFFICES ASSUME Broken(stream.frames) PROVE FALSE
          OBVIOUS
        <5>1. stream.frames # <<>> /\ stream.frames[n].value = NotResp
          BY <3>2 DEF Broken, Last
        <5>2. n > 0
          BY <1>1, <3>2, <5>1, InStream, FramesInOrder
        <5>3. CASE Len(results) > 0
          <6>1. Len(results) \in 1..Len(results) /\ Len(returned) + Len(results) = n
            BY <1>1, <5>3 DEF Typed, done
          <6>2. results[Len(results)] = stream.frames[n].value /\ results[Len(results)] # NotResp
            BY <1>1, <6>1 DEF Emitted, AreFrames
          <6> QED
            BY <5>1, <6>2
        <5>4. CASE ~(Len(results) > 0)
          <6>1. Len(returned) = n /\ n \in 1..Len(returned) /\ 0 + n = n
            BY <1>1, <5>2, <5>4 DEF Typed, done
          <6>2. returned[n] = stream.frames[n].value /\ returned[n] # NotResp
            BY <6>1 DEF ReadingInv, Returns, AreFrames
          <6> QED
            BY <5>1, <6>2
        <5> QED
          BY <5>3, <5>4
      <4>2. Len(stream.bytes) = IF stream.frames = <<>> THEN 0 ELSE Last(stream.frames).to
        BY <1>1, <4>1, InStream DEF IsStream
      <4>3. stream.frames = <<>> <=> n = 0
        BY <1>1, <3>2, InStream, FramesInOrder
      <4>4. Last(stream.frames) = stream.frames[n]
        BY <3>2 DEF Last
      <4> QED
        BY <3>4, <4>2, <4>3, <4>4
    <3>6. Passed(at, 0) = done /\ Row(at, 0) = stream.frames
      BY <1>3 DEF Passed, Row
    <3> QED
      BY <2>3, <3>2, <3>3, <3>5, <3>6 DEF HasNode
  <2> QED
    BY <2>1, <2>2, <2>3
<1>5. PICK v : v = Node(at, d)
  OBVIOUS
<1>6. v \in stream.nodes /\ Shaped(stream, v) /\ v.depth = d /\ v.from = Begins(at, d)
  BY <1>2, <1>3, <1>4, <1>5, LimitAssumption, LevelOfPath
<1>7. IF pendingBulkLength # NoBulk
       THEN /\ IsBulk(stream, v) /\ pendingBulkLength = Number(stream, v)
            /\ position = v.line + 2
       ELSE v.from = position
  BY <1>2, <1>3, <1>5, <1>6 DEF Place, AtPayload, AtNext
<1>8. NextIs(open, v)
  BY <1>2, <1>3, <1>4, <1>5, <1>6, <1>7 DEF NextIs
<1> QED
  BY <1>8

-----------------------------------------------------------------------------
(***************************************************************************)
(* What the invariant says of a parser at rest.                            *)
(***************************************************************************)
\* The frames that ended are the first ones.
LEMMA EndedAre ==
    ASSUME IsStream(stream), fed \in Nat, NEW n \in 0..Len(stream.frames), EndOf(n) <= fed,
           \A i \in 1..n : stream.frames[i].value # NotResp,
           n < Len(stream.frames) =>
              stream.frames[n + 1].value = NotResp \/ fed < stream.frames[n + 1].to
    PROVE  Ended = 1..n /\ Cardinality(Ended) = n
<1>1. PICK len \in Nat, fs \in Seq(stream.nodes) :
         /\ fs = stream.frames /\ len = Len(fs) /\ DOMAIN fs = 1..len /\ n \in Nat /\ n <= len
         /\ \A i \in 1..len : Shaped(stream, fs[i]) /\ (i < len => fs[i].value # NotResp)
         /\ \A i, j \in 1..len : i < j => fs[i].to < fs[j].to
  BY FramesInOrder
<1>2. \A i \in 1..len : fs[i].to \in Nat
  BY <1>1 DEF Shaped
<1>3. ASSUME NEW i \in 1..n
      PROVE  i \in Ended
  <2>1. fs[n].to <= fed /\ n \in 1..len /\ i \in 1..len
    BY <1>1 DEF EndOf
  <2>2. fs[i].to <= fed
    <3>1. CASE i = n
      BY <2>1, <3>1
    <3>2. CASE i < n
      <4>1. fs[i].to < fs[n].to
        BY <1>1, <2>1, <3>2
      <4> QED
        BY <1>2, <2>1, <4>1
    <3> QED
      BY <1>1, <3>1, <3>2
  <2> QED
    BY <1>1, <2>1, <2>2 DEF Ended
<1>4. ASSUME NEW i \in Ended
      PROVE  i \in 1..n
  <2>1. i \in 1..len /\ fs[i].value # NotResp /\ fs[i].to <= fed
    BY <1>1 DEF Ended
  <2> SUFFICES ASSUME i > n PROVE FALSE
    BY <1>1, <2>1
  <2>2. n + 1 \in 1..len /\ n < len
    BY <1>1, <2>1
  <2>3. CASE i = n + 1
    BY <1>1, <1>2, <2>1, <2>2, <2>3
  <2>4. CASE n + 1 < i
    <3>1. fs[n + 1].to < fs[i].to /\ fs[n + 1].value # NotResp
      BY <1>1, <2>1, <2>2, <2>4
    <3>2. fed < fs[n + 1].to
      BY <1>1, <2>2, <3>1
    <3> QED
      BY <1>2, <2>1, <2>2, <3>1, <3>2
  <2> QED
    BY <1>1, <2>1, <2>3, <2>4
<1>5. Ended = 1..n
  BY <1>3, <1>4
<1>6. Cardinality(1..n) = n
  <2>1. 1 \in Int /\ n \in Int
    BY <1>1
  <2>2. Cardinality(1..n) = IF 1 > n THEN 0 ELSE n - 1 + 1
    BY <2>1, FS_Interval
  <2> QED
    BY <1>1, <2>2
<1> QED
  BY <1>5, <1>6

\* No number of frames that ended is less than that of those that were returned.
LEMMA ReturnedEnded ==
    ASSUME IsStream(stream), fed \in Nat, Typed, Returns
    PROVE  /\ Cardinality(Ended) \in Nat /\ Len(returned) <= Cardinality(Ended)
           /\ IsPrefix(returned, Expected)
<1>1. PICK n \in Nat, len \in Nat, fs \in Seq(stream.nodes) :
         /\ n = Len(returned) /\ fs = stream.frames
         /\ len = Len(fs) /\ DOMAIN fs = 1..len /\ n <= len
         /\ \A i \in 1..len : Shaped(stream, fs[i])
         /\ \A i, j \in 1..len : i < j => fs[i].to < fs[j].to
  <2>1. PICK fs \in Seq(stream.nodes), len \in Nat : fs = stream.frames /\ len = Len(fs)
    BY FramesInOrder
  <2>2. /\ \A i \in 1..len : Shaped(stream, fs[i])
        /\ \A i, j \in 1..len : i < j => fs[i].to < fs[j].to
    BY <2>1, FramesInOrder
  <2>3. DOMAIN fs = 1..len
    BY <2>1
  <2>4. Len(returned) \in Nat /\ Len(returned) <= len
    BY <2>1 DEF Typed, Returns
  <2> QED
    BY <2>1, <2>2, <2>3, <2>4
<1>2. \A i \in 1..n : returned[i] = fs[i].value /\ fs[i].value # NotResp
  <2>1. \A i \in 1..n : returned[i] = fs[0 + i].value /\ returned[i] # NotResp
    BY <1>1 DEF Returns, AreFrames
  <2>2. \A i \in 1..n : 0 + i = i
    OBVIOUS
  <2> QED
    BY <2>1, <2>2
<1>3. ASSUME NEW i \in 1..n
      PROVE  i \in Ended
  <2>1. fs[n].to <= fed /\ n \in 1..len /\ i \in 1..len
    BY <1>1 DEF EndOf, Returns
  <2>2. fs[i].to <= fed
    <3>1. CASE i = n
      BY <2>1, <3>1
    <3>2. CASE i < n
      <4>1. fs[i].to < fs[n].to /\ fs[i].to \in Nat /\ fs[n].to \in Nat
        BY <1>1, <2>1, <3>2 DEF Shaped
      <4> QED
        BY <2>1, <4>1
    <3> QED
      BY <1>1, <3>1, <3>2
  <2> QED
    BY <1>1, <1>2, <2>1, <2>2 DEF Ended
<1>4. IsFiniteSet(Ended) /\ Cardinality(Ended) \in Nat
  <2>1. 1 \in Int /\ len \in Int /\ Ended \in SUBSET (1..len)
    BY <1>1 DEF Ended
  <2>2. IsFiniteSet(1..len)
    BY <2>1, FS_Interval
  <2>3. IsFiniteSet(Ended)
    BY <2>1, <2>2, FS_Subset
  <2> QED
    BY <2>3, FS_CardinalityType
<1>5. n <= Cardinality(Ended)
  <2>1. 1..n \in SUBSET Ended
    BY <1>3
  <2>2. Cardinality(1..n) <= Cardinality(Ended)
    BY <1>4, <2>1, FS_Subset
  <2>3. 1 \in Int /\ n \in Int
    OBVIOUS
  <2>4. Cardinality(1..n) = IF 1 > n THEN 0 ELSE n - 1 + 1
    BY <2>3, FS_Interval
  <2>5. Cardinality(1..n) = n
    BY <2>4
  <2> QED
    BY <2>2, <2>5
<1>6. IsPrefix(returned, Expected)
  <2>1. PICK c \in Nat : c = Cardinality(Ended) /\ n <= c
    BY <1>4, <1>5
  <2>2. Expected = [i \in 1..c |-> fs[i].value]
    <3>1. fs = stream.frames
      BY <1>1
    <3> QED
      BY <2>1, <3>1 DEF Expected
  <2> DEFINE S == {fs[i].value : i \in 1..c}
  <2>3. PICK e \in Seq(S) : e = Expected /\ Len(e) = c /\ \A i \in 1..c : e[i] = fs[i].value
    <3>1. [i \in 1..c |-> fs[i].value] \in Seq(S)
      OBVIOUS
    <3>2. Len([i \in 1..c |-> fs[i].value]) = c
      OBVIOUS
    <3> QED
      BY <2>2, <3>1, <3>2
  <2>4. SubSeq(e, 1, n) = [i \in 1..n |-> e[i]]
    <3>1. SubSeq(e, 0 + 1, 0 + n) = [i \in 1..n |-> e[0 + i]]
      BY <2>1, <2>3, PartIs
    <3>2. 0 + 1 = 1 /\ 0 + n = n /\ \A i \in 1..n : 0 + i = i
      OBVIOUS
    <3> QED
      BY <3>1, <3>2
  <2>5. SubSeq(returned, 1, n) = [i \in 1..n |-> returned[i]]
    <3>1. SubSeq(returned, 0 + 1, 0 + n) = [i \in 1..n |-> returned[0 + i]]
      BY <1>1, PartIs DEF Typed
    <3>2. 0 + 1 = 1 /\ 0 + n = n /\ \A i \in 1..n : 0 + i = i
      OBVIOUS
    <3> QED
      BY <3>1, <3>2
  <2>6. \A i \in 1..n : e[i] = returned[i]
    BY <1>2, <2>1, <2>3
  <2> QED
    BY <1>1, <2>1, <2>3, <2>4, <2>5, <2>6 DEF IsPrefix
<1> QED
  BY <1>1, <1>4, <1>5, <1>6

\* At rest the frames that ended are those that were returned, and the next one has not
\* arrived.
LEMMA RestEnds ==
    ASSUME ReadingInv, AtRest
    PROVE  /\ done = Len(returned) /\ done \in 0..Len(stream.frames) /\ Len(stream.frames) \in Nat
           /\ Ended = 1..done /\ Cardinality(Ended) = done
           /\ lastCompletedOffset = EndOf(done)
           /\ \A i \in 1..done :
                 returned[i] = stream.frames[i].value /\ stream.frames[i].value # NotResp
           /\ done < Len(stream.frames) => fed < stream.frames[done + 1].to
<1>1. ParserInv /\ Typed /\ Returns /\ Emitted /\ Follows /\ error = "none" /\ pc = "idle"
  BY DEF ReadingInv, AtRest
<1>2. IsStream(stream) /\ fed \in Nat /\ results = <<>>
  BY <1>1, InStream DEF Typed
<1>3. PICK n \in Nat, len \in Nat :
         n = Len(returned) /\ n = done /\ len = Len(stream.frames) /\ n <= len
  <2>1. Len(returned) \in Nat /\ Len(results) = 0 /\ Len(stream.frames) \in Nat
    BY <1>1, <1>2, FramesInOrder DEF Typed
  <2> QED
    BY <1>1, <2>1 DEF done, Returns
<1>4. \A i \in 1..n : returned[i] = stream.frames[i].value /\ stream.frames[i].value # NotResp
  <2>1. \A i \in 1..n : returned[i] = stream.frames[0 + i].value /\ returned[i] # NotResp
    BY <1>1, <1>3 DEF Returns, AreFrames
  <2>2. \A i \in 1..n : 0 + i = i
    OBVIOUS
  <2> QED
    BY <2>1, <2>2
<1>5. ASSUME n < len
      PROVE  fed < stream.frames[n + 1].to
  <2>1. PICK open : Path(At(open)) /\ Waiting(open)
    BY <1>1 DEF Follows
  <2>2. PICK at : at = At(open)
    OBVIOUS
  <2>3. at.stream = stream /\ at.stack = arrayStack /\ at.done = n
    BY <1>3, <2>2 DEF At
  <2>4. PICK d \in Nat : d = Len(arrayStack) /\ d = Depth(at)
    BY <2>1, <2>2, <2>3 DEF Depth, Path
  <2>5. HasNode(at, d)
    <3>1. CASE d = 0
      <4>1. Passed(at, 0) = n /\ Row(at, 0) = stream.frames
        BY <2>3 DEF Passed, Row
      <4> QED
        BY <1>3, <1>5, <3>1, <4>1 DEF HasNode
    <3>2. CASE d # 0
      <4>1. IsOpen(at, d)
        BY <2>1, <2>2, <2>4, <3>2 DEF Path
      <4> QED
        BY <4>1 DEF IsOpen
    <3> QED
      BY <3>1, <3>2
  <2>6. fed < Node(at, d).to
    BY <1>1, <2>1, <2>2, <2>4, <2>5 DEF Waiting
  <2>7. Node(at, d).to <= Node(at, 0).to
    BY <2>1, <2>2, <2>4, <2>5, LimitAssumption, PathEnds
  <2>8. Node(at, 0) = stream.frames[n + 1]
    BY <2>3 DEF Node, Row, Passed
  <2>9. Node(at, d).to \in Nat /\ Node(at, 0).to \in Nat
    <3>1. d \in 0..Depth(at) /\ 0 \in 0..Depth(at) /\ HasNode(at, 0)
      BY <2>1, <2>2, <2>4, <2>5, LimitAssumption, PathEnds
    <3> QED
      BY <2>1, <2>2, <2>5, <3>1, LimitAssumption, LevelOfPath DEF Shaped
  <2> QED
    BY <1>2, <2>6, <2>7, <2>8, <2>9
<1>6. Ended = 1..n /\ Cardinality(Ended) = n
  <2>1. EndOf(n) <= fed /\ n \in 0..Len(stream.frames)
    BY <1>1, <1>3 DEF Returns
  <2> QED
    BY <1>2, <1>3, <1>4, <1>5, <2>1, EndedAre
<1> QED
  BY <1>1, <1>3, <1>4, <1>5, <1>6 DEF Emitted

\* After the byte that shows that the stream is no RESP, all but the last frame ended.
LEMMA RefutedEnds ==
    ASSUME ReadingInv, error = "protocol"
    PROVE  /\ Broken(stream.frames) /\ failsAt(stream) <= fed
           /\ Len(stream.frames) - 1 \in Nat
           /\ Ended = 1..Len(stream.frames) - 1 /\ Cardinality(Ended) = Len(stream.frames) - 1
           /\ lastCompletedOffset = EndOf(Len(stream.frames) - 1)
<1>1. Refuted /\ ParserInv /\ Typed
  BY DEF ReadingInv
<1>2. IsStream(stream) /\ fed \in Nat
  BY <1>1, StreamAssumption DEF ParserInv, IsStream
<1>3. Broken(stream.frames) /\ failsAt(stream) <= fed
      /\ lastCompletedOffset = EndOf(Len(stream.frames) - 1)
  BY <1>1 DEF Refuted
<1>4. PICK n \in Nat : n = Len(stream.frames) - 1 /\ Len(stream.frames) = n + 1
  <2>1. stream.frames \in Seq(stream.nodes) /\ stream.frames # <<>>
    BY <1>2, <1>3, FramesInOrder DEF Broken
  <2>2. Len(stream.frames) \in Nat /\ Len(stream.frames) # 0
    BY <2>1
  <2> QED
    BY <2>2
<1>5. stream.frames[n + 1].value = NotResp
  BY <1>3, <1>4 DEF Broken, Last
<1>6. \A i \in 1..n : stream.frames[i].value # NotResp
  BY <1>2, <1>4, FramesInOrder
<1>7. EndOf(n) <= fed
  BY <1>1, <1>3, <1>4 DEF Typed
<1>8. Ended = 1..n /\ Cardinality(Ended) = n
  BY <1>2, <1>4, <1>5, <1>6, <1>7, EndedAre
<1> QED
  BY <1>3, <1>4, <1>8

\* So what is asked of the parser is true.
LEMMA ReadingExact ==
    ASSUME ReadingInv
    PROVE  ReturnsExact
<1>1. ParserInv /\ Typed /\ Returns
  BY DEF ReadingInv
<1>2. IsStream(stream) /\ fed \in Nat /\ fed \in 0..Len(stream.bytes) /\ Len(stream.bytes) \in Nat
  BY <1>1, StreamAssumption DEF ParserInv, IsStream
<1>3. TypeOK
  <2>1. \A i \in DOMAIN arrayStack : Len(arrayStack[i].items) < arrayStack[i].count
    BY <1>1 DEF Typed, StackTyped
  <2>2. IsBuffer(buffer)
    BY <1>1 DEF ParserInv
  <2> QED
    BY <1>1, <1>2, <2>1, <2>2 DEF TypeOK, Typed, StackTyped
<1>4. AnySplitSame
  <2> SUFFICES ASSUME AtRest PROVE returned = Expected
    BY DEF AnySplitSame
  <2>1. PICK n \in Nat : n = done /\ n = Len(returned) /\ Cardinality(Ended) = n
                         /\ \A i \in 1..n : returned[i] = stream.frames[i].value
    BY RestEnds
  <2>2. Expected = [i \in 1..n |-> stream.frames[i].value]
    BY <2>1 DEF Expected
  <2>3. returned = [i \in 1..n |-> returned[i]]
    BY <1>1, <2>1, SeqIs DEF Typed
  <2> QED
    BY <2>1, <2>2, <2>3
<1>5. NothingInvented
  BY <1>1, <1>2, ReturnedEnded DEF NothingInvented
<1>6. FailsExactly
  <2> SUFFICES ASSUME pc = "idle"
               PROVE  error = "protocol" <=> error # "overflow" /\ fed >= failsAt(stream)
    BY DEF FailsExactly
  <2>1. CASE error = "protocol"
    <3>1. failsAt(stream) <= fed /\ Broken(stream.frames)
      BY <2>1, RefutedEnds
    <3>2. failsAt(stream) \in Nat
      <4>1. Len(stream.frames) - 1 \in Nat
        BY <2>1, RefutedEnds
      <4>2. Len(stream.frames) \in 1..Len(stream.frames)
        BY <1>2, <4>1, FramesInOrder
      <4>3. Shaped(stream, Last(stream.frames))
        BY <1>2, <4>2, FramesInOrder DEF Last
      <4> QED
        BY <3>1, <4>3 DEF failsAt, Shaped
    <3> QED
      BY <1>2, <2>1, <3>1, <3>2
  <2>2. CASE error = "overflow"
    BY <2>2
  <2>3. CASE error = "none"
    <3>1. AtRest
      BY <2>3 DEF AtRest
    <3>2. CASE Broken(stream.frames)
      <4>1. PICK len \in Nat : /\ len = Len(stream.frames) /\ len >= 1
                               /\ failsAt(stream) = stream.frames[len].to
                               /\ stream.frames[len].value = NotResp
        BY <1>2, <3>2, FramesInOrder DEF Broken, Last, failsAt
      <4>2. done \in 0..len /\ done # len /\ (done < len => fed < stream.frames[done + 1].to)
        BY <3>1, <4>1, RestEnds
      <4>3. done + 1 \in 1..len /\ fed < stream.frames[done + 1].to
        BY <4>1, <4>2
      <4>4. stream.frames[done + 1].to <= stream.frames[len].to
            /\ stream.frames[done + 1].to \in Nat /\ stream.frames[len].to \in Nat
        <5>1. \A i \in 1..len : stream.frames[i].to \in Nat
          BY <1>2, <4>1, FramesInOrder DEF Shaped
        <5>2. CASE done + 1 = len
          BY <4>3, <5>1, <5>2
        <5>3. CASE done + 1 < len
          <6>1. stream.frames[done + 1].to < stream.frames[len].to
            BY <1>2, <4>1, <4>3, <5>3, FramesInOrder
          <6> QED
            BY <4>1, <4>3, <5>1, <6>1
        <5> QED
          BY <4>3, <5>2, <5>3
      <4> QED
        BY <1>2, <2>3, <4>1, <4>3, <4>4
    <3>3. CASE ~Broken(stream.frames)
      <4>1. failsAt(stream) = Len(stream.bytes) + 1
        BY <3>3 DEF failsAt
      <4> QED
        BY <1>2, <2>3, <4>1
    <3> QED
      BY <3>2, <3>3
  <2> QED
    BY <1>1, <2>1, <2>2, <2>3 DEF Typed
<1> QED
  BY <1>3, <1>4, <1>5, <1>6 DEF ReturnsExact

\* And so is what recovery asks of it.
LEMMA ReadingOffsets ==
    ASSUME ReadingInv
    PROVE  OffsetsExact
<1>1. ParserInv /\ Typed /\ Returns
  BY DEF ReadingInv
<1>2. IsStream(stream)
  BY <1>1, StreamAssumption DEF ParserInv
<1>3. OffsetExact
  <2> SUFFICES ASSUME pc = "idle", error # "overflow"
               PROVE  lastCompletedOffset =
                         IF Ended = {} THEN 0 ELSE stream.frames[Cardinality(Ended)].to
    BY DEF OffsetExact
  <2>1. PICK n \in Nat : Ended = 1..n /\ Cardinality(Ended) = n /\ lastCompletedOffset = EndOf(n)
    <3>1. CASE error = "protocol"
      BY <3>1, RefutedEnds
    <3>2. CASE error = "none"
      <4>1. AtRest
        BY <3>2 DEF AtRest
      <4> QED
        BY <4>1, RestEnds
    <3> QED
      BY <1>1, <3>1, <3>2 DEF Typed
  <2>2. Ended = {} <=> n = 0
    BY <2>1
  <2> QED
    BY <2>1, <2>2 DEF EndOf
<1>4. IncompleteExact
  <2> SUFFICES ASSUME AtRest PROVE isIncomplete <=> lastCompletedOffset # fed
    BY DEF IncompleteExact
  <2>1. Emitted /\ Follows /\ error = "none" /\ pc = "idle"
    BY DEF ReadingInv, AtRest
  <2>2. /\ readable \in Nat /\ position \in Nat /\ fed = position + readable
        /\ lastCompletedOffset <= position /\ lastCompletedOffset \in Nat
        /\ (arrayStack # <<>> \/ pendingBulkLength # NoBulk => lastCompletedOffset < position)
    BY <1>1, <2>1, InStream DEF Emitted, Typed
  <2>3. CASE isIncomplete
    BY <2>2, <2>3 DEF isIncomplete
  <2>4. CASE ~isIncomplete
    <3>1. arrayStack = <<>> /\ pendingBulkLength = NoBulk /\ ~(readable > 0)
      BY <2>4 DEF isIncomplete
    <3>2. PICK open : Place(open)
      BY <2>1 DEF Follows
    <3>3. Len(arrayStack) = 0 /\ At(open).stack = arrayStack /\ At(open).done = done
          /\ At(open).stream = stream
      BY <3>1 DEF At
    <3>4. position = Begins(At(open), 0)
      BY <2>1, <3>1, <3>2, <3>3 DEF Place, AtNext, Depth
    <3>5. Begins(At(open), 0) = EndOf(done)
      BY <3>3 DEF Begins, Passed, Row, FrontOf, EndOf
    <3> QED
      BY <2>1, <2>2, <2>4, <3>1, <3>4, <3>5 DEF Emitted
  <2> QED
    BY <2>3, <2>4
<1> QED
  BY <1>3, <1>4 DEF OffsetsExact

-----------------------------------------------------------------------------
(***************************************************************************)
(* The steps of the parser.                                                *)
(***************************************************************************)
\* Consuming bytes moves the parser on.
LEMMA Consumed ==
    ASSUME ParserInv, error = "none",
           NEW n \in 0..readable, buffer' = advance(buffer, n), fed' = fed
    PROVE  position' = position + n /\ readable' = readable - n /\ position' \in Nat
<1>1. readableBytes(advance(buffer, n)) = readableBytes(buffer) - n
  BY AdvanceDrops DEF ParserInv, readable
<1>2. readable' = readable - n
  BY <1>1 DEF readable, readableBytes
<1>3. readable \in Nat /\ position \in Nat /\ fed \in Nat /\ fed = position + readable
  BY InStream
<1>4. position' = fed - (readable - n)
  BY <1>2 DEF position
<1> QED
  BY <1>2, <1>3, <1>4

\* A step within execute that leaves what was emitted alone.
LEMMA GoesOn ==
    ASSUME ReadingInv, error = "none", ParserInv',
           UNCHANGED <<totalBytesProcessed, lastCompletedOffset, stream, fed, resets,
                       returned, results, error>>,
           StackTyped', pendingBulkLength' \in {NoBulk} \cup 0..maxBulkLength,
           pc' \in {"loop", "complete"}, (pc' = "complete") <=> (completing' # Nothing),
           lastCompletedOffset <= position',
           arrayStack' # <<>> \/ pendingBulkLength' # NoBulk => lastCompletedOffset < position',
           NEW open, Path(At(open))', Place(open)'
    PROVE  ReadingInv'
<1>1. Typed /\ Returns /\ Emitted
  BY DEF ReadingInv
<1>2. Typed'
  BY <1>1 DEF Typed, Values
<1>3. Returns'
  BY <1>1 DEF Returns, AreFrames, EndOf
<1>4. Emitted'
  BY <1>1 DEF Emitted, done, AreFrames, EndOf
<1>5. Waiting(open)'
  BY DEF Waiting
<1>6. Follows'
  BY <1>5 DEF Follows
<1>7. error' = "none"
  OBVIOUS
<1> QED
  BY <1>2, <1>3, <1>4, <1>6, <1>7 DEF ReadingInv

\* The line in front of the parser is the header of the next node v.
HeaderIs(open, v) ==
    /\ NextIs(open, v) /\ HasHeader(stream, v) /\ v.line \in Nat /\ v.depth \in Nat
    /\ Line = Text(stream, v)
    /\ findCrlf \in Nat /\ findCrlf + 2 \in 0..readable /\ position + findCrlf + 2 = v.line + 2
    /\ position < v.line + 2 /\ v.line + 2 <= fed

\* When findCrlf finds a line end, that is the one of the header.
LEMMA HeaderRead ==
    ASSUME ReadingInv, error = "none", InHeader, CrlfOffsets # {}
    PROVE  \E open : \E v : HeaderIs(open, v)
<1>1. ParserInv /\ Typed /\ pc # "complete" /\ readable > 0 /\ pendingBulkLength = NoBulk
  BY DEF ReadingInv, InHeader, InLoop
<1>2. PICK open : \E v : NextIs(open, v)
  BY <1>1, NextNode
<1>3. PICK v : NextIs(open, v)
  BY <1>2
<1>4. v \in stream.nodes /\ v.from = position /\ v.depth \in Nat
  BY <1>1, <1>3 DEF NextIs, Typed, StackTyped
<1>5. /\ IsStream(stream) /\ fed \in Nat
      /\ readable \in Nat /\ position \in Nat /\ fed = position + readable
      /\ stream.bytes \in Seq(Byte)
  BY <1>1, InStream
<1>6. HasHeader(stream, v)
  <2>1. ~IsLongLine(stream, v)
    BY <1>1, <1>4, FindsNone
  <2>2. IsNode(stream, v)
    BY <1>4, <1>5 DEF IsStream
  <2> QED
    BY <2>1, <2>2 DEF IsNode, IsLine, IsBulk, IsArray, IsBadLine, Starts
<1>7. v.line \in Nat /\ v.from <= v.line
  BY <1>4, <1>5, <1>6, LimitAssumption, HeaderShape
<1>8. /\ findCrlf \in Nat /\ findCrlf + 2 \in 0..readable
      /\ position + findCrlf = v.line /\ Line = Text(stream, v)
  BY <1>1, <1>4, <1>6, FindsHeader
<1> QED
  BY <1>3, <1>4, <1>5, <1>6, <1>7, <1>8 DEF HeaderIs

\* What the line says.
LEMMA LineSays ==
    ASSUME ReadingInv, error = "none", NEW open, NEW v, HeaderIs(open, v), NEW type, HasLine(type)
    PROVE  /\ IsStream(stream) /\ v \in stream.nodes /\ Starts(stream, v, type)
           /\ Argument(stream, v) = payload /\ (Counts(stream, v) <=> IsInteger(payload))
           /\ Number(stream, v) = parseInteger(payload)
           /\ Counts(stream, v) => Number(stream, v) \in Int
<1>1. IsStream(stream) /\ v \in stream.nodes /\ HasHeader(stream, v) /\ Line = Text(stream, v)
  BY InStream DEF ReadingInv, HeaderIs, NextIs
<1>2. Starts(stream, v, type)
  BY <1>1 DEF HasLine, prefix, Starts
<1>3. Argument(stream, v) = payload
  BY <1>1 DEF Argument, payload
<1>4. (Counts(stream, v) <=> IsInteger(payload)) /\ Number(stream, v) = parseInteger(payload)
  BY <1>3 DEF Counts, Number
<1>5. Counts(stream, v) => Number(stream, v) \in Int
  BY <1>1, <1>2, LimitAssumption, NodeOfHeader
<1> QED
  BY <1>1, <1>2, <1>3, <1>4, <1>5

\* A line that is a value is behind the parser then.
LEMMA LineCompletes ==
    ASSUME ReadingInv, error = "none", ParserInv', InHeader, CrlfOffsets # {},
           NEW open, NEW v, HeaderIs(open, v),
           v.to = v.line + 2, NEW value, v.value = value, value # NotResp, value # Nothing,
           Consume, Complete(value), UNCHANGED <<arrayStack, pendingBulkLength>>, Rest
    PROVE  ReadingInv'
<1>1. ParserInv /\ Typed /\ Emitted /\ pendingBulkLength = NoBulk
  BY DEF ReadingInv, InHeader
<1>2. /\ NextIs(open, v) /\ v.line \in Nat /\ findCrlf \in Nat /\ findCrlf + 2 \in 0..readable
       /\ position + findCrlf + 2 = v.line + 2 /\ position < v.line + 2
  BY DEF HeaderIs
<1>3. /\ UNCHANGED <<totalBytesProcessed, lastCompletedOffset, stream, fed, resets,
                     returned, results, error, arrayStack>>
      /\ pc' = "complete" /\ completing' = value /\ pendingBulkLength' = NoBulk
      /\ buffer' = advance(buffer, findCrlf + 2)
  BY <1>1 DEF Rest, Complete, Consume
<1>4. position' = v.to /\ position < position' /\ position \in Nat /\ position' \in Nat
  <2>1. position \in Nat
    BY <1>1, InStream
  <2>2. fed' = fed
    BY <1>3
  <2>3. position' = position + (findCrlf + 2) /\ position' \in Nat
    BY <1>1, <1>3, <1>2, <2>2, Consumed
  <2>4. findCrlf + 2 \in Int /\ position + (findCrlf + 2) = position + findCrlf + 2
    BY <1>2, <2>1
  <2> QED
    BY <1>2, <2>1, <2>3, <2>4
<1>5. lastCompletedOffset \in Nat /\ lastCompletedOffset <= position
  BY <1>1, InStream DEF Emitted, Typed
<1>6. At(open)' = At(open)
  BY <1>3 DEF At, done
<1>7. PICK at : at = At(open) /\ at.stack = arrayStack
  <2>1. At(open).stack = arrayStack
    BY DEF At
  <2> QED
    BY <2>1
<1>8. Path(at) /\ HasNode(at, Depth(at)) /\ v = Node(at, Depth(at))
  BY <1>7, <1>2 DEF NextIs, Depth
<1>9. Behind(at, value, v.to)
  BY <1>8 DEF Behind
<1>10. Path(At(open))'
  BY <1>6, <1>7, <1>8
<1>11. Place(open)'
  BY <1>3, <1>4, <1>6, <1>7, <1>9 DEF Place
<1>12. StackTyped'
  BY <1>1, <1>3 DEF Typed, StackTyped, Values
<1> QED
  BY <1>3, <1>4, <1>5, <1>10, <1>11, <1>12, GoesOn

\* What the values of lines are not.
LEMMA ValuesDiffer ==
    /\ \A x : /\ [simple |-> x] # NotResp /\ [simple |-> x] # Nothing
              /\ [failure |-> x] # NotResp /\ [failure |-> x] # Nothing
              /\ [integer |-> x] # NotResp /\ [integer |-> x] # Nothing
              /\ [array |-> x] # NotResp /\ [array |-> x] # Nothing
              /\ [bulk |-> x] # NotResp /\ [bulk |-> x] # Nothing
    /\ NullBulk # NotResp /\ NullBulk # Nothing /\ NullArray # NotResp /\ NullArray # Nothing
<1>1. DOMAIN NotResp = {"notResp"} /\ DOMAIN Nothing = {"nothing"}
      /\ DOMAIN NullBulk = {"nullBulk"} /\ DOMAIN NullArray = {"nullArray"}
  BY DEF NotResp, Nothing, NullBulk, NullArray
<1>2. \A x : /\ DOMAIN [simple |-> x] = {"simple"} /\ DOMAIN [failure |-> x] = {"failure"}
             /\ DOMAIN [integer |-> x] = {"integer"} /\ DOMAIN [array |-> x] = {"array"}
             /\ DOMAIN [bulk |-> x] = {"bulk"}
  OBVIOUS
<1>3. NullBulk # NotResp /\ NullBulk # Nothing /\ NullArray # NotResp /\ NullArray # Nothing
  BY <1>1
<1>4. ASSUME NEW x
      PROVE   /\ [simple |-> x] # NotResp /\ [simple |-> x] # Nothing
              /\ [failure |-> x] # NotResp /\ [failure |-> x] # Nothing
              /\ [integer |-> x] # NotResp /\ [integer |-> x] # Nothing
              /\ [array |-> x] # NotResp /\ [array |-> x] # Nothing
              /\ [bulk |-> x] # NotResp /\ [bulk |-> x] # Nothing
  BY <1>1, <1>2
<1> QED
  BY <1>3, <1>4

\* Simple strings and errors.
LEMMA ReadsSimple ==
    ASSUME ReadingInv, error = "none", ParserInv', SimpleLine
    PROVE  ReadingInv'
<1>1. PICK type \in {"+", "-"} :
        /\ HasLine(type)
        /\ Consume
        /\ Complete(IF type = "+" THEN [simple |-> payload] ELSE [failure |-> payload])
        /\ UNCHANGED <<arrayStack, pendingBulkLength>> /\ Rest
  BY DEF SimpleLine
<1>2. InHeader /\ CrlfOffsets # {}
  BY <1>1 DEF HasLine
<1>3. PICK open : \E v : HeaderIs(open, v)
  BY <1>2, HeaderRead
<1>4. PICK v : HeaderIs(open, v)
  BY <1>3
<1>5. /\ IsStream(stream) /\ v \in stream.nodes
      /\ Starts(stream, v, type) /\ Argument(stream, v) = payload
  BY <1>1, <1>4, LineSays
<1>6. PICK value : value = IF type = "+" THEN [simple |-> payload] ELSE [failure |-> payload]
  OBVIOUS
<1>7. v.to = v.line + 2 /\ v.value = value
  <2>1. CASE type = "+"
    BY <1>5, <1>6, <2>1, LimitAssumption, GoodLine
  <2>2. CASE type = "-"
    BY <1>5, <1>6, <2>2, LimitAssumption, GoodLine
  <2> QED
    BY <2>1, <2>2
<1>8. value # NotResp /\ value # Nothing
  BY <1>6, ValuesDiffer
<1>9. Complete(value)
  BY <1>1, <1>6
<1> QED
  BY <1>1, <1>2, <1>4, <1>7, <1>8, <1>9, LineCompletes

\* An integer.
LEMMA ReadsInteger ==
    ASSUME ReadingInv, error = "none", ParserInv', IntegerLine
    PROVE  ReadingInv'
<1>1. /\ HasLine(":") /\ IsInteger(payload)
      /\ Consume
      /\ Complete([integer |-> parseInteger(payload)])
      /\ UNCHANGED <<arrayStack, pendingBulkLength>> /\ Rest
  BY DEF IntegerLine
<1>2. InHeader /\ CrlfOffsets # {}
  BY <1>1 DEF HasLine
<1>3. PICK open : \E v : HeaderIs(open, v)
  BY <1>2, HeaderRead
<1>4. PICK v : HeaderIs(open, v)
  BY <1>3
<1>5. /\ IsStream(stream) /\ v \in stream.nodes /\ Starts(stream, v, ":") /\ Counts(stream, v)
      /\ Number(stream, v) = parseInteger(payload)
  BY <1>1, <1>4, LineSays
<1>6. PICK value : value = [integer |-> parseInteger(payload)]
  OBVIOUS
<1>7. v.to = v.line + 2 /\ v.value = value
  BY <1>5, <1>6, LimitAssumption, GoodLine
<1>8. value # NotResp /\ value # Nothing
  BY <1>6, ValuesDiffer
<1>9. Complete(value)
  BY <1>1, <1>6
<1> QED
  BY <1>1, <1>2, <1>4, <1>7, <1>8, <1>9, LineCompletes

\* A null bulk string, or the beginning of a payload.
LEMMA ReadsBulkLine ==
    ASSUME ReadingInv, error = "none", ParserInv', BulkLine
    PROVE  ReadingInv'
<1>1. /\ HasLine("$") /\ IsInteger(payload) /\ parseInteger(payload) \in -1..maxBulkLength
      /\ Consume /\ UNCHANGED arrayStack /\ Rest
  BY DEF BulkLine
<1>2. InHeader /\ CrlfOffsets # {}
  BY <1>1 DEF HasLine
<1>3. PICK open : \E v : HeaderIs(open, v)
  BY <1>2, HeaderRead
<1>4. PICK v : HeaderIs(open, v)
  BY <1>3
<1>5. /\ IsStream(stream) /\ v \in stream.nodes /\ Starts(stream, v, "$") /\ Counts(stream, v)
      /\ Number(stream, v) = parseInteger(payload)
  BY <1>1, <1>4, LineSays
<1>6. CASE parseInteger(payload) = -1
  <2>1. Complete(NullBulk) /\ UNCHANGED pendingBulkLength
    BY <1>6 DEF BulkLine
  <2>2. v.to = v.line + 2 /\ v.value = NullBulk
    BY <1>5, <1>6, LimitAssumption, GoodLine
  <2>3. NullBulk # NotResp /\ NullBulk # Nothing
    BY ValuesDiffer
  <2> QED
    BY <1>1, <1>2, <1>4, <2>1, <2>2, <2>3, LineCompletes
<1>7. CASE parseInteger(payload) # -1
  <2>1. pendingBulkLength' = parseInteger(payload) /\ UNCHANGED call
    BY <1>7 DEF BulkLine
  <2>2. parseInteger(payload) \in 0..maxBulkLength
    BY <1>1, <1>7, LimitAssumption
  <2>3. NextIs(open, v) /\ v.depth \in Nat /\ position + findCrlf + 2 = v.line + 2
        /\ findCrlf \in Nat /\ findCrlf + 2 \in 0..readable /\ position < v.line + 2
    BY <1>4 DEF HeaderIs
  <2>4. IsBulk(stream, v)
    BY <1>5, <2>2, <2>3, LimitAssumption, OpeningLine
  <2>5. ParserInv /\ Typed /\ Emitted /\ pc = "loop"
    BY <1>2 DEF ReadingInv, InHeader, InLoop
  <2>6. /\ UNCHANGED <<totalBytesProcessed, lastCompletedOffset, stream, fed, resets,
                       returned, results, error, arrayStack>>
        /\ pc' = pc /\ completing' = completing /\ buffer' = advance(buffer, findCrlf + 2)
        /\ fed' = fed
    BY <1>1, <2>1 DEF Rest, call, Consume
  <2>7. position' = v.line + 2 /\ position \in Nat /\ position' \in Nat
    <3>1. position' = position + (findCrlf + 2) /\ position \in Nat /\ position' \in Nat
      BY <2>3, <2>5, <2>6, Consumed, InStream
    <3> QED
      BY <2>3, <3>1
  <2>8. lastCompletedOffset \in Nat /\ lastCompletedOffset < position'
    <3>1. lastCompletedOffset \in Nat /\ lastCompletedOffset <= position
      BY <2>5, InStream DEF Emitted, Typed
    <3> QED
      BY <2>3, <2>7, <3>1
  <2>9. At(open)' = At(open)
    BY <2>6 DEF At, done
  <2>10. PICK at : at = At(open)
    OBVIOUS
  <2>11. at.stack = arrayStack /\ at.stream = stream
    BY <2>10 DEF At
  <2>12. Path(at) /\ HasNode(at, Depth(at)) /\ v = Node(at, Depth(at))
    BY <2>3, <2>10, <2>11 DEF NextIs, Depth
  <2>13. AtPayload(at, parseInteger(payload), v.line + 2)
    BY <1>5, <2>4, <2>11, <2>12 DEF AtPayload
  <2>14. Path(At(open))'
    BY <2>9, <2>10, <2>12
  <2>15. Place(open)'
    <3>1. pc' # "complete" /\ pendingBulkLength' # NoBulk
      BY <2>1, <2>2, <2>5, <2>6, LimitAssumption DEF NoBulk
    <3> QED
      BY <2>1, <2>7, <2>9, <2>10, <2>13, <3>1 DEF Place
  <2>16. StackTyped'
    BY <2>5, <2>6 DEF Typed, StackTyped, Values
  <2>17. pc' \in {"loop", "complete"} /\ (pc' = "complete" <=> completing' # Nothing)
    BY <2>5, <2>6 DEF Typed
  <2>18. pendingBulkLength' \in {NoBulk} \cup 0..maxBulkLength
    BY <2>1, <2>2
  <2> QED
    BY <2>6, <2>7, <2>8, <2>14, <2>15, <2>16, <2>17, <2>18, GoesOn
<1> QED
  BY <1>6, <1>7

\* A null or an empty array, or the beginning of its items.
LEMMA ReadsArrayLine ==
    ASSUME ReadingInv, error = "none", ParserInv', ArrayLine
    PROVE  ReadingInv'
<1>1. /\ HasLine("*") /\ IsInteger(payload) /\ parseInteger(payload) >= -1
      /\ parseInteger(payload) > 0 => DepthLeft
      /\ Consume /\ UNCHANGED pendingBulkLength /\ Rest
  BY DEF ArrayLine
<1>2. InHeader /\ CrlfOffsets # {}
  BY <1>1 DEF HasLine
<1>3. PICK open : \E v : HeaderIs(open, v)
  BY <1>2, HeaderRead
<1>4. PICK v : HeaderIs(open, v)
  BY <1>3
<1>5. /\ IsStream(stream) /\ v \in stream.nodes /\ Starts(stream, v, "*") /\ Counts(stream, v)
      /\ Number(stream, v) = parseInteger(payload) /\ Number(stream, v) \in Int
  BY <1>1, <1>4, LineSays
<1>6. CASE ~(parseInteger(payload) > 0)
  <2>1. PICK value : value = IF parseInteger(payload) = 0 THEN [array |-> <<>>] ELSE NullArray
    OBVIOUS
  <2>2. Complete(value) /\ UNCHANGED arrayStack
    BY <1>6, <2>1 DEF ArrayLine
  <2>3. Number(stream, v) \in {-1, 0}
    BY <1>1, <1>5, <1>6
  <2>4. v.to = v.line + 2 /\ v.value = value
    BY <1>5, <2>1, <2>3, LimitAssumption, GoodLine
  <2>5. value # NotResp /\ value # Nothing
    BY <2>1, ValuesDiffer
  <2> QED
    BY <1>1, <1>2, <1>4, <2>2, <2>4, <2>5, LineCompletes
<1>7. CASE parseInteger(payload) > 0
  <2>1. /\ arrayStack' = Append(arrayStack, [count |-> parseInteger(payload), items |-> <<>>])
        /\ UNCHANGED call
    BY <1>7 DEF ArrayLine
  <2>2. NextIs(open, v) /\ v.depth \in Nat /\ position + findCrlf + 2 = v.line + 2
        /\ findCrlf \in Nat /\ findCrlf + 2 \in 0..readable /\ position < v.line + 2
    BY <1>4 DEF HeaderIs
  <2>3. ParserInv /\ Typed /\ Emitted /\ pc = "loop" /\ pendingBulkLength = NoBulk
    BY <1>2 DEF ReadingInv, InHeader, InLoop
  <2>4. PICK d \in Nat : d = Len(arrayStack) /\ d < maxArrayDepth /\ d = v.depth
    BY <1>1, <1>7, <2>2, <2>3 DEF Typed, StackTyped, DepthLeft, NextIs
  <2>5. IsArray(stream, v)
    BY <1>5, <1>7, <2>4, LimitAssumption, OpeningLine
  <2>6. /\ UNCHANGED <<totalBytesProcessed, lastCompletedOffset, stream, fed, resets,
                       returned, results, error, pendingBulkLength>>
        /\ pc' = pc /\ completing' = completing /\ buffer' = advance(buffer, findCrlf + 2)
        /\ fed' = fed
    BY <1>1, <2>1 DEF Rest, call, Consume
  <2>7. position' = v.line + 2 /\ position \in Nat /\ position' \in Nat
    <3>1. position' = position + (findCrlf + 2) /\ position \in Nat /\ position' \in Nat
      BY <2>2, <2>3, <2>6, Consumed, InStream
    <3> QED
      BY <2>2, <3>1
  <2>8. lastCompletedOffset \in Nat /\ lastCompletedOffset < position'
    <3>1. lastCompletedOffset \in Nat /\ lastCompletedOffset <= position
      BY <2>3, InStream DEF Emitted, Typed
    <3> QED
      BY <2>2, <2>7, <3>1
  <2>9. PICK at : at = At(open) /\ at.stack = arrayStack /\ at.stream = stream /\ at.done = done
                  /\ at.open = open
    <3>1. At(open).stack = arrayStack /\ At(open).stream = stream /\ At(open).done = done
          /\ At(open).open = open
      BY DEF At
    <3> QED
      BY <3>1
  <2>10. d = Depth(at) /\ Path(at) /\ HasNode(at, d) /\ v = Node(at, d)
    BY <2>2, <2>9, <2>4 DEF NextIs, Depth
  <2>11. PICK next : next = [k \in 1..d + 1 |-> IF k = d + 1 THEN v ELSE open[k]]
    OBVIOUS
  <2>12. PICK b : b = At(next)' /\ b.stream = stream /\ b.done = done /\ b.open = next
                  /\ b.stack = Append(arrayStack, [count |-> Number(stream, v), items |-> <<>>])
    <3>1. /\ At(next)'.stream = stream /\ At(next)'.done = done /\ At(next)'.open = next
          /\ At(next)'.stack = Append(arrayStack, [count |-> Number(stream, v), items |-> <<>>])
      BY <1>5, <2>1, <2>6 DEF At, done
    <3> QED
      BY <3>1
  <2>13. Path(b) /\ AtNext(b, v.line + 2) /\ b.stack \in Seq(Entry(Values))
    <3>1. PICK V : V = Values
      OBVIOUS
    <3>2. at.stack \in Seq(Entry(V)) /\ v \in at.stream.nodes /\ IsArray(at.stream, v)
      BY <1>5, <2>5, <2>3, <2>9, <3>1 DEF Typed, StackTyped
    <3>3. /\ b.stream = at.stream /\ b.done = at.done
          /\ b.open = [k \in 1..d + 1 |-> IF k = d + 1 THEN v ELSE at.open[k]]
          /\ b.stack = Append(at.stack, [count |-> Number(at.stream, v), items |-> <<>>])
      BY <2>9, <2>11, <2>12
    <3>4. Path(b) /\ AtNext(b, v.line + 2) /\ b.stack \in Seq(Entry(V))
      BY <2>10, <3>2, <3>3, LimitAssumption, EnterArray
    <3> QED
      BY <3>1, <3>4
  <2>14. Path(At(next))'
    BY <2>12, <2>13
  <2>15. Place(next)'
    <3>1. pc' # "complete" /\ pendingBulkLength' = NoBulk
      BY <2>3, <2>6
    <3> QED
      BY <2>7, <2>12, <2>13, <3>1 DEF Place
  <2>16. StackTyped'
    <3>1. arrayStack' \in Seq(Entry(Values')) /\ Values' = Values
      <4>1. Values' = Values
        BY <2>6 DEF Values
      <4> QED
        BY <2>12, <2>13, <4>1, <2>1, <1>5
    <3>2. /\ Len(arrayStack') = d + 1 /\ \A i \in 1..d : arrayStack'[i] = arrayStack[i]
          /\ arrayStack'[d + 1] = [count |-> parseInteger(payload), items |-> <<>>]
      <4>1. PICK S : S = Entry(Values)
        OBVIOUS
      <4>2. PICK q \in Seq(S) : q = arrayStack
        BY <2>3, <4>1 DEF Typed, StackTyped
      <4>3. PICK e \in S : e = [count |-> parseInteger(payload), items |-> <<>>]
        <5>1. <<>> \in Seq(Values) /\ parseInteger(payload) \in Int
          BY <1>5
        <5> QED
          BY <4>1, <5>1 DEF Entry
      <4>4. arrayStack' = Append(q, e)
        BY <2>1, <4>2, <4>3
      <4>5. d = Len(q)
        BY <2>4, <4>2
      <4>6. /\ Len(Append(q, e)) = d + 1 /\ Append(q, e)[d + 1] = e
            /\ \A i \in 1..d : Append(q, e)[i] = q[i]
        BY <4>5, AppendIs
      <4> QED
        BY <4>2, <4>3, <4>4, <4>6
    <3>3. ASSUME NEW i \in 1..d + 1
          PROVE  Len(arrayStack'[i].items) < arrayStack'[i].count
      <4>1. CASE i = d + 1
        BY <1>7, <3>2, <4>1
      <4>2. CASE i # d + 1
        <5>1. i \in 1..d
          BY <4>2
        <5> QED
          BY <2>3, <2>4, <3>2, <5>1 DEF Typed, StackTyped
      <4> QED
        BY <4>1, <4>2
    <3> QED
      BY <2>4, <3>1, <3>2, <3>3, LimitAssumption DEF StackTyped
  <2>17. pc' \in {"loop", "complete"} /\ (pc' = "complete" <=> completing' # Nothing)
    BY <2>3, <2>6 DEF Typed
  <2>18. pendingBulkLength' \in {NoBulk} \cup 0..maxBulkLength
    BY <2>3, <2>6
  <2> QED
    BY <2>6, <2>7, <2>8, <2>14, <2>15, <2>16, <2>17, <2>18, GoesOn
<1> QED
  BY <1>6, <1>7

\* It throws at a node that is no RESP, once that has arrived.
LEMMA ThrowIsRight ==
    ASSUME ReadingInv, error = "none", ParserInv', Throw, Rest, pc # "complete",
           UNCHANGED <<arrayStack, pendingBulkLength>>,
           NEW open, NEW v, NextIs(open, v), v.value = NotResp, v.to <= fed
    PROVE  ReadingInv'
<1>1. Typed /\ Returns /\ Emitted
  BY DEF ReadingInv
<1>2. /\ UNCHANGED <<totalBytesProcessed, lastCompletedOffset, stream, fed, resets, returned,
                     arrayStack, pendingBulkLength, completing>>
      /\ pc' = "idle" /\ error' = "protocol" /\ results' = <<>>
  BY DEF Throw, Rest
<1>3. Typed'
  <2>1. StackTyped'
    BY <1>1, <1>2 DEF Typed, StackTyped, Values
  <2>2. Values' = Values /\ results' \in Seq(Values')
    BY <1>2 DEF Values
  <2> QED
    BY <1>1, <1>2, <2>1, <2>2 DEF Typed
<1>4. Returns'
  BY <1>1, <1>2 DEF Returns, AreFrames, EndOf
<1>5. PICK at : at = At(open) /\ at.stack = arrayStack /\ at.stream = stream /\ at.done = done
  <2>1. At(open).stack = arrayStack /\ At(open).stream = stream /\ At(open).done = done
    BY DEF At
  <2> QED
    BY <2>1
<1>6. Path(at) /\ HasNode(at, Depth(at)) /\ v = Node(at, Depth(at))
  BY <1>5 DEF NextIs, Depth
<1>7. /\ Broken(stream.frames) /\ done = Len(stream.frames) - 1
      /\ Last(stream.frames).to = v.to
  BY <1>5, <1>6, LimitAssumption, PathEnds
<1>8. Refuted
  BY <1>1, <1>7 DEF Refuted, failsAt, Emitted
<1>9. Refuted'
  BY <1>2, <1>8 DEF Refuted, EndOf
<1> QED
  BY <1>2, <1>3, <1>4, <1>9 DEF ReadingInv

\* A header line that is none.
LEMMA ThrowsAtLine ==
    ASSUME ReadingInv, error = "none", ParserInv', MalformedLine
    PROVE  ReadingInv'
<1>1. /\ InHeader /\ CrlfOffsets # {} /\ Throw /\ Rest
      /\ UNCHANGED <<arrayStack, pendingBulkLength>> /\ pc # "complete"
  BY DEF MalformedLine, InHeader, InLoop
<1>2. PICK open : \E v : HeaderIs(open, v)
  BY <1>1, HeaderRead
<1>3. PICK v : HeaderIs(open, v)
  BY <1>2
<1>4. NextIs(open, v) /\ HasHeader(stream, v) /\ Line = Text(stream, v) /\ v.line + 2 <= fed
  BY <1>3 DEF HeaderIs
<1>5. v \in stream.nodes /\ v.depth = Len(arrayStack) /\ IsStream(stream)
  BY <1>4, InStream DEF ReadingInv, NextIs
<1>6. CASE Line = <<>>
  <2>1. v.value = NotResp /\ v.to = v.line + 2
    BY <1>4, <1>5, <1>6, LimitAssumption, BadLine
  <2> QED
    BY <1>1, <1>4, <2>1, ThrowIsRight
<1>7. CASE Line # <<>>
  <2>1. PICK type : type = prefix
    OBVIOUS
  <2>2. HasLine(type)
    BY <1>1, <1>7, <2>1 DEF HasLine
  <2>3. /\ Starts(stream, v, type) /\ (Counts(stream, v) <=> IsInteger(payload))
        /\ Number(stream, v) = parseInteger(payload)
    BY <1>3, <2>2, LineSays
  <2>4. \/ type \notin {"+", "-", ":", "$", "*"}
        \/ type \in {":", "$", "*"} /\ ~Counts(stream, v)
        \/ type \in {"$", "*"} /\ Counts(stream, v) /\ Number(stream, v) < -1
        \/ type = "$" /\ Counts(stream, v) /\ Number(stream, v) > maxBulkLength
        \/ type = "*" /\ Counts(stream, v) /\ Number(stream, v) > 0 /\ ~(v.depth < maxArrayDepth)
    BY <1>5, <1>7, <2>1, <2>3 DEF MalformedLine, DepthLeft
  <2>5. v.value = NotResp /\ v.to = v.line + 2
    BY <1>4, <1>5, <2>3, <2>4, LimitAssumption, BadLine
  <2> QED
    BY <1>1, <1>4, <2>5, ThrowIsRight
<1> QED
  BY <1>6, <1>7

\* A line that is too long.
LEMMA ThrowsAtLength ==
    ASSUME ReadingInv, error = "none", ParserInv', LineTooLong
    PROVE  ReadingInv'
<1>1. /\ pc # "complete" /\ readable > 0 /\ pendingBulkLength = NoBulk /\ CrlfOffsets = {}
      /\ readable > maxInlineLength /\ Throw /\ Rest
      /\ UNCHANGED <<arrayStack, pendingBulkLength>>
  BY DEF LineTooLong, InHeader, InLoop
<1>2. PICK open : \E v : NextIs(open, v)
  BY <1>1, NextNode
<1>3. PICK v : NextIs(open, v)
  BY <1>2
<1>4. v \in stream.nodes /\ v.from = position
  BY <1>1, <1>3 DEF NextIs
<1>5. ParserInv /\ IsStream(stream) /\ readable \in Nat /\ fed \in Nat
  BY InStream DEF ReadingInv
<1>6. ~HasHeader(stream, v)
  <2> SUFFICES ASSUME HasHeader(stream, v) PROVE FALSE
    OBVIOUS
  <2>1. readable <= maxInlineLength
    BY <1>1, <1>4, <1>5, FindsHeader
  <2> QED
    BY <1>1, <1>5, <2>1, LimitAssumption
<1>7. IsLongLine(stream, v)
  <2>1. IsNode(stream, v)
    BY <1>4, <1>5 DEF IsStream
  <2> QED
    BY <1>6, <2>1 DEF IsNode, IsLine, IsBulk, IsArray, IsBadLine, Starts
<1>8. v.value = NotResp
  BY <1>7 DEF IsLongLine
<1>9. v.to = fed - readable + maxInlineLength + 1
  BY <1>4, <1>5, <1>7, FindsNone
<1>10. v.to <= fed
  BY <1>1, <1>5, <1>9, LimitAssumption
<1> QED
  BY <1>1, <1>3, <1>8, <1>10, ThrowIsRight

\* The payload of a bulk string, once it has arrived.
LEMMA PayloadRead ==
    ASSUME ReadingInv, error = "none", InBulk, BulkArrived
    PROVE  \E open : \E v :
              /\ NextIs(open, v) /\ pendingBulkLength \in Nat
              /\ position + pendingBulkLength + 2 = v.to
              /\ v.to <= fed /\ pendingBulkLength + 2 \in 0..readable
              /\ v.value = IF Terminated THEN [bulk |-> readBytes(buffer, pendingBulkLength)]
                           ELSE NotResp
<1>1. /\ pc # "complete" /\ readable > 0 /\ pendingBulkLength # NoBulk
      /\ readable >= pendingBulkLength + 2
  BY DEF InBulk, InLoop, BulkArrived
<1>2. PICK open : \E v : NextIs(open, v)
  BY <1>1, NextNode
<1>3. PICK v : NextIs(open, v)
  BY <1>2
<1>4. /\ ParserInv /\ Typed /\ IsStream(stream)
      /\ stream.bytes \in Seq(Byte) /\ Len(stream.bytes) \in Nat
      /\ readable \in Nat /\ position \in Nat /\ fed \in Nat /\ fed = position + readable
      /\ fed <= Len(stream.bytes)
  BY InStream DEF ReadingInv
<1>5. PICK k \in Nat : k = pendingBulkLength
  BY <1>1, <1>4 DEF Typed
<1>6. /\ IsBulk(stream, v) /\ k = Number(stream, v) /\ position = v.line + 2
      /\ v \in stream.nodes
  BY <1>1, <1>3, <1>5 DEF NextIs
<1>7. v.line \in Nat
  BY <1>4, <1>6, LimitAssumption, HeaderShape DEF IsBulk, Starts, IsStream, IsNode
<1>8. /\ v.to = v.line + k + 4
      /\ v.value = IF EndsLine(stream, v.to - 1)
                   THEN [bulk |-> SubSeq(stream.bytes, v.line + 3, v.to - 2)] ELSE NotResp
  BY <1>6 DEF IsBulk
<1>9. v.to = position + k + 2 /\ v.to <= fed /\ k + 2 \in 0..readable /\ k \in 0..readable
  <2>1. PICK r \in Nat, x \in Nat, l \in Nat, f \in Nat :
          r = readable /\ x = position /\ l = v.line /\ f = fed
    BY <1>4, <1>7
  <2>2. r >= k + 2 /\ x = l + 2 /\ f = x + r /\ v.to = l + k + 4
    BY <1>1, <1>4, <1>5, <1>6, <1>8, <2>1
  <2>3. v.to = x + k + 2 /\ v.to <= f /\ k + 2 \in 0..r /\ k \in 0..r
    BY <2>2
  <2> QED
    BY <2>1, <2>3
<1>10. PICK n \in 0..Len(stream.bytes) : n = fed /\ Holds(buffer, stream.bytes, n)
  BY <1>4 DEF ParserInv
<1>11. readableBytes(buffer) = readable
  BY DEF readable
<1>12. Terminated <=> EndsLine(stream, v.to - 1)
  <2>1. k \in 0..readableBytes(buffer) - 1 /\ k + 1 \in 0..readableBytes(buffer) - 1
    BY <1>1, <1>4, <1>5, <1>11
  <2>2. /\ peekByteAt(buffer, k) = stream.bytes[n - readableBytes(buffer) + k + 1]
        /\ peekByteAt(buffer, k + 1) = stream.bytes[n - readableBytes(buffer) + (k + 1) + 1]
    BY <1>4, <1>10, <2>1, LooksAhead
  <2>3. /\ n - readableBytes(buffer) + k + 1 = v.to - 1
        /\ n - readableBytes(buffer) + (k + 1) + 1 = v.to - 1 + 1
    BY <1>4, <1>9, <1>10, <1>11
  <2> QED
    BY <1>5, <2>2, <2>3 DEF Terminated, EndsLine
<1>13. readBytes(buffer, k) = SubSeq(stream.bytes, v.line + 3, v.to - 2)
  <2>1. readBytes(buffer, k) = SubSeq(stream.bytes, position + 1, position + k)
    BY <1>4, <1>9, LineEnds
  <2>2. position + 1 = v.line + 3 /\ position + k = v.to - 2
    BY <1>4, <1>6, <1>7, <1>9
  <2> QED
    BY <2>1, <2>2
<1> QED
  BY <1>3, <1>5, <1>8, <1>9, <1>12, <1>13

\* A payload without its line end.
LEMMA ThrowsAtPayload ==
    ASSUME ReadingInv, error = "none", ParserInv', MalformedBulk
    PROVE  ReadingInv'
<1>1. /\ InBulk /\ BulkArrived /\ ~Terminated /\ Throw /\ Rest /\ pc # "complete"
      /\ UNCHANGED <<arrayStack, pendingBulkLength>>
  BY DEF MalformedBulk, InBulk, InLoop
<1>2. PICK open : \E v : NextIs(open, v) /\ v.to <= fed /\ v.value = NotResp
  BY <1>1, PayloadRead
<1>3. PICK v : NextIs(open, v) /\ v.to <= fed /\ v.value = NotResp
  BY <1>2
<1> QED
  BY <1>1, <1>3, ThrowIsRight

\* The payload is a value.
LEMMA ReadsPayload ==
    ASSUME ReadingInv, error = "none", ParserInv', ReadBulk
    PROVE  ReadingInv'
<1>1. /\ InBulk /\ BulkArrived /\ Terminated /\ Rest
      /\ buffer' = advance(buffer, pendingBulkLength + 2) /\ pendingBulkLength' = NoBulk
      /\ Complete([bulk |-> readBytes(buffer, pendingBulkLength)]) /\ UNCHANGED arrayStack
  BY DEF ReadBulk
<1>2. PICK value : value = [bulk |-> readBytes(buffer, pendingBulkLength)]
  OBVIOUS
<1>3. PICK open : \E v : /\ NextIs(open, v) /\ pendingBulkLength \in Nat
                         /\ position + pendingBulkLength + 2 = v.to
                         /\ pendingBulkLength + 2 \in 0..readable /\ v.value = value
  BY <1>1, <1>2, PayloadRead
<1>4. PICK v : /\ NextIs(open, v) /\ pendingBulkLength \in Nat
               /\ position + pendingBulkLength + 2 = v.to
               /\ pendingBulkLength + 2 \in 0..readable /\ v.value = value
  BY <1>3
<1>5. value # NotResp /\ value # Nothing
  BY <1>2, ValuesDiffer
<1>6. ParserInv /\ Typed /\ Emitted
  BY DEF ReadingInv
<1>7. /\ UNCHANGED <<totalBytesProcessed, lastCompletedOffset, stream, fed, resets,
                     returned, results, error, arrayStack>>
      /\ pc' = "complete" /\ completing' = value /\ fed' = fed
  BY <1>1, <1>2 DEF Rest, Complete
<1>8. position' = v.to /\ position < position' /\ position \in Nat /\ position' \in Nat
  <2>1. position' = position + (pendingBulkLength + 2) /\ position \in Nat /\ position' \in Nat
    BY <1>1, <1>4, <1>6, <1>7, Consumed, InStream
  <2> QED
    BY <1>4, <2>1
<1>9. lastCompletedOffset <= position' /\ lastCompletedOffset \in Nat
  <2>1. lastCompletedOffset \in Nat /\ lastCompletedOffset <= position
    BY <1>6, InStream DEF Emitted, Typed
  <2> QED
    BY <1>8, <2>1
<1>10. At(open)' = At(open)
  BY <1>7 DEF At, done
<1>11. PICK at : at = At(open) /\ at.stack = arrayStack
  <2>1. At(open).stack = arrayStack
    BY DEF At
  <2> QED
    BY <2>1
<1>12. Path(at) /\ HasNode(at, Depth(at)) /\ v = Node(at, Depth(at))
  BY <1>4, <1>11 DEF NextIs, Depth
<1>13. Behind(at, value, v.to)
  BY <1>4, <1>5, <1>12 DEF Behind
<1>14. Path(At(open))' /\ Place(open)'
  BY <1>1, <1>7, <1>8, <1>10, <1>11, <1>12, <1>13 DEF Place
<1>15. StackTyped'
  BY <1>6, <1>7 DEF Typed, StackTyped, Values
<1>16. arrayStack' # <<>> \/ pendingBulkLength' # NoBulk => lastCompletedOffset < position'
  <2>1. lastCompletedOffset \in Nat /\ lastCompletedOffset <= position
    BY <1>6, InStream DEF Emitted, Typed
  <2> QED
    BY <1>8, <2>1
<1> QED
  BY <1>1, <1>5, <1>7, <1>9, <1>14, <1>15, <1>16, GoesOn

\* When execute returns, the next node has not arrived.
LEMMA ReturnIsRight ==
    ASSUME ReadingInv, error = "none", ParserInv', pc = "loop", return,
           NEW open, Path(At(open)), Place(open),
           HasNode(At(open), Len(arrayStack)) => fed < Node(At(open), Len(arrayStack)).to
    PROVE  ReadingInv'
<1>1. ParserInv /\ Typed /\ Returns /\ Emitted
  BY DEF ReadingInv
<1>2. /\ UNCHANGED <<buffer, arrayStack, pendingBulkLength, totalBytesProcessed,
                     lastCompletedOffset, completing, error, stream, fed, resets>>
      /\ pc' = "idle" /\ returned' = returned \o results /\ results' = <<>>
  BY DEF return, parser
<1>3. PICK V : V = Values /\ V = Values'
  BY <1>2 DEF Values
<1>4. PICK q, r \in Seq(V) : q = returned /\ r = results
  BY <1>1, <1>3 DEF Typed
<1>5. PICK m, n \in Nat : m = Len(q) /\ n = Len(r)
  OBVIOUS
<1>6. /\ returned' \in Seq(V) /\ Len(returned') = m + n
      /\ \A i \in 1..m + n : returned'[i] = IF i <= m THEN q[i] ELSE r[i - m]
  BY <1>2, <1>4, <1>5
<1>7. done = m + n /\ done' = m + n
  BY <1>2, <1>4, <1>5, <1>6 DEF done
<1>8. Typed'
  <2>1. StackTyped'
    BY <1>1, <1>2 DEF Typed, StackTyped, Values
  <2>2. returned' \in Seq(Values') /\ results' \in Seq(Values')
    BY <1>2, <1>3, <1>6
  <2> QED
    BY <1>1, <1>2, <2>1, <2>2 DEF Typed
<1>9. Returns'
  <2>1. m + n <= Len(stream.frames) /\ EndOf(m + n) <= fed
    BY <1>1, <1>7 DEF Emitted, Typed
  <2>2. ASSUME NEW i \in 1..m + n
        PROVE  returned'[i] = stream.frames[i].value /\ returned'[i] # NotResp
    <3>1. CASE i <= m
      <4>1. i \in 1..Len(returned) /\ 0 + i = i /\ returned'[i] = returned[i]
        BY <1>4, <1>5, <1>6, <3>1
      <4> QED
        BY <1>1, <4>1 DEF Returns, AreFrames
    <3>2. CASE ~(i <= m)
      <4>1. /\ i - m \in 1..Len(results) /\ Len(returned) + (i - m) = i
            /\ returned'[i] = results[i - m]
        BY <1>4, <1>5, <1>6, <3>2
      <4> QED
        BY <1>1, <4>1 DEF Emitted, AreFrames
    <3> QED
      BY <3>1, <3>2
  <2>3. AreFrames(returned, 0)'
    <3>1. \A i \in 1..Len(returned') : 0 + i = i /\ i \in 1..m + n
      BY <1>6
    <3> QED
      BY <1>2, <2>2, <3>1 DEF AreFrames
  <2> QED
    BY <1>2, <1>6, <2>1, <2>3 DEF Returns, EndOf
<1>10. position' = position
  BY <1>2 DEF position, readable
<1>11. Emitted'
  <2>1. AreFrames(results, Len(returned))'
    BY <1>2 DEF AreFrames
  <2> QED
    BY <1>1, <1>2, <1>7, <1>10, <2>1 DEF Emitted, EndOf
<1>12. At(open)' = At(open)
  BY <1>2, <1>7 DEF At
<1>13. Path(At(open))' /\ Place(open)' /\ Waiting(open)'
  BY <1>2, <1>10, <1>12 DEF Place, Waiting
<1> QED
  BY <1>2, <1>8, <1>9, <1>11, <1>13 DEF ReadingInv, Follows

\* Everything is consumed.
LEMMA ReturnsAtEnd ==
    ASSUME ReadingInv, error = "none", ParserInv', Drained
    PROVE  ReadingInv'
<1>1. pc = "loop" /\ readable = 0 /\ return
  BY DEF Drained
<1>2. PICK open : Path(At(open)) /\ Place(open)
  BY DEF ReadingInv, Follows
<1>3. ParserInv /\ Typed /\ fed \in Nat /\ position \in Nat /\ fed = position
  BY <1>1, InStream DEF ReadingInv
<1>4. PICK d \in Nat, at \in {At(open)} :
          d = Len(arrayStack) /\ at = At(open) /\ d = Depth(at) /\ at.stream = stream
  <2>1. Len(arrayStack) \in Nat
    BY <1>3 DEF Typed, StackTyped
  <2>2. At(open).stack = arrayStack /\ At(open).stream = stream
    BY DEF At
  <2> QED
    BY <2>1, <2>2 DEF Depth
<1>5. ASSUME HasNode(at, d)
      PROVE  fed < Node(at, d).to
  <2>1. PICK v : v = Node(at, d)
    OBVIOUS
  <2>2. v \in stream.nodes /\ Shaped(stream, v) /\ v.from = Begins(at, d)
    BY <1>2, <1>4, <1>5, <2>1, LimitAssumption, LevelOfPath
  <2>3. v.from \in Nat /\ v.to \in Nat /\ v.from < v.to
        /\ (HasHeader(stream, v) => v.line \in Nat /\ v.line + 2 <= v.to)
    BY <2>2 DEF Shaped
  <2>4. CASE pendingBulkLength = NoBulk
    <3>1. position = v.from
      BY <1>1, <1>2, <1>4, <2>2, <2>4 DEF Place, AtNext
    <3> QED
      BY <1>3, <2>1, <2>3, <3>1
  <2>5. CASE pendingBulkLength # NoBulk
    <3>1. IsBulk(stream, v) /\ pendingBulkLength = Number(stream, v) /\ position = v.line + 2
      BY <1>1, <1>2, <1>4, <2>1, <2>5 DEF Place, AtPayload
    <3>2. HasHeader(stream, v) /\ v.to = v.line + Number(stream, v) + 4 /\ Number(stream, v) \in Nat
      BY <3>1, LimitAssumption DEF IsBulk, Starts
    <3>3. v.line \in Nat
      BY <2>3, <3>2
    <3>4. position < v.to
      BY <3>1, <3>2, <3>3
    <3> QED
      BY <1>3, <2>1, <3>4
  <2> QED
    BY <2>4, <2>5
<1>6. HasNode(At(open), Len(arrayStack)) => fed < Node(At(open), Len(arrayStack)).to
  BY <1>4, <1>5
<1> QED
  BY <1>1, <1>2, <1>6, ReturnIsRight

\* A payload has not arrived.
LEMMA ReturnsInPayload ==
    ASSUME ReadingInv, error = "none", ParserInv', AwaitBulk
    PROVE  ReadingInv'
<1>1. /\ pc = "loop" /\ readable > 0 /\ pendingBulkLength # NoBulk
      /\ ~(readable >= pendingBulkLength + 2) /\ return
  BY DEF AwaitBulk, InBulk, InLoop, BulkArrived
<1>2. PICK open : \E v : NextIs(open, v)
  BY <1>1, NextNode
<1>3. PICK v : NextIs(open, v)
  BY <1>2
<1>4. /\ ParserInv /\ Typed /\ IsStream(stream) /\ stream.bytes \in Seq(Byte)
      /\ readable \in Nat /\ position \in Nat /\ fed = position + readable
  BY InStream DEF ReadingInv
<1>5. PICK k \in Nat : k = pendingBulkLength
  BY <1>1, <1>4 DEF Typed
<1>6. /\ IsBulk(stream, v) /\ k = Number(stream, v) /\ position = v.line + 2
      /\ v \in stream.nodes
  BY <1>1, <1>3, <1>5 DEF NextIs
<1>7. v.line \in Nat /\ v.to = v.line + k + 4
  BY <1>4, <1>6, LimitAssumption, HeaderShape DEF IsBulk, Starts, IsStream, IsNode
<1>8. fed < v.to
  <2>1. PICK r \in Nat, l \in Nat : r = readable /\ l = v.line
    BY <1>4, <1>7
  <2>2. r < k + 2 /\ fed = l + 2 + r /\ v.to = l + k + 4
    BY <1>1, <1>4, <1>5, <1>6, <1>7, <2>1
  <2> QED
    BY <2>2
<1>9. /\ Path(At(open)) /\ Place(open)
      /\ HasNode(At(open), Len(arrayStack)) => fed < Node(At(open), Len(arrayStack)).to
  BY <1>3, <1>8 DEF NextIs
<1> QED
  BY <1>1, <1>9, ReturnIsRight

\* A line has not ended.
LEMMA ReturnsInLine ==
    ASSUME ReadingInv, error = "none", ParserInv', AwaitLine
    PROVE  ReadingInv'
<1>1. /\ pc = "loop" /\ readable > 0 /\ pendingBulkLength = NoBulk /\ CrlfOffsets = {}
      /\ readable <= maxInlineLength /\ return
  BY DEF AwaitLine, InHeader, InLoop
<1>2. PICK open : \E v : NextIs(open, v)
  BY <1>1, NextNode
<1>3. PICK v : NextIs(open, v)
  BY <1>2
<1>4. v \in stream.nodes /\ v.from = position /\ Shaped(stream, v)
  BY <1>1, <1>3 DEF NextIs
<1>5. ParserInv /\ IsStream(stream) /\ readable \in Nat /\ fed \in Nat
  BY InStream DEF ReadingInv
<1>6. fed < v.to
  <2>1. CASE HasHeader(stream, v)
    <3>1. fed < v.line + 2
      BY <1>1, <1>4, <1>5, <2>1, FindsHeader
    <3>2. v.line \in Nat /\ v.line + 2 <= v.to /\ v.to \in Nat
      BY <1>4, <2>1 DEF Shaped
    <3> QED
      BY <1>5, <3>1, <3>2
  <2>2. CASE ~HasHeader(stream, v)
    <3>1. IsNode(stream, v)
      BY <1>4, <1>5 DEF IsStream
    <3>2. IsLongLine(stream, v)
      BY <2>2, <3>1 DEF IsNode, IsLine, IsBulk, IsArray, IsBadLine, Starts
    <3>3. v.to = fed - readable + maxInlineLength + 1
      BY <1>4, <1>5, <3>2, FindsNone
    <3> QED
      BY <1>1, <1>5, <3>3, LimitAssumption
  <2> QED
    BY <2>1, <2>2
<1>7. /\ Path(At(open)) /\ Place(open)
      /\ HasNode(At(open), Len(arrayStack)) => fed < Node(At(open), Len(arrayStack)).to
  BY <1>3, <1>6 DEF NextIs
<1> QED
  BY <1>1, <1>7, ReturnIsRight

\* A value that is complete is that of the node behind which the parser is.
LEMMA ValueComplete ==
    ASSUME ReadingInv, error = "none", pc = "complete"
    PROVE  \E open : /\ Path(At(open)) /\ pendingBulkLength = NoBulk
                     /\ Behind(At(open), completing, position)
                     /\ completing \in Values /\ completing # NotResp /\ completing # Nothing
<1>1. Typed /\ Follows
  BY DEF ReadingInv
<1>2. PICK open : Path(At(open)) /\ Place(open)
  BY <1>1 DEF Follows
<1>3. pendingBulkLength = NoBulk /\ Behind(At(open), completing, position)
  BY <1>2 DEF Place
<1>4. PICK at \in {At(open)} : at = At(open) /\ at.stream = stream /\ Depth(at) \in 0..Depth(at)
  <2>1. At(open).stream = stream
    BY DEF At
  <2>2. Depth(At(open)) \in Nat
    BY <1>2 DEF Path
  <2> QED
    BY <2>1, <2>2
<1>5. HasNode(at, Depth(at)) /\ completing = Node(at, Depth(at)).value /\ completing # NotResp
  BY <1>3, <1>4 DEF Behind
<1>6. Node(at, Depth(at)) \in stream.nodes
  BY <1>2, <1>4, <1>5, LimitAssumption, LevelOfPath
<1>7. completing \in Values
  BY <1>5, <1>6 DEF Values
<1> QED
  BY <1>1, <1>2, <1>3, <1>5, <1>7 DEF Typed

\* A value within an array is put into it; a full array is a value itself.
LEMMA AddsItem ==
    ASSUME ReadingInv, error = "none", ParserInv', AddItem
    PROVE  ReadingInv'
<1>1. /\ pc = "complete" /\ arrayStack # <<>>
      /\ UNCHANGED <<buffer, pendingBulkLength, results, returned, error, totalBytesProcessed,
                     lastCompletedOffset, stream, fed, resets>>
  BY DEF AddItem, Rest
<1>2. ParserInv /\ Typed /\ Emitted /\ StackTyped
  BY DEF ReadingInv, Typed
<1>3. PICK open : /\ Path(At(open)) /\ pendingBulkLength = NoBulk
                  /\ Behind(At(open), completing, position)
                  /\ completing \in Values /\ completing # NotResp /\ completing # Nothing
  BY <1>1, ValueComplete
<1>4. PICK V, value, q : V = Values /\ V = Values' /\ value = completing /\ q = arrayStack
  BY <1>1 DEF Values
<1>5. PICK d \in Nat : d = Len(q) /\ d > 0 /\ d <= maxArrayDepth
  <2>1. q \in Seq(Entry(V)) /\ q # <<>> /\ Len(q) <= maxArrayDepth
    BY <1>1, <1>2, <1>4 DEF StackTyped
  <2>2. Len(q) \in Nat /\ Len(q) # 0
    BY <2>1
  <2> QED
    BY <2>1, <2>2
<1>6. PICK at \in {At(open)} :
        /\ at = At(open) /\ at.stack = q /\ at.stream = stream /\ at.done = done
        /\ at.open = open /\ d = Depth(at)
  <2>1. At(open).stack = arrayStack /\ At(open).stream = stream /\ At(open).done = done
        /\ At(open).open = open
    BY DEF At
  <2> QED
    BY <1>4, <1>5, <2>1 DEF Depth
<1>7. /\ Path(at) /\ value \in V /\ Behind(at, value, position)
      /\ at.stack \in Seq(Entry(V))
  BY <1>2, <1>3, <1>4, <1>6 DEF StackTyped
<1>8. PICK filled : filled = Append(at.stack[d].items, value)
  OBVIOUS
<1>9. Top = at.stack[d] /\ Filled = filled
  <2>1. Top = at.stack[d]
    BY <1>4, <1>5, <1>6 DEF Top, Last
  <2> QED
    BY <1>4, <1>8, <2>1 DEF Filled
<1>10. position' = position /\ position \in Nat /\ lastCompletedOffset \in Nat
       /\ lastCompletedOffset < position /\ lastCompletedOffset <= position
  <2>1. position' = position
    BY <1>1 DEF position, readable
  <2>2. position \in Nat /\ lastCompletedOffset \in Nat /\ lastCompletedOffset < position
    BY <1>1, <1>2, InStream DEF Emitted, Typed
  <2> QED
    BY <2>1, <2>2
<1>11. done' = done
  BY <1>1 DEF done
<1>12. pendingBulkLength' \in {NoBulk} \cup 0..maxBulkLength /\ pendingBulkLength' = NoBulk
  BY <1>1, <1>3
<1>13. \A i \in 1..d : Len(q[i].items) < q[i].count
  BY <1>2, <1>4, <1>5 DEF StackTyped
<1>14. CASE Len(filled) = at.stack[d].count
  <2>1. arrayStack' = Front(q) /\ completing' = [array |-> filled] /\ pc' = "complete"
    BY <1>1, <1>4, <1>9, <1>14 DEF AddItem
  <2>2. PICK next : next = [k \in 1..d - 1 |-> at.open[k]]
    OBVIOUS
  <2>3. PICK b \in {At(next)'} : /\ b = At(next)' /\ b.stream = at.stream /\ b.done = at.done
                                 /\ b.open = next /\ b.stack = Front(at.stack)
    <3>1. /\ At(next)'.stream = stream' /\ At(next)'.done = done'
          /\ At(next)'.open = next /\ At(next)'.stack = arrayStack'
      BY DEF At
    <3> QED
      BY <1>1, <1>6, <1>11, <2>1, <3>1
  <2>4. Path(b) /\ Behind(b, [array |-> filled], position) /\ b.stack \in Seq(Entry(V))
    <3>1. d = Depth(at) /\ d > 0 /\ Path(at) /\ at.stack \in Seq(Entry(V))
          /\ value \in V /\ Behind(at, value, position)
      BY <1>5, <1>6, <1>7
    <3>2. Len(Append(at.stack[d].items, value)) = at.stack[d].count
      BY <1>8, <1>14
    <3>3. /\ b.stream = at.stream /\ b.done = at.done /\ b.stack = Front(at.stack)
          /\ b.open = [k \in 1..d - 1 |-> at.open[k]]
      BY <2>2, <2>3
    <3>4. /\ Path(b) /\ Behind(b, [array |-> Append(at.stack[d].items, value)], position)
          /\ b.stack \in Seq(Entry(V))
      BY <3>1, <3>2, <3>3, LimitAssumption, PassArray
    <3> QED
      BY <1>8, <3>4
  <2>5. [array |-> filled] # Nothing
    BY ValuesDiffer
  <2>6. Path(At(next))' /\ Place(next)'
    <3>1. Path(At(next))'
      BY <2>3, <2>4
    <3>2. Behind(At(next)', completing', position')
      BY <1>10, <2>1, <2>3, <2>4
    <3> QED
      BY <1>12, <2>1, <3>1, <3>2 DEF Place
  <2>7. StackTyped'
    <3>1. q \in Seq(Entry(V))
      BY <1>6, <1>7
    <3>2. /\ Front(q) \in Seq(Entry(V)) /\ Len(Front(q)) = d - 1
          /\ \A k \in 1..d - 1 : Front(q)[k] = q[k]
      BY <1>5, <3>1, FrontIs
    <3>3. ASSUME NEW i \in 1..d - 1
          PROVE  Len(Front(q)[i].items) < Front(q)[i].count
      BY <1>13, <3>2
    <3>4. d - 1 <= maxArrayDepth
      BY <1>5, LimitAssumption
    <3> QED
      BY <1>4, <2>1, <3>2, <3>3, <3>4 DEF StackTyped
  <2> QED
    BY <1>1, <1>10, <1>12, <2>1, <2>5, <2>6, <2>7, GoesOn
<1>15. CASE Len(filled) # at.stack[d].count
  <2>1. /\ arrayStack' = [q EXCEPT ![d].items = filled]
        /\ completing' = Nothing /\ pc' = "loop"
    BY <1>1, <1>4, <1>5, <1>9, <1>15 DEF AddItem
  <2>2. PICK b \in {At(open)'} : /\ b = At(open)' /\ b.stream = at.stream /\ b.done = at.done
                                 /\ b.open = at.open
                                 /\ b.stack = [at.stack EXCEPT ![d].items = filled]
    <3>1. /\ At(open)'.stream = stream' /\ At(open)'.done = done'
          /\ At(open)'.open = open /\ At(open)'.stack = arrayStack'
      BY DEF At
    <3> QED
      BY <1>1, <1>6, <1>11, <2>1, <3>1
  <2>3. /\ Path(b) /\ AtNext(b, position) /\ b.stack \in Seq(Entry(V))
        /\ Len(filled) < at.stack[d].count
    <3>1. d = Depth(at) /\ d > 0 /\ Path(at) /\ at.stack \in Seq(Entry(V))
          /\ value \in V /\ Behind(at, value, position)
      BY <1>5, <1>6, <1>7
    <3>2. Len(Append(at.stack[d].items, value)) # at.stack[d].count
      BY <1>8, <1>15
    <3>3. /\ b.stream = at.stream /\ b.done = at.done /\ b.open = at.open
          /\ b.stack = WithItems(at.stack, d, Append(at.stack[d].items, value))
      BY <1>8, <2>2 DEF WithItems
    <3>4. /\ Path(b) /\ AtNext(b, position) /\ b.stack \in Seq(Entry(V))
          /\ Len(Append(at.stack[d].items, value)) < at.stack[d].count
      BY <3>1, <3>2, <3>3, LimitAssumption, PassItem
    <3> QED
      BY <1>8, <3>4
  <2>4. Path(At(open))' /\ Place(open)'
    <3>1. Path(At(open))'
      BY <2>2, <2>3
    <3>2. AtNext(At(open)', position')
      BY <1>10, <2>2, <2>3
    <3> QED
      BY <1>12, <2>1, <3>1, <3>2 DEF Place
  <2>5. StackTyped'
    <3>1. q \in Seq(Entry(V))
      BY <1>6, <1>7
    <3>2. PICK S : S = Entry(V) /\ q \in Seq(S) /\ q[d] \in S
      BY <1>5, <3>1, LastIn
    <3>3. PICK g \in Seq(S) : g = [q EXCEPT ![d].items = filled]
      BY <1>6, <2>2, <2>3, <3>2
    <3>4. Len(g) = d /\ g[d].items = filled /\ g[d].count = q[d].count
          /\ \A k \in 1..d - 1 : g[k] = q[k]
      <4>1. g = [q EXCEPT ![d] = [q[d] EXCEPT !.items = filled]]
        BY <3>3
      <4>2. q[d] \in [count : Int, items : Seq(V)]
        BY <3>2 DEF Entry
      <4>3. DOMAIN q = 1..d
        BY <1>5, <3>2
      <4>4. DOMAIN g = 1..d /\ g[d] = [q[d] EXCEPT !.items = filled]
            /\ \A k \in 1..d - 1 : g[k] = q[k]
        BY <1>5, <4>1, <4>3
      <4> QED
        BY <1>5, <4>2, <4>4
    <3>5. ASSUME NEW i \in 1..d
          PROVE  Len(g[i].items) < g[i].count
      <4>1. CASE i = d
        BY <1>6, <2>3, <3>4, <4>1
      <4>2. CASE i # d
        <5>1. i \in 1..d - 1
          BY <4>2
        <5> QED
          BY <1>13, <3>4, <5>1
      <4> QED
        BY <4>1, <4>2
    <3> QED
      BY <1>4, <1>5, <2>1, <3>2, <3>3, <3>4, <3>5 DEF StackTyped
  <2> QED
    BY <1>1, <1>10, <1>12, <2>1, <2>4, <2>5, GoesOn
<1> QED
  BY <1>14, <1>15

\* A value outside of arrays is a frame.
LEMMA EmitsFrame ==
    ASSUME ReadingInv, error = "none", ParserInv', emitCompleted
    PROVE  ReadingInv'
<1>1. /\ pc = "complete" /\ arrayStack = <<>>
      /\ results' = Append(results, completing)
      /\ lastCompletedOffset' = totalBytesProcessed - readable
      /\ completing' = Nothing /\ pc' = "loop"
      /\ UNCHANGED <<buffer, arrayStack, pendingBulkLength, totalBytesProcessed, returned, error,
                     stream, fed, resets>>
  BY DEF emitCompleted, CompletedAt
<1>2. ParserInv /\ Typed /\ Returns /\ Emitted
  BY DEF ReadingInv
<1>3. PICK open : /\ Path(At(open)) /\ pendingBulkLength = NoBulk
                  /\ Behind(At(open), completing, position)
                  /\ completing \in Values /\ completing # NotResp /\ completing # Nothing
  BY <1>1, ValueComplete
<1>4. PICK V, value : V = Values /\ V = Values' /\ value = completing
  BY <1>1 DEF Values
<1>5. PICK r \in Seq(V) : r = results
  BY <1>2, <1>4 DEF Typed
<1>6. PICK m, n \in Nat : m = Len(returned) /\ n = Len(r)
  <2>1. Len(returned) \in Nat /\ Len(r) \in Nat
    BY <1>2 DEF Typed
  <2> QED
    BY <2>1
<1>7. /\ Append(r, value) \in Seq(V) /\ Len(Append(r, value)) = n + 1
      /\ Append(r, value)[n + 1] = value /\ \A i \in 1..n : Append(r, value)[i] = r[i]
  <2>1. value \in V
    BY <1>3, <1>4
  <2> QED
    BY <1>6, <2>1, AppendIs
<1>8. results' = Append(r, value)
  BY <1>1, <1>4, <1>5
<1>9. done = m + n /\ done' = m + n + 1
  <2>1. done = m + n
    BY <1>5, <1>6 DEF done
  <2>2. done' = m + (n + 1)
    BY <1>1, <1>6, <1>7, <1>8 DEF done
  <2> QED
    BY <2>1, <2>2
<1>10. PICK at \in {At(open)} :
        /\ at = At(open) /\ at.stack = <<>> /\ at.stream = stream /\ at.done = m + n
        /\ at.open = open /\ Depth(at) = 0
  <2>1. At(open).stack = arrayStack /\ At(open).stream = stream /\ At(open).done = done
        /\ At(open).open = open
    BY DEF At
  <2> QED
    BY <1>1, <1>9, <2>1 DEF Depth
<1>11. Path(at) /\ Behind(at, value, position)
  BY <1>3, <1>4, <1>10
<1>12. HasNode(at, 0) /\ position = Node(at, 0).to /\ value = Node(at, 0).value /\ value # NotResp
  BY <1>10, <1>11 DEF Behind
<1>13. /\ m + n \in 0..Len(stream.frames) - 1 /\ Len(stream.frames) \in Nat
       /\ position = stream.frames[m + n + 1].to /\ value = stream.frames[m + n + 1].value
  <2>1. Row(at, 0) = stream.frames /\ Passed(at, 0) = m + n
    BY <1>10 DEF Row, Passed
  <2>2. Len(Row(at, 0)) \in Nat
    BY <1>10, <1>11, <1>12, LimitAssumption, LevelOfPath
  <2> QED
    BY <1>12, <2>1, <2>2 DEF HasNode, Node
<1>14. position \in Nat /\ fed \in Nat /\ position <= fed /\ position' = position
       /\ lastCompletedOffset' = position
  <2>1. position \in Nat /\ fed \in Nat /\ readable \in Nat /\ fed = position + readable
        /\ totalBytesProcessed = fed
    BY <1>2, InStream DEF Typed
  <2>2. position' = position
    BY <1>1 DEF position, readable
  <2>3. lastCompletedOffset' = position
    BY <1>1, <2>1 DEF position
  <2> QED
    BY <2>1, <2>2, <2>3
<1>15. PICK b \in {At(open)'} : /\ b = At(open)' /\ b.stream = at.stream /\ b.stack = at.stack
                                /\ b.open = at.open /\ b.done = at.done + 1
  <2>1. /\ At(open)'.stream = stream' /\ At(open)'.done = done'
        /\ At(open)'.open = open /\ At(open)'.stack = arrayStack'
    BY DEF At
  <2> QED
    BY <1>1, <1>9, <1>10, <2>1
<1>16. Path(b) /\ AtNext(b, position)
  BY <1>10, <1>11, <1>15, LimitAssumption, PassFrame
<1>17. Path(At(open))' /\ Place(open)' /\ Waiting(open)'
  <2>1. Path(At(open))'
    BY <1>15, <1>16
  <2>2. AtNext(At(open)', position')
    BY <1>14, <1>15, <1>16
  <2> QED
    BY <1>1, <1>3, <2>1, <2>2 DEF Place, Waiting
<1>18. Typed'
  <2>1. StackTyped'
    BY <1>1, <1>2 DEF Typed, StackTyped, Values
  <2>2. returned' \in Seq(Values') /\ results' \in Seq(Values')
    BY <1>1, <1>2, <1>4, <1>7, <1>8 DEF Typed
  <2>3. lastCompletedOffset' \in 0..fed
    BY <1>14
  <2> QED
    BY <1>1, <1>2, <2>1, <2>2, <2>3 DEF Typed
<1>19. Returns'
  BY <1>1, <1>2 DEF Returns, AreFrames, EndOf
<1>20. Emitted'
  <2>1. ASSUME NEW i \in 1..n + 1
        PROVE  results'[i] = stream.frames[m + i].value /\ results'[i] # NotResp
    <3>1. CASE i = n + 1
      <4>1. m + i = m + n + 1 /\ results'[i] = value
        BY <1>7, <1>8, <3>1
      <4> QED
        BY <1>12, <1>13, <4>1
    <3>2. CASE i # n + 1
      <4>1. i \in 1..n
        BY <3>2
      <4>2. results'[i] = results[i]
        BY <1>5, <1>7, <1>8, <4>1
      <4> QED
        BY <1>2, <1>5, <1>6, <4>1, <4>2 DEF Emitted, AreFrames
    <3> QED
      BY <3>1, <3>2
  <2>2. AreFrames(results, Len(returned))'
    BY <1>1, <1>6, <2>1, <1>7, <1>8 DEF AreFrames
  <2>3. m + n + 1 <= Len(stream.frames) /\ m + n + 1 # 0
    BY <1>13
  <2>4. EndOf(done)' = position
    BY <1>1, <1>9, <1>13, <2>3 DEF EndOf
  <2> QED
    BY <1>1, <1>3, <1>9, <1>14, <2>2, <2>3, <2>4 DEF Emitted
<1> QED
  BY <1>1, <1>17, <1>18, <1>19, <1>20 DEF ReadingInv, Follows

\* At the start of a stream nothing is open, and its first node has not arrived.
LEMMA PathStarts ==
    ASSUME NEW at, IsStream(at.stream), LimitAssumption, at.stack = <<>>, at.done = 0,
           at.open = [k \in 1..0 |-> k]
    PROVE  /\ Path(at) /\ AtNext(at, 0) /\ Depth(at) = 0
           /\ HasNode(at, 0) => 0 < Node(at, 0).to
<1>1. Depth(at) = 0
  BY DEF Depth
<1>2. Len(at.stream.frames) \in Nat
  BY FramesInOrder
<1>3. Path(at)
  BY <1>1, <1>2 DEF Path
<1>4. AtNext(at, 0)
  BY <1>1 DEF AtNext, Begins, Passed, FrontOf
<1>5. ASSUME HasNode(at, 0)
      PROVE  0 < Node(at, 0).to
  <2>1. Shaped(at.stream, Node(at, 0))
    BY <1>1, <1>3, <1>5, LevelOfPath
  <2> QED
    BY <2>1 DEF Shaped
<1> QED
  BY <1>1, <1>3, <1>4, <1>5

\* At the start of a stream, the first one or one behind a reset.
Fresh ==
    /\ ParserInv /\ arrayStack = <<>> /\ pendingBulkLength = NoBulk
    /\ totalBytesProcessed = 0 /\ lastCompletedOffset = 0
    /\ pc = "idle" /\ completing = Nothing /\ results = <<>> /\ returned = <<>>
    /\ error = "none" /\ fed = 0 /\ readable = 0 /\ resets \in 0..MaxResets

\* A new parser is one at the start of its stream; so is one that was reset.
LEMMA FreshIsRight == Fresh => ReadingInv
<1> SUFFICES ASSUME Fresh PROVE ReadingInv
  OBVIOUS
<1>1. ParserInv /\ IsStream(stream) /\ position = 0
  BY InStream DEF Fresh
<1>2. PICK frames \in {stream.frames} : frames = stream.frames /\ Len(frames) \in Nat
  BY <1>1, FramesInOrder
<1>3. done = 0
  BY DEF Fresh, done
<1>4. Typed
  <2>1. <<>> \in Seq(Entry(Values)) /\ <<>> \in Seq(Values)
    OBVIOUS
  <2>2. StackTyped
    BY <2>1, LimitAssumption DEF Fresh, StackTyped
  <2> QED
    BY <2>1, <2>2 DEF Fresh, Typed
<1>5. Returns
  BY <1>2 DEF Fresh, Returns, AreFrames, EndOf
<1>6. Emitted
  BY <1>1, <1>2, <1>3 DEF Fresh, Emitted, AreFrames, EndOf, NoBulk
<1>7. PICK open : open = [k \in 1..0 |-> k]
  OBVIOUS
<1>8. PICK at \in {At(open)} :
        at = At(open) /\ at.stream = stream /\ at.stack = <<>> /\ at.done = 0 /\ at.open = open
  BY <1>3 DEF Fresh, At
<1>9. /\ Path(at) /\ AtNext(at, 0) /\ Depth(at) = 0
      /\ HasNode(at, 0) => 0 < Node(at, 0).to
  BY <1>1, <1>7, <1>8, LimitAssumption, PathStarts
<1>10. Path(At(open)) /\ Place(open) /\ Waiting(open)
  <2>1. Len(arrayStack) = 0 /\ fed = 0 /\ pc = "idle" /\ pendingBulkLength = NoBulk
    BY DEF Fresh
  <2> QED
    BY <1>1, <1>8, <1>9, <2>1 DEF Place, Waiting
<1> QED
  BY <1>1, <1>4, <1>5, <1>6, <1>10 DEF ReadingInv, Follows, Fresh

\* The invariant holds at the start.
LEMMA ReadingStarts ==
    ASSUME Assumptions, ResetAssumption, Init
    PROVE  ReadingInv
<1>1. ParserInv
  BY ParserStarts
<1>2. readable = 0
  BY DEF Init, EmptyBuffer, readable, readableBytes
<1>3. Fresh
  BY <1>1, <1>2 DEF Fresh, Init, ResetAssumption
<1> QED
  BY <1>3, FreshIsRight

\* A reset: whatever was the state of the call, it is over.
LEMMA ReadingRestarts ==
    ASSUME ReadingInv, ResetAssumption, ParserInv', reset
    PROVE  ReadingInv'
<1>1. Typed
  BY DEF ReadingInv
<1>2. completing' = Nothing /\ results' = <<>> /\ pc' = "idle" /\ resets' \in 0..MaxResets
  BY <1>1 DEF reset, Typed, ResetAssumption
<1>3. readable' = 0
  BY DEF reset, clear, readable, readableBytes
<1>4. Fresh'
  BY <1>2, <1>3 DEF Fresh, reset
<1>5. (Fresh => ReadingInv)'
  BY FreshIsRight, PTL
<1> QED
  BY <1>4, <1>5

\* A chunk extends what is unread, or is more than there may be.
LEMMA ReadingFeeds ==
    ASSUME ReadingInv, ParserInv', NEW n \in 1..Len(stream.bytes), executeChunk(n)
    PROVE  ReadingInv'
<1> DEFINE chunk == SubSeq(stream.bytes, fed + 1, fed + n)
<1>1. /\ pc = "idle" /\ error = "none" /\ fed' = fed + n /\ fed + n <= Len(stream.bytes)
      /\ totalBytesProcessed' = totalBytesProcessed + n /\ results' = <<>>
      /\ UNCHANGED <<arrayStack, pendingBulkLength, lastCompletedOffset, completing, returned,
                     stream, resets>>
  BY DEF executeChunk
<1>2. ParserInv /\ Typed /\ Returns /\ Emitted /\ Follows
  BY <1>1 DEF ReadingInv
<1>3. /\ stream.bytes \in Seq(Byte) /\ Len(stream.bytes) \in Nat /\ fed \in Nat /\ n \in Nat
      /\ readable \in Nat /\ position \in Nat /\ fed = position + readable
  BY <1>1, <1>2, InStream
<1>4. results = <<>> /\ done' = done
  BY <1>1, <1>2 DEF Typed, done
<1>5. ASSUME pc' \in {"idle", "loop"}, error' \in {"none", "overflow"},
             error' = "none" \/ pc' = "idle"
      PROVE  Typed'
  <2>1. StackTyped'
    BY <1>1, <1>2 DEF Typed, StackTyped, Values
  <2>2. results' \in Seq(Values') /\ returned' \in Seq(Values')
    BY <1>1, <1>2 DEF Typed, Values
  <2>3. totalBytesProcessed' = fed' /\ lastCompletedOffset' \in 0..fed'
    BY <1>1, <1>2, <1>3 DEF Typed
  <2>4. completing' = Nothing /\ pc' # "complete"
    BY <1>1, <1>2, <1>5 DEF Typed
  <2> QED
    BY <1>1, <1>2, <1>5, <2>1, <2>2, <2>3, <2>4 DEF Typed
<1>6. Returns'
  <2>1. AreFrames(returned, 0)' /\ EndOf(Len(returned))' = EndOf(Len(returned))
    BY <1>1, <1>2 DEF Returns, AreFrames, EndOf
  <2>2. EndOf(Len(returned)) <= fed'
    <3>1. done = Len(returned) /\ EndOf(done) = lastCompletedOffset
      BY <1>2, <1>4 DEF done, Typed, Emitted
    <3> QED
      BY <1>1, <1>2, <1>3, <3>1 DEF Typed
  <2> QED
    BY <1>1, <1>2, <2>1, <2>2 DEF Returns
<1>7. CASE Overflows(buffer, chunk)
  <2>1. error' = "overflow" /\ pc' = "idle"
    BY <1>1, <1>7 DEF executeChunk
  <2> QED
    BY <1>5, <1>6, <2>1 DEF ReadingInv
<1>8. CASE ~Overflows(buffer, chunk)
  <2>1. error' = "none" /\ pc' = "loop" /\ buffer' = append(buffer, chunk)
    BY <1>1, <1>8 DEF executeChunk
  <2>2. position' = position
    <3>1. chunk \in Seq(Byte) /\ Len(chunk) = n
      BY <1>1, <1>3
    <3>2. readableBytes(append(buffer, chunk)) = readableBytes(buffer) + n
      <4> HIDE DEF chunk
      <4> QED
        BY <1>2, <1>8, <3>1, AppendExtends DEF ParserInv
    <3>3. readable' = readableBytes(buffer') /\ readable = readableBytes(buffer)
      BY DEF readable, readableBytes
    <3>4. readable' = readable + n
      BY <2>1, <3>2, <3>3
    <3>5. position' = fed' - readable' /\ position = fed - readable
      BY DEF position
    <3>6. PICK f \in Nat, r \in Nat : f = fed /\ r = readable
      BY <1>3
    <3>7. fed' = f + n /\ readable' = r + n /\ position = f - r
      BY <1>1, <3>4, <3>5, <3>6
    <3>8. position' = (f + n) - (r + n)
      BY <3>5, <3>7
    <3> QED
      BY <3>7, <3>8
  <2>3. Emitted'
    <3>1. AreFrames(results, Len(returned))'
      BY <1>1 DEF AreFrames
    <3>2. EndOf(done)' = EndOf(done)
      BY <1>1, <1>4 DEF EndOf
    <3> QED
      BY <1>1, <1>2, <1>4, <2>2, <3>1, <3>2 DEF Emitted
  <2>4. PICK open : Path(At(open)) /\ Place(open)
    BY <1>2 DEF Follows
  <2>5. At(open)' = At(open)
    BY <1>1, <1>4 DEF At
  <2>6. Path(At(open))' /\ Place(open)' /\ Waiting(open)'
    BY <1>1, <2>1, <2>2, <2>4, <2>5 DEF Place, Waiting
  <2> QED
    BY <1>5, <1>6, <2>1, <2>3, <2>6 DEF ReadingInv, Follows
<1> QED
  BY <1>7, <1>8

\* Nothing changes.
LEMMA ReadingRests ==
    ASSUME ReadingInv, ParserInv', UNCHANGED vars
    PROVE  ReadingInv'
<1>1. /\ UNCHANGED <<buffer, arrayStack, pendingBulkLength>>
      /\ UNCHANGED <<totalBytesProcessed, lastCompletedOffset>>
      /\ UNCHANGED <<pc, completing, results, returned, error, stream, fed, resets>>
  BY DEF vars, parser, call
<1>2. done' = done /\ position' = position
  BY <1>1 DEF done, position, readable
<1>3. Typed'
  BY <1>1 DEF ReadingInv, Typed, StackTyped, Values
<1>4. Returns'
  BY <1>1 DEF ReadingInv, Returns, AreFrames, EndOf
<1>5. error = "none" => Emitted'
  BY <1>1, <1>2 DEF ReadingInv, Emitted, AreFrames, EndOf
<1>6. ASSUME error = "none"
      PROVE  Follows'
  <2>1. PICK open : Path(At(open)) /\ Place(open) /\ Waiting(open)
    BY <1>6 DEF ReadingInv, Follows
  <2>2. At(open)' = At(open)
    BY <1>1, <1>2 DEF At
  <2>3. Path(At(open))' /\ Place(open)' /\ Waiting(open)'
    BY <1>1, <1>2, <2>1, <2>2 DEF Place, Waiting
  <2> QED
    BY <2>3 DEF Follows
<1>7. error = "protocol" => Refuted'
  BY <1>1 DEF ReadingInv, Refuted, EndOf
<1> QED
  BY <1>1, <1>3, <1>4, <1>5, <1>6, <1>7 DEF ReadingInv

\* Every step keeps the parser in the reading of its stream.
LEMMA ReadingSteps ==
    ASSUME Assumptions, ResetAssumption, ReadingInv, [Next]_vars
    PROVE  ReadingInv'
<1>1. ParserInv /\ ParserInv'
  <2>1. ParserInv
    BY DEF ReadingInv
  <2> QED
    BY <2>1, ParserSteps
<1>2. CASE UNCHANGED vars
  BY <1>1, <1>2, ReadingRests
<1>3. CASE \E n \in 1..Len(stream.bytes) : executeChunk(n)
  BY <1>1, <1>3, ReadingFeeds
<1>4. CASE reset
  BY <1>1, <1>4, ReadingRestarts
<1>5. CASE execute
  <2>1. error = "none"
    <3>1. pc # "idle"
      BY <1>5 DEF execute, Header, SimpleLine, IntegerLine, BulkLine, ArrayLine, HasLine, InHeader,
                  InLoop, Waits, Drained, AwaitBulk, AwaitLine, InBulk, Throws, MalformedBulk,
                  LineTooLong, MalformedLine, ReadBulk, AddItem, emitCompleted
    <3> QED
      BY <3>1 DEF ReadingInv, Typed
  <2>2. CASE SimpleLine
    BY <1>1, <2>1, <2>2, ReadsSimple
  <2>3. CASE IntegerLine
    BY <1>1, <2>1, <2>3, ReadsInteger
  <2>4. CASE BulkLine
    BY <1>1, <2>1, <2>4, ReadsBulkLine
  <2>5. CASE ArrayLine
    BY <1>1, <2>1, <2>5, ReadsArrayLine
  <2>6. CASE Drained
    BY <1>1, <2>1, <2>6, ReturnsAtEnd
  <2>7. CASE AwaitBulk
    BY <1>1, <2>1, <2>7, ReturnsInPayload
  <2>8. CASE AwaitLine
    BY <1>1, <2>1, <2>8, ReturnsInLine
  <2>9. CASE MalformedBulk
    BY <1>1, <2>1, <2>9, ThrowsAtPayload
  <2>10. CASE LineTooLong
    BY <1>1, <2>1, <2>10, ThrowsAtLength
  <2>11. CASE MalformedLine
    BY <1>1, <2>1, <2>11, ThrowsAtLine
  <2>12. CASE ReadBulk
    BY <1>1, <2>1, <2>12, ReadsPayload
  <2>13. CASE AddItem
    BY <1>1, <2>1, <2>13, AddsItem
  <2>14. CASE emitCompleted
    BY <1>1, <2>1, <2>14, EmitsFrame
  <2> QED
    BY <1>5, <2>2, <2>3, <2>4, <2>5, <2>6, <2>7, <2>8, <2>9, <2>10, <2>11, <2>12, <2>13, <2>14
       DEF execute, Header, Waits, Throws
<1> QED
  BY <1>2, <1>3, <1>4, <1>5 DEF Next

\* What it has read is always what is there to be read.
LEMMA ReadingAlways == Spec => []ReadingInv
<1>1. Assumptions /\ ResetAssumption
  BY CapacityAssumption, LimitAssumption, StreamAssumption, ResetAssumption
     DEF Assumptions, StreamsOfBytes, IsStream
<1>2. Init => ReadingInv
  BY <1>1, ReadingStarts
<1>3. ReadingInv /\ [Next]_vars => ReadingInv'
  BY <1>1, ReadingSteps
<1> QED
  BY <1>2, <1>3, PTL DEF Spec

\* However a stream is cut into chunks, execute returns the values that it encodes, in
\* order and as soon as they have arrived, and throws with the byte that makes it no
\* RESP, not before and not after: for every stream, cut, capacity and limit.
THEOREM ReturnsAlwaysExact == Spec => []ReturnsExact
<1>1. ReadingInv => ReturnsExact
  BY ReadingExact
<1> QED
  BY <1>1, ReadingAlways, PTL

\* Between the calls lastValidOffset is the end of the last whole frame, and isIncomplete
\* says whether there is more behind it.
THEOREM OffsetsAlwaysExact == Spec => []OffsetsExact
<1>1. ReadingInv => OffsetsExact
  BY ReadingOffsets
<1> QED
  BY <1>1, ReadingAlways, PTL
=============================================================================
