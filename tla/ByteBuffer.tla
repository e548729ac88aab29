------------------------------ MODULE ByteBuffer ------------------------------
(***************************************************************************)
(* StreamByteBuffer, src/src/byte-buffer.ts: an array of cells with a read *)
(* and a write offset.  Every method is an operator on such a record.      *)
(***************************************************************************)
EXTENDS Integers, Sequences

CONSTANTS
    Byte,
    Unwritten,         \* what a cell holds that was never written
    initialCapacity,
    maxCapacity

ASSUME CapacityAssumption ==
    /\ initialCapacity \in Nat \ {0} /\ maxCapacity \in Nat
    /\ initialCapacity <= maxCapacity

Cell == Byte \cup {Unwritten}
allocUnsafe(n) == [i \in 0..n - 1 |-> Unwritten]

EmptyBuffer ==
    [cells |-> allocUnsafe(initialCapacity), capacity |-> initialCapacity,
     readOffset |-> 0, writeOffset |-> 0]

IsBuffer(b) ==
    /\ b = [cells |-> b.cells, capacity |-> b.capacity,
            readOffset |-> b.readOffset, writeOffset |-> b.writeOffset]
    /\ b.capacity \in 1..maxCapacity
    /\ b.cells \in [0..b.capacity - 1 -> Cell]
    /\ b.readOffset \in Nat /\ b.writeOffset \in Nat
    /\ b.readOffset <= b.writeOffset /\ b.writeOffset <= b.capacity

readableBytes(b) == b.writeOffset - b.readOffset

\* What a reader of the buffer has in front of it.
Unread(b) == [i \in 1..readableBytes(b) |-> b.cells[b.readOffset + i - 1]]
-----------------------------------------------------------------------------
\* buffer.copy: the cells from `from` up to `to` of one array, at the start of another.
copy(source, target, from, to) ==
    [i \in DOMAIN target |-> IF i < to - from THEN source[from + i] ELSE target[i]]

\* Mutant: only the offsets move.
compact_MovesNothing(b) ==
    [cells |-> b.cells, capacity |-> b.capacity, readOffset |-> 0, writeOffset |-> readableBytes(b)]
compact(b) ==
    [cells |-> copy(b.cells, b.cells, b.readOffset, b.writeOffset), capacity |-> b.capacity,
     readOffset |-> 0, writeOffset |-> readableBytes(b)]

Larger(m, n) == IF m >= n THEN m ELSE n
Smaller(m, n) == IF m <= n THEN m ELSE n

grow(b, needed) ==
    LET newCapacity == Smaller(Larger(2 * b.capacity, needed), maxCapacity)
    IN  [cells |-> copy(b.cells, allocUnsafe(newCapacity), b.readOffset, b.writeOffset),
         capacity |-> newCapacity, readOffset |-> 0, writeOffset |-> readableBytes(b)]

totalNeeded(b, chunk) == readableBytes(b) + Len(chunk)
Overflows(b, chunk) == totalNeeded(b, chunk) > maxCapacity

Fits(b, chunk) == b.capacity - b.writeOffset >= Len(chunk)

WithRoom(b, chunk) ==
    IF Fits(b, chunk) THEN b
    ELSE IF b.capacity >= totalNeeded(b, chunk) /\ b.readOffset > 0 THEN compact(b)
    ELSE grow(b, totalNeeded(b, chunk))

Put(b, chunk) ==
    [cells |-> [i \in DOMAIN b.cells |->
                   IF b.writeOffset <= i /\ i < b.writeOffset + Len(chunk)
                   THEN chunk[i - b.writeOffset + 1] ELSE b.cells[i]],
     capacity |-> b.capacity, readOffset |-> b.readOffset,
     writeOffset |-> b.writeOffset + Len(chunk)]

append(b, chunk) == IF chunk = <<>> THEN b ELSE Put(WithRoom(b, chunk), chunk)
-----------------------------------------------------------------------------
clear(b) == [cells |-> b.cells, capacity |-> b.capacity, readOffset |-> 0, writeOffset |-> 0]
checkAutoReset(b) == IF b.readOffset = b.writeOffset THEN clear(b) ELSE b

advance(b, length) ==
    checkAutoReset([cells |-> b.cells, capacity |-> b.capacity,
                    readOffset |-> b.readOffset + length, writeOffset |-> b.writeOffset])
readBytes(b, length) == [i \in 1..length |-> b.cells[b.readOffset + i - 1]]
peekByteAt(b, offset) ==
    IF offset < readableBytes(b) THEN b.cells[b.readOffset + offset] ELSE Unwritten
=============================================================================
