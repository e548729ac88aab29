------------------------------ MODULE RespParser ------------------------------
(***************************************************************************)
(* The streaming parser, src/src/resp-parser.ts, over its byte buffer.  A  *)
(* call of execute is a step that appends the chunk and one step for each  *)
(* turn of its loops; the stream is fed in chunks of any size.             *)
(***************************************************************************)
EXTENDS RespStreams

CONSTANT
    MaxResets          \* bound on the calls of reset

ASSUME ResetAssumption == MaxResets \in Nat

VARIABLES
    buffer, arrayStack, pendingBulkLength,
    totalBytesProcessed, lastCompletedOffset,
    pc,            \* "idle", "loop" in execute, "complete" in completeValue
    completing,    \* the argument of completeValue
    results,       \* of the running execute
    returned,      \* what execute has returned so far
    error,         \* "none", or what execute threw
    stream, fed, resets

parser == <<buffer, arrayStack, pendingBulkLength, totalBytesProcessed, lastCompletedOffset>>
call == <<pc, completing, results, returned, error>>
vars == <<parser, call, stream, fed, resets>>

NoBulk == -2

Init ==
    /\ buffer = EmptyBuffer
    /\ arrayStack = <<>> /\ pendingBulkLength = NoBulk
    /\ totalBytesProcessed = 0 /\ lastCompletedOffset = 0
    /\ pc = "idle" /\ completing = Nothing /\ results = <<>> /\ returned = <<>> /\ error = "none"
    /\ stream \in Streams /\ fed = 0 /\ resets = 0

readable == readableBytes(buffer)
-----------------------------------------------------------------------------
\* execute appends the chunk, or throws before its loop.
executeChunk(n) ==
    LET chunk == SubSeq(stream.bytes, fed + 1, fed + n)
    IN  /\ pc = "idle" /\ error = "none"
        /\ fed + n <= Len(stream.bytes)
        /\ fed' = fed + n
        /\ totalBytesProcessed' = totalBytesProcessed + n
        /\ results' = <<>>
        /\ IF Overflows(buffer, chunk)
           THEN error' = "overflow" /\ UNCHANGED <<buffer, pc>>
           ELSE buffer' = append(buffer, chunk) /\ pc' = "loop" /\ UNCHANGED error
        /\ UNCHANGED <<arrayStack, pendingBulkLength, lastCompletedOffset, completing, returned,
                       stream, resets>>

InLoop == pc = "loop" /\ readable > 0
Rest == UNCHANGED <<totalBytesProcessed, lastCompletedOffset, stream, fed, resets>>

\* A ProtocolError: the values of this call are not returned.
Throw == pc' = "idle" /\ error' = "protocol" /\ results' = <<>> /\ UNCHANGED <<completing, returned>>

return ==
    /\ pc' = "idle"
    /\ returned' = returned \o results
    /\ results' = <<>>
    /\ UNCHANGED <<parser, completing, error, stream, fed, resets>>

Complete(value) == pc' = "complete" /\ completing' = value /\ UNCHANGED <<results, returned, error>>

Drained == pc = "loop" /\ readable = 0 /\ return
-----------------------------------------------------------------------------
(***************************************************************************)
(* A bulk string's payload.                                                *)
(***************************************************************************)
BulkArrived == readable >= pendingBulkLength + 2
InBulk == InLoop /\ pendingBulkLength # NoBulk

AwaitBulk == InBulk /\ ~BulkArrived /\ return

Terminated ==
    /\ peekByteAt(buffer, pendingBulkLength) = CR
    /\ peekByteAt(buffer, pendingBulkLength + 1) = LF

ReadBulk ==
    /\ InBulk /\ BulkArrived /\ Terminated
    /\ buffer' = advance(buffer, pendingBulkLength + 2)
    /\ pendingBulkLength' = NoBulk
    /\ Complete([bulk |-> readBytes(buffer, pendingBulkLength)])
    /\ UNCHANGED arrayStack /\ Rest

MalformedBulk ==
    /\ InBulk /\ BulkArrived /\ ~Terminated
    /\ Throw /\ Rest /\ UNCHANGED <<buffer, arrayStack, pendingBulkLength>>
-----------------------------------------------------------------------------
(***************************************************************************)
(* A header line.                                                          *)
(***************************************************************************)
InHeader == InLoop /\ pendingBulkLength = NoBulk

\* findCrlf: offsets, from the read offset, of a CR with its LF in the window.
CrlfOffsets ==
    {i \in 0..Smaller(readable, maxInlineLength) - 2 :
        peekByteAt(buffer, i) = CR /\ peekByteAt(buffer, i + 1) = LF}
\* Mutant: the last match.
findCrlf_Last == CHOOSE i \in CrlfOffsets : \A j \in CrlfOffsets : j <= i
findCrlf == CHOOSE i \in CrlfOffsets : \A j \in CrlfOffsets : i <= j

\* Mutant: the loop goes on without new data.
AwaitLine_Continues ==
    InHeader /\ CrlfOffsets = {} /\ readable <= maxInlineLength /\ UNCHANGED vars
AwaitLine == InHeader /\ CrlfOffsets = {} /\ readable <= maxInlineLength /\ return

LineTooLong ==
    /\ InHeader /\ CrlfOffsets = {} /\ readable > maxInlineLength
    /\ Throw /\ Rest /\ UNCHANGED <<buffer, arrayStack, pendingBulkLength>>

Line == readBytes(buffer, findCrlf)
prefix == Line[1]
payload == Tail(Line)
HasLine(p) == InHeader /\ CrlfOffsets # {} /\ Line # <<>> /\ prefix = p
Consume == buffer' = advance(buffer, findCrlf + 2)

SimpleLine ==
    \E type \in {"+", "-"} :
        /\ HasLine(type)
        /\ Consume
        /\ Complete(IF type = "+" THEN [simple |-> payload] ELSE [failure |-> payload])
        /\ UNCHANGED <<arrayStack, pendingBulkLength>> /\ Rest

IntegerLine ==
    /\ HasLine(":") /\ IsInteger(payload)
    /\ Consume
    /\ Complete([integer |-> parseInteger(payload)])
    /\ UNCHANGED <<arrayStack, pendingBulkLength>> /\ Rest

BulkLine ==
    /\ HasLine("$") /\ IsInteger(payload) /\ parseInteger(payload) \in -1..maxBulkLength
    /\ Consume
    /\ IF parseInteger(payload) = -1
       THEN Complete(NullBulk) /\ UNCHANGED pendingBulkLength
       ELSE pendingBulkLength' = parseInteger(payload) /\ UNCHANGED call
    /\ UNCHANGED arrayStack /\ Rest

DepthLeft == Len(arrayStack) < maxArrayDepth

ArrayLine ==
    /\ HasLine("*") /\ IsInteger(payload) /\ parseInteger(payload) >= -1
    /\ parseInteger(payload) > 0 => DepthLeft
    /\ Consume
    /\ IF parseInteger(payload) > 0
       THEN /\ arrayStack' = Append(arrayStack, [count |-> parseInteger(payload), items |-> <<>>])
            /\ UNCHANGED call
       ELSE /\ Complete(IF parseInteger(payload) = 0 THEN [array |-> <<>>] ELSE NullArray)
            /\ UNCHANGED arrayStack
    /\ UNCHANGED pendingBulkLength /\ Rest

\* The line is consumed before it is looked at.
MalformedLine ==
    /\ InHeader /\ CrlfOffsets # {}
    /\ \/ Line = <<>>
       \/ /\ Line # <<>>
          /\ \/ prefix \notin {"+", "-", ":", "$", "*"}
             \/ prefix \in {":", "$", "*"} /\ ~IsInteger(payload)
             \/ /\ prefix \in {"$", "*"} /\ IsInteger(payload)
                /\ \/ parseInteger(payload) < -1
                   \/ prefix = "$" /\ parseInteger(payload) > maxBulkLength
                   \/ prefix = "*" /\ parseInteger(payload) > 0 /\ ~DepthLeft
    /\ Consume
    /\ Throw /\ Rest /\ UNCHANGED <<arrayStack, pendingBulkLength>>
-----------------------------------------------------------------------------
(***************************************************************************)
(* completeValue, one call per step.                                       *)
(***************************************************************************)
Top == Last(arrayStack)
Filled == Append(Top.items, completing)

AddItem ==
    /\ pc = "complete" /\ arrayStack # <<>>
    /\ IF Len(Filled) = Top.count
       THEN /\ arrayStack' = Front(arrayStack)
            /\ completing' = [array |-> Filled]
            /\ UNCHANGED pc
       ELSE /\ arrayStack' = [arrayStack EXCEPT ![Len(arrayStack)].items = Filled]
            /\ completing' = Nothing
            /\ pc' = "loop"
    /\ UNCHANGED <<buffer, pendingBulkLength, results, returned, error>> /\ Rest

\* Mutant: the unread bytes are not taken off.
CompletedAt_Total == totalBytesProcessed
CompletedAt == totalBytesProcessed - readable

emitCompleted ==
    /\ pc = "complete" /\ arrayStack = <<>>
    /\ results' = Append(results, completing)
    /\ lastCompletedOffset' = CompletedAt
    /\ completing' = Nothing
    /\ pc' = "loop"
    /\ UNCHANGED <<buffer, arrayStack, pendingBulkLength, totalBytesProcessed, returned, error,
                   stream, fed, resets>>
-----------------------------------------------------------------------------
\* A new stream begins.
reset ==
    /\ pc = "idle" /\ resets < MaxResets
    /\ resets' = resets + 1
    /\ buffer' = clear(buffer)
    /\ arrayStack' = <<>> /\ pendingBulkLength' = NoBulk
    /\ totalBytesProcessed' = 0 /\ lastCompletedOffset' = 0
    /\ returned' = <<>> /\ error' = "none"
    /\ stream' \in LaterStreams /\ fed' = 0
    /\ UNCHANGED <<pc, completing, results>>

Header == SimpleLine \/ IntegerLine \/ BulkLine \/ ArrayLine
Waits == Drained \/ AwaitBulk \/ AwaitLine
Throws == MalformedBulk \/ LineTooLong \/ MalformedLine
execute == Header \/ Waits \/ Throws \/ ReadBulk \/ AddItem \/ emitCompleted

Next == (\E n \in 1..Len(stream.bytes) : executeChunk(n)) \/ execute \/ reset

Spec == Init /\ [][Next]_vars
FairSpec == Spec /\ WF_vars(execute)
-----------------------------------------------------------------------------
AtRest == pc = "idle" /\ error = "none"

TypeOK ==
    /\ IsBuffer(buffer)
    /\ \A i \in DOMAIN arrayStack : Len(arrayStack[i].items) < arrayStack[i].count
    /\ Len(arrayStack) <= maxArrayDepth
    /\ pendingBulkLength \in {NoBulk} \cup 0..maxBulkLength
    /\ totalBytesProcessed \in Nat /\ lastCompletedOffset \in 0..totalBytesProcessed
    /\ pc \in {"idle", "loop", "complete"} /\ (pc = "complete" <=> completing # Nothing)
    /\ error \in {"none", "overflow", "protocol"}
    /\ fed \in 0..Len(stream.bytes) /\ resets \in 0..MaxResets

\* The buffer holds, after any compaction, growth and automatic reset, exactly the bytes
\* of the stream that were not consumed.
UnreadExact ==
    error = "none" => Unread(buffer) = SubSeq(stream.bytes, fed - readable + 1, fed)

Ended ==
    {i \in DOMAIN stream.frames :
        stream.frames[i].value # NotResp /\ stream.frames[i].to <= fed}
Expected == [i \in 1..Cardinality(Ended) |-> stream.frames[i].value]

\* However the stream was cut into chunks, execute has returned the values that ended
\* so far, as the encoder had them.
AnySplitSame == AtRest => returned = Expected

\* After an error too nothing was returned that the stream does not say.
NothingInvented == IsPrefix(returned, Expected)

\* execute throws with the byte that makes the stream no RESP, not before and not after.
FailsExactly == pc = "idle" => (error = "protocol" <=> error # "overflow" /\ fed >= failsAt(stream))

\* What execute returns and throws depends on the stream alone.
ReturnsExact == TypeOK /\ AnySplitSame /\ NothingInvented /\ FailsExactly

\* lastValidOffset is the end of the last whole frame: where recovery cuts the file.
OffsetExact ==
    pc = "idle" /\ error # "overflow" =>
        lastCompletedOffset = IF Ended = {} THEN 0 ELSE stream.frames[Cardinality(Ended)].to

\* isIncomplete, which tells recovery that the file ends in the middle of a frame.
isIncomplete == arrayStack # <<>> \/ pendingBulkLength # NoBulk \/ readable > 0
IncompleteExact == AtRest => (isIncomplete <=> lastCompletedOffset # fed)

\* What recovery asks the parser about the file it has read.
OffsetsExact == OffsetExact /\ IncompleteExact

\* A call of execute ends.
ExecuteReturns == []<>(pc = "idle")
=============================================================================
