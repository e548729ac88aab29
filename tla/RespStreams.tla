----------------------------- MODULE RespStreams ------------------------------
(***************************************************************************)
(* RESP, within the limits that src/src/resp-parser.ts sets: which values  *)
(* a stream of bytes encodes, and from which byte on it is no RESP.        *)
(*                                                                         *)
(* A stream comes with its reading: one node for each value, nested ones   *)
(* too, that says where it starts and ends, and what it is.  The last of   *)
(* the frames may be no RESP; then its end is the byte that shows it.      *)
(***************************************************************************)
EXTENDS ByteBuffer, SequencesExt, FiniteSets

CONSTANTS
    CR, LF,
    maxInlineLength, maxBulkLength, maxArrayDepth,
    Streams,           \* [bytes, frames : Seq(nodes), nodes : the frames and all in them]
    LaterStreams       \* those of them that may follow a reset

ASSUME LimitAssumption ==
    CR # LF /\ maxInlineLength \in Nat /\ maxBulkLength \in Nat /\ maxArrayDepth \in Nat

Nothing == [nothing |-> TRUE]
NullBulk == [nullBulk |-> TRUE]
NullArray == [nullArray |-> TRUE]
NotResp == [notResp |-> TRUE]
-----------------------------------------------------------------------------
Digits == <<"0", "1", "2", "3", "4", "5", "6", "7", "8", "9">>
Unsigned(text) == IF text # <<>> /\ Head(text) \in {"+", "-"} THEN Tail(text) ELSE text
IsInteger(text) == Unsigned(text) # <<>> /\ ToSet(Unsigned(text)) \subseteq ToSet(Digits)
Magnitude(digits) ==
    FoldLeft(LAMBDA n, d : 10 * n + (CHOOSE i \in 1..10 : Digits[i] = d) - 1, 0, digits)
parseInteger(text) ==
    IF Head(text) = "-" THEN -Magnitude(Unsigned(text)) ELSE Magnitude(Unsigned(text))
-----------------------------------------------------------------------------
(***************************************************************************)
(* A node v of a stream s: [from, line, to, depth, value, items].  Its     *)
(* bytes are those behind from up to to, its first line ends at line, its  *)
(* depth is the number of arrays around it.                                *)
(***************************************************************************)
EndsLine(s, i) == s.bytes[i] = CR /\ s.bytes[i + 1] = LF

\* The first line end comes at v.line, soon enough.
HasHeader(s, v) ==
    /\ v.line \in v.from..v.from + maxInlineLength - 2 /\ v.line + 2 <= Len(s.bytes)
    /\ EndsLine(s, v.line + 1)
    /\ \A i \in v.from + 1..v.line : ~EndsLine(s, i)

Text(s, v) == SubSeq(s.bytes, v.from + 1, v.line)
Starts(s, v, type) == HasHeader(s, v) /\ Text(s, v) # <<>> /\ Text(s, v)[1] = type
Argument(s, v) == Tail(Text(s, v))
Counts(s, v) == IsInteger(Argument(s, v))
Number(s, v) == parseInteger(Argument(s, v))

IsLine(s, v) ==
    /\ v.to = v.line + 2
    /\ \/ Starts(s, v, "+") /\ v.value = [simple |-> Argument(s, v)]
       \/ Starts(s, v, "-") /\ v.value = [failure |-> Argument(s, v)]
       \/ Starts(s, v, ":") /\ Counts(s, v) /\ v.value = [integer |-> Number(s, v)]
       \/ Starts(s, v, "$") /\ Counts(s, v) /\ Number(s, v) = -1 /\ v.value = NullBulk
       \/ Starts(s, v, "*") /\ Counts(s, v) /\ Number(s, v) = -1 /\ v.value = NullArray
       \/ Starts(s, v, "*") /\ Counts(s, v) /\ Number(s, v) = 0 /\ v.value = [array |-> <<>>]

IsBulk(s, v) ==
    /\ Starts(s, v, "$") /\ Counts(s, v) /\ Number(s, v) \in 0..maxBulkLength
    /\ v.to = v.line + Number(s, v) + 4 /\ v.to <= Len(s.bytes)
    /\ v.value = IF EndsLine(s, v.to - 1)
                 THEN [bulk |-> SubSeq(s.bytes, v.line + 3, v.to - 2)] ELSE NotResp

\* Nodes one behind the other, of which only the last may be no RESP.
InARow(s, vs, from, depth) ==
    /\ vs \in Seq(s.nodes)
    /\ \A i \in DOMAIN vs :
          /\ vs[i].from = IF i = 1 THEN from ELSE vs[i - 1].to
          /\ vs[i].depth = depth
          /\ i < Len(vs) => vs[i].value # NotResp
Broken(vs) == vs # <<>> /\ Last(vs).value = NotResp

IsArray(s, v) ==
    /\ Starts(s, v, "*") /\ Counts(s, v) /\ v.depth < maxArrayDepth
    /\ InARow(s, v.items, v.line + 2, v.depth + 1)
    /\ Len(v.items) \in 1..Number(s, v) /\ v.to = Last(v.items).to
    /\ IF Broken(v.items) THEN v.value = NotResp
       ELSE /\ Len(v.items) = Number(s, v)
            /\ v.value = [array |-> [i \in DOMAIN v.items |-> v.items[i].value]]

IsBadLine(s, v) ==
    /\ HasHeader(s, v) /\ v.to = v.line + 2 /\ v.value = NotResp
    /\ \/ \A type \in {"+", "-", ":", "$", "*"} : ~Starts(s, v, type)
       \/ \E type \in {":", "$", "*"} : Starts(s, v, type) /\ ~Counts(s, v)
       \/ \E type \in {"$", "*"} : Starts(s, v, type) /\ Counts(s, v) /\ Number(s, v) < -1
       \/ Starts(s, v, "$") /\ Counts(s, v) /\ Number(s, v) > maxBulkLength
       \/ Starts(s, v, "*") /\ Counts(s, v) /\ Number(s, v) > 0 /\ v.depth >= maxArrayDepth

IsLongLine(s, v) ==
    /\ v.to = v.from + maxInlineLength + 1 /\ v.to <= Len(s.bytes) /\ v.value = NotResp
    /\ \A i \in v.from + 1..v.from + maxInlineLength - 1 : ~EndsLine(s, i)

IsNode(s, v) ==
    /\ v.from \in Nat
    /\ IsLine(s, v) \/ IsBulk(s, v) \/ IsArray(s, v) \/ IsBadLine(s, v) \/ IsLongLine(s, v)

\* The byte that makes the stream no RESP, or one that it does not have.
failsAt(s) == IF Broken(s.frames) THEN Last(s.frames).to ELSE Len(s.bytes) + 1

IsStream(s) ==
    /\ s.bytes \in Seq(Byte)
    /\ \A v \in s.nodes : IsNode(s, v)
    /\ InARow(s, s.frames, 0, 0)
    /\ Broken(s.frames) \/ Len(s.bytes) = IF s.frames = <<>> THEN 0 ELSE Last(s.frames).to

ASSUME StreamAssumption == LaterStreams \subseteq Streams /\ \A s \in Streams : IsStream(s)
=============================================================================
