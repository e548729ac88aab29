----------------------------- MODULE RespParserMC -----------------------------
(***************************************************************************)
(* Streams for TLC.  Encode writes a value, and Reading says where its     *)
(* parts are by their lengths.  What is no RESP is given as raw bytes with *)
(* the length of their first line; their last byte is the one that shows.  *)
(***************************************************************************)
EXTENDS RespParser

MCByte == {"*", "$", "+", "-", ":", "0", "1", "2", "3", "9", "a", "b", "CR", "LF"}
EOL == <<"CR", "LF">>
Digit(n) == IF n < 0 THEN <<"-", Digits[1 - n]>> ELSE <<Digits[n + 1]>>

RECURSIVE Encode(_)
Encode(v) ==
    CASE "simple" \in DOMAIN v -> <<"+">> \o v.simple \o EOL
      [] "failure" \in DOMAIN v -> <<"-">> \o v.failure \o EOL
      [] "integer" \in DOMAIN v -> <<":">> \o Digit(v.integer) \o EOL
      [] "bulk" \in DOMAIN v -> <<"$">> \o Digit(Len(v.bulk)) \o EOL \o v.bulk \o EOL
      [] v = NullBulk -> <<"$", "-", "1">> \o EOL
      [] v = NullArray -> <<"*", "-", "1">> \o EOL
      [] "array" \in DOMAIN v ->
            <<"*">> \o Digit(Len(v.array)) \o EOL
                \o FlattenSeq([i \in DOMAIN v.array |-> Encode(v.array[i])])
      [] "raw" \in DOMAIN v -> v.raw

FirstLine(v) ==
    CASE "bulk" \in DOMAIN v \/ "array" \in DOMAIN v -> 2
      [] "raw" \in DOMAIN v -> v.line
      [] OTHER -> Len(Encode(v)) - 2

RECURSIVE Reading(_, _, _)
Row(vs, from, depth) ==
    [i \in DOMAIN vs |->
        Reading(vs[i], from + Len(FlattenSeq([j \in 1..i - 1 |-> Encode(vs[j])])), depth)]
Reading(v, from, depth) ==
    LET items == IF "array" \in DOMAIN v
                 THEN Row(v.array, from + FirstLine(v) + 2, depth + 1) ELSE <<>>
    IN  [from |-> from, line |-> from + FirstLine(v), to |-> from + Len(Encode(v)),
         depth |-> depth, items |-> items,
         value |-> IF "raw" \in DOMAIN v \/ Broken(items) THEN NotResp ELSE v]

RECURSIVE Within(_)
Within(vs) == ToSet(vs) \cup UNION {Within(vs[i].items) : i \in DOMAIN vs}

Stream(vs) ==
    LET frames == Row(vs, 0, 0)
    IN  [bytes |-> FlattenSeq([i \in DOMAIN vs |-> Encode(vs[i])]),
         frames |-> frames, nodes |-> Within(frames)]

\* A payload that looks like a line end, an empty one, arrays in arrays.
Values ==
    {[simple |-> <<"a">>], [failure |-> <<>>], [integer |-> -2], [bulk |-> EOL], [bulk |-> <<>>],
     NullBulk, NullArray, [array |-> <<>>],
     [array |-> <<[bulk |-> <<"a", "CR">>], [simple |-> <<>>]>>],
     [array |-> <<[array |-> <<NullArray, [array |-> <<>>]>>], [bulk |-> <<"b">>]>>]}

\* An unended payload, an empty line, an unknown prefix, bad numbers, a payload and a
\* line that are too long, one array too deep.
Malformed ==
    {[raw |-> <<"$", "1", "CR", "LF", "a", "b", "CR">>, line |-> 2],
     [raw |-> EOL, line |-> 0],
     [raw |-> <<"a">> \o EOL, line |-> 1],
     [array |-> <<NullBulk, [raw |-> <<":">> \o EOL, line |-> 1]>>],
     [raw |-> <<"*", "-", "2">> \o EOL, line |-> 3],
     [raw |-> <<"$", "9">> \o EOL, line |-> 2],
     [raw |-> <<"+", "a", "a", "a", "a", "CR", "LF">>, line |-> 5],
     [array |-> <<[array |-> <<[raw |-> <<"*", "1">> \o EOL, line |-> 2]>>]>>]}

Two == {[bulk |-> EOL], NullBulk, [array |-> <<[bulk |-> <<"a", "CR">>], [simple |-> <<>>]>>]}

MCStreams == {Stream(<<v, w>>) : v \in Two, w \in Values \cup Malformed}
MCLaterStreams == {Stream(<<[bulk |-> EOL], NullArray>>)}
=============================================================================
