------------------------------ MODULE Connection ------------------------------
(***************************************************************************)
(* One client connection: src/src/connection.ts over a Node socket, with   *)
(* the commands of command-handler.ts.  A connection is a record; every    *)
(* handler is an operator from record to record, and RespServer.tla makes  *)
(* the steps of the event loop out of them.                                *)
(*                                                                         *)
(* A chunk is the sequence of requests whose last byte it carries; the     *)
(* empty chunk stands for the client's FIN.  A request is its number on    *)
(* the connection and its kind:                                            *)
(*   "get"   answered without logging     "set"  logged; the error escapes *)
(*   "incr"  logged; the error is caught  "quit", and "bad": not RESP      *)
(***************************************************************************)
EXTENDS Integers, Sequences, SequencesExt

CONSTANTS
    Chunks,        \* what a client may send at once: sequences of kinds
    HighWater      \* replies a socket buffers before write returns false

ASSUME ChunkAssumption ==
    Chunks \subseteq Seq({"get", "set", "incr", "quit", "bad"}) \ {<<>>}
ASSUME HighWaterAssumption == HighWater \in Nat \ {0}

FIN == <<>>
ErrorReply == 0
Idle == [on |-> FALSE, todo |-> <<>>, replies |-> <<>>, logging |-> FALSE]

NoConnection ==
    [socket |-> "none", wire |-> <<>>, sent |-> 0, paused |-> FALSE, readEnded |-> FALSE,
     outbox |-> <<>>, needDrain |-> FALSE, failed |-> FALSE, delivered |-> <<>>,
     isClosing |-> FALSE, isDestroyed |-> FALSE, isDraining |-> FALSE,
     processingQueue |-> <<>>, running |-> Idle, stuck |-> FALSE,
     listening |-> FALSE, executed |-> <<>>]

Connected == [NoConnection EXCEPT !.socket = "open", !.listening = TRUE]
-----------------------------------------------------------------------------
(***************************************************************************)
(* The Node socket.                                                        *)
(***************************************************************************)
Gone(x) == x.socket \in {"destroyed", "closed"}
Reads(x) == x.socket \in {"open", "ended"}

\* A write after end() destroys the socket; its 'error' event follows.
socketWrite(x, replies) ==
    IF x.socket = "ended"
    THEN [x EXCEPT !.socket = "destroyed", !.outbox = <<>>, !.failed = TRUE]
    ELSE [x EXCEPT !.outbox = @ \o replies,
                   !.needDrain = @ \/ Len(x.outbox \o replies) >= HighWater]

accepted(x, replies) == x.socket = "open" /\ Len(x.outbox \o replies) < HighWater
-----------------------------------------------------------------------------
cleanup(x) == [x EXCEPT !.stuck = FALSE, !.listening = FALSE]

\* Mutants: the listeners are removed too early; the socket is not ended.
gracefulClose_CleansUp(x) ==
    IF x.isClosing \/ x.isDestroyed THEN x
    ELSE cleanup([x EXCEPT !.isClosing = TRUE, !.socket = "ended"])
gracefulClose_LeavesOpen(x) ==
    IF x.isClosing \/ x.isDestroyed THEN x ELSE [x EXCEPT !.isClosing = TRUE]
gracefulClose(x) ==
    IF x.isClosing \/ x.isDestroyed THEN x
    ELSE [x EXCEPT !.isClosing = TRUE, !.socket = "ended"]

destroy(x) ==
    IF x.isDestroyed THEN x
    ELSE cleanup([x EXCEPT !.isDestroyed = TRUE, !.isClosing = TRUE, !.outbox = <<>>,
                           !.socket = IF @ = "closed" THEN @ ELSE "destroyed"])

\* Mutant: pauses without noting it.
write_AlwaysPauses(x, replies) ==
    IF x.isDestroyed \/ Gone(x) THEN x
    ELSE [socketWrite(x, replies) EXCEPT !.isDraining = TRUE, !.paused = TRUE]
write(x, replies) ==
    IF x.isDestroyed \/ Gone(x) THEN x
    ELSE IF accepted(x, replies) \/ x.isDraining THEN socketWrite(x, replies)
    ELSE [socketWrite(x, replies) EXCEPT !.isDraining = TRUE, !.paused = TRUE]

\* Mutant: reading is not resumed.
handleDrain_StaysPaused(x) == [x EXCEPT !.isDraining = FALSE]
handleDrain(x) ==
    [x EXCEPT !.isDraining = FALSE,
              !.paused = @ /\ (x.isClosing \/ x.isDestroyed)]

handleParsingError(x) ==
    IF x.isClosing \/ x.isDestroyed THEN x ELSE socketWrite(x, <<ErrorReply>>)

\* 'close': the listeners are removed before the event is emitted.
handleClose(x) == cleanup([x EXCEPT !.socket = "closed"])

handleData(x, chunk) ==
    IF x.isClosing \/ x.isDestroyed THEN x
    ELSE [x EXCEPT !.processingQueue = Append(@, chunk)]
-----------------------------------------------------------------------------
(***************************************************************************)
(* processChunk and the commands it awaits.                                *)
(***************************************************************************)
Ignored(x) == x.isClosing \/ x.isDestroyed

\* The parser throws: the values of the chunk before the error go with it.  Some
\* errors leave the bytes in the buffer, and every later chunk fails again.
Unparsable(x, chunk) == x.stuck \/ \E i \in DOMAIN chunk : chunk[i].kind = "bad"

Parsed(x) ==
    LET chunk == Head(x.processingQueue)
        y == [x EXCEPT !.processingQueue = Tail(@)]
    IN  IF Ignored(x) THEN {y}
        ELSE IF Unparsable(x, chunk)
        THEN {handleParsingError([y EXCEPT !.stuck = s]) : s \in {x.stuck, TRUE}}
        ELSE {[y EXCEPT !.running = [Idle EXCEPT !.on = TRUE, !.todo = chunk]]}

Current(x) == Head(x.running.todo)
Executed(x) == [x EXCEPT !.executed = Append(@, Current(x))]

\* A command has its reply; after the last one, or QUIT, all are written at once.
answer(x) ==
    LET last == Len(x.running.todo) = 1 \/ Current(x).kind = "quit"
        replies == Append(x.running.replies, Current(x).id)
        rest == [x EXCEPT !.running.todo = Tail(@), !.running.replies = replies,
                          !.running.logging = FALSE]
        done == write([x EXCEPT !.running = Idle], replies)
    IN  IF ~last THEN rest
        ELSE IF Current(x).kind = "quit" THEN gracefulClose(done) ELSE done

\* A command throws: the replies of its chunk are not written.
throws(x) == handleParsingError([x EXCEPT !.running = Idle])

\* enqueueWrite rejects: SET and DEL let the error through, INCR answers with it.
rejected(x) == IF Current(x).kind = "set" THEN throws(x) ELSE answer(x)

\* The states after the next command of the chunk, up to its first real wait.  With
\* the log open a mutation waits for its flush, or not if another flush is running.
execute(x, aof) ==
    LET y == Executed(x)
        logs == Current(x).kind \in {"set", "incr"}
    IN  IF ~logs \/ aof = "none" THEN {answer(y)}
        ELSE IF aof = "open" THEN {answer(y), [y EXCEPT !.running.logging = TRUE]}
        ELSE {rejected(y)}
=============================================================================
