------------------------------ MODULE RespServer ------------------------------
(***************************************************************************)
(* The TCP server of the single-threaded mode: src/src/server.ts over the  *)
(* connections of Connection.tla.                                          *)
(*                                                                         *)
(* Node runs all promise continuations that are ready before the next      *)
(* event: an event is a step that waits until every connection is Settled. *)
(***************************************************************************)
EXTENDS Connection

CONSTANTS
    Conn,          \* connection numbers; each is used once
    MaxSent,       \* bound on the requests of each connection
    Logs,          \* is the server started with an append-only file?
    Listeners,     \* does the program listen for the connections' 'error' events?
    ClientErrors   \* a client may reset its connection

ASSUME OptionAssumption ==
    Logs \subseteq {"none", "open"} /\ Listeners \subseteq BOOLEAN /\ ClientErrors \in BOOLEAN
ASSUME SendAssumption == MaxSent \in [Conn -> Nat]

VARIABLES
    conn,          \* the connections
    connections,   \* those the server knows
    stage,         \* how far stop has come
    shutdownTimer,
    aof,           \* the logger: "none", "open", "closing", "closed"
    listener,
    process        \* "up", or "crashed" by an exception nobody catches

vars == <<conn, connections, stage, shutdownTimer, aof, listener, process>>
config == <<listener, process>>

Init ==
    /\ conn = [c \in Conn |-> NoConnection]
    /\ connections = {} /\ stage = "serving" /\ shutdownTimer = FALSE
    /\ aof \in Logs /\ listener \in Listeners /\ process = "up"

isShuttingDown == stage # "serving"
Up == process = "up"
-----------------------------------------------------------------------------
(***************************************************************************)
(* Promise continuations.                                                  *)
(***************************************************************************)
\* Mutant: a chunk does not wait for the one before it.
Free_Always(x) == x.processingQueue # <<>>
Free(x) == ~x.running.on /\ x.processingQueue # <<>>
Ready(x) == x.running.on /\ ~x.running.logging

Settled == Up /\ \A c \in Conn : ~Free(conn[c]) /\ ~Ready(conn[c]) /\ ~conn[c].failed

Becomes(c, x) == conn' = [conn EXCEPT ![c] = x]
Only(c, x) == Becomes(c, x) /\ UNCHANGED <<connections, stage, shutdownTimer, aof, config>>

processChunk(c) == Up /\ Free(conn[c]) /\ \E x \in Parsed(conn[c]) : Only(c, x)

executeCommand(c) == Up /\ Ready(conn[c]) /\ \E x \in execute(conn[c], aof) : Only(c, x)

\* The flush that a command waits for ends, or fails.
Logged(c) == Settled /\ conn[c].running.logging /\ Only(c, answer(conn[c]))
LogFails(c) ==
    /\ Settled /\ conn[c].running.logging
    /\ Only(c, rejected([conn[c] EXCEPT !.running.logging = FALSE]))
-----------------------------------------------------------------------------
(***************************************************************************)
(* Clients.                                                                *)
(***************************************************************************)
Open(x) == Reads(x) /\ ~Contains(x.wire, FIN) /\ ~x.readEnded

handleNewConnection(c) ==
    /\ Settled /\ conn[c].socket = "none"
    /\ stage \in {"serving", "closingLog"}
    /\ IF isShuttingDown
       THEN Becomes(c, [NoConnection EXCEPT !.socket = "destroyed"]) /\ UNCHANGED connections
       ELSE Becomes(c, Connected) /\ connections' = connections \cup {c}
    /\ UNCHANGED <<stage, shutdownTimer, aof, config>>

Numbered(kinds, from) == [i \in DOMAIN kinds |-> [id |-> from + i, kind |-> kinds[i]]]

Send(c) ==
    /\ Settled /\ Open(conn[c])
    /\ \E kinds \in Chunks :
          /\ conn[c].sent + Len(kinds) <= MaxSent[c]
          /\ Only(c, [conn[c] EXCEPT !.wire = Append(@, Numbered(kinds, conn[c].sent)),
                                     !.sent = @ + Len(kinds)])

Finish(c) ==
    Settled /\ Open(conn[c]) /\ Only(c, [conn[c] EXCEPT !.wire = Append(@, FIN)])

\* The client takes the oldest reply.  'drain' comes when nothing is left, unless the
\* socket was ended; the callback of the error reply destroys the connection.
Receive(c) ==
    /\ Settled /\ Reads(conn[c]) /\ conn[c].outbox # <<>>
    /\ LET reply == Head(conn[c].outbox)
           x == [conn[c] EXCEPT !.outbox = Tail(@), !.delivered = Append(@, reply)]
           drained == x.outbox = <<>> /\ x.needDrain /\ x.socket = "open"
           y == IF drained THEN handleDrain([x EXCEPT !.needDrain = FALSE]) ELSE x
       IN  Only(c, IF reply = ErrorReply THEN destroy(y) ELSE y)
-----------------------------------------------------------------------------
(***************************************************************************)
(* Socket events.                                                          *)
(***************************************************************************)
Data(c) ==
    /\ Settled /\ Reads(conn[c]) /\ ~conn[c].paused
    /\ conn[c].wire # <<>> /\ Head(conn[c].wire) # FIN
    /\ Only(c, handleData([conn[c] EXCEPT !.wire = Tail(@)], Head(conn[c].wire)))

\* 'end' comes also to a paused socket, once all data before it was taken.
handleEnd(c) ==
    /\ Settled /\ Reads(conn[c])
    /\ conn[c].wire # <<>> /\ Head(conn[c].wire) = FIN
    /\ Only(c, gracefulClose([conn[c] EXCEPT !.wire = <<>>, !.readEnded = TRUE]))

\* No byte came or went for idleTimeoutMs.
handleTimeout(c) ==
    /\ Settled /\ Reads(conn[c])
    /\ conn[c].wire = <<>> \/ conn[c].paused
    /\ Only(c, gracefulClose(conn[c]))

\* Both directions have ended: Node destroys the socket.
AutoDestroy(c) ==
    /\ Settled /\ conn[c].socket = "ended"
    /\ conn[c].readEnded /\ conn[c].outbox = <<>>
    /\ Only(c, [conn[c] EXCEPT !.socket = "destroyed"])

\* emit('error') throws when nobody listens, and no listener of the process is left.
handleSocketError(c) ==
    /\ Up
    /\ conn[c].failed \/ (Settled /\ ClientErrors /\ Reads(conn[c]))
    /\ LET x == [conn[c] EXCEPT !.failed = FALSE, !.outbox = <<>>, !.socket = "destroyed"]
       IN  IF listener /\ conn[c].listening
           THEN Becomes(c, destroy(x)) /\ UNCHANGED process
           ELSE Becomes(c, x) /\ process' = "crashed"
    /\ UNCHANGED <<connections, stage, shutdownTimer, aof, listener>>

Closed(c) ==
    /\ Settled /\ conn[c].socket = "destroyed"
    /\ LET x == handleClose(conn[c])
       IN  /\ Becomes(c, x)
           /\ connections' = IF x.listening THEN connections \ {c} ELSE connections
    /\ UNCHANGED <<stage, shutdownTimer, aof, config>>
-----------------------------------------------------------------------------
(***************************************************************************)
(* stop: the log is closed first, then the connections.                    *)
(***************************************************************************)
\* Mutant: stop returns at once.
CloseConnections_Returns ==
    /\ conn' = [c \in Conn |-> IF c \in connections THEN gracefulClose(conn[c]) ELSE conn[c]]
    /\ stage' = "stopped"
    /\ UNCHANGED shutdownTimer
CloseConnections ==
    /\ conn' = [c \in Conn |-> IF c \in connections THEN gracefulClose(conn[c]) ELSE conn[c]]
    /\ stage' = IF connections = {} THEN "stopped" ELSE "closing"
    /\ shutdownTimer' = (connections # {})

Stop ==
    /\ Settled /\ stage = "serving"
    /\ IF aof = "open"
       THEN /\ aof' = "closing" /\ stage' = "closingLog"
            /\ UNCHANGED <<conn, shutdownTimer>>
       ELSE CloseConnections /\ UNCHANGED aof
    /\ UNCHANGED <<connections, config>>

\* AofLogger.close returns when no flush holds the file any more.
LogClosed ==
    /\ Settled /\ stage = "closingLog"
    /\ \A c \in Conn : ~conn[c].running.logging
    /\ aof' = "closed"
    /\ CloseConnections
    /\ UNCHANGED <<connections, config>>

ShutdownTimer ==
    /\ Settled /\ shutdownTimer
    /\ conn' = [c \in Conn |-> IF c \in connections THEN destroy(conn[c]) ELSE conn[c]]
    /\ connections' = {} /\ shutdownTimer' = FALSE
    /\ UNCHANGED <<stage, aof, config>>

\* server.close calls back when the last socket is closed.
ServerClosed ==
    /\ Settled /\ stage = "closing"
    /\ \A c \in Conn : conn[c].socket \in {"none", "closed"}
    /\ stage' = "stopped" /\ shutdownTimer' = FALSE
    /\ UNCHANGED <<conn, connections, aof, config>>
-----------------------------------------------------------------------------
Client(c) == handleNewConnection(c) \/ Send(c) \/ Finish(c) \/ Receive(c)
Event(c) ==
    \/ Data(c) \/ handleEnd(c) \/ handleTimeout(c) \/ AutoDestroy(c)
    \/ handleSocketError(c) \/ Closed(c) \/ Logged(c) \/ LogFails(c)
Continuation(c) == processChunk(c) \/ executeCommand(c)

Next ==
    \/ \E c \in Conn : Client(c) \/ Event(c) \/ Continuation(c)
    \/ Stop \/ LogClosed \/ ShutdownTimer \/ ServerClosed

Spec == Init /\ [][Next]_vars

(***************************************************************************)
(* Continuations run, events that have happened are delivered, timers      *)
(* fire, and clients read what they are sent.  Nobody has to send, to end  *)
(* a connection or to stop the server.                                     *)
(***************************************************************************)
Fairness ==
    /\ \A c \in Conn :
          /\ WF_vars(Continuation(c) \/ (conn[c].failed /\ handleSocketError(c)))
          /\ WF_vars(Receive(c)) /\ WF_vars(Logged(c) \/ LogFails(c))
          /\ WF_vars(Data(c) \/ handleEnd(c)) /\ WF_vars(AutoDestroy(c) \/ Closed(c))
    /\ WF_vars(LogClosed) /\ WF_vars(ShutdownTimer \/ ServerClosed)

FairSpec == Spec /\ Fairness
-----------------------------------------------------------------------------
Request == [id : Nat, kind : {"get", "set", "incr", "quit", "bad"}]
TypeOK ==
    /\ \A c \in Conn :
          /\ conn[c].socket \in {"none", "open", "ended", "destroyed", "closed"}
          /\ conn[c].wire \in Seq(Seq(Request)) /\ conn[c].processingQueue \in Seq(Seq(Request))
          /\ conn[c].sent \in 0..MaxSent[c]
          /\ conn[c].outbox \in Seq(Nat) /\ conn[c].delivered \in Seq(Nat)
          /\ conn[c].executed \in Seq(Request)
          /\ conn[c].running \in [on : BOOLEAN, todo : Seq(Request), replies : Seq(Nat), logging : BOOLEAN]
          /\ conn[c].running.on <=> conn[c].running.todo # <<>>
          /\ conn[c].isDestroyed => conn[c].isClosing /\ Gone(conn[c])
    /\ connections \subseteq Conn /\ shutdownTimer \in BOOLEAN
    /\ stage \in {"serving", "closingLog", "closing", "stopped"}
    /\ aof \in {"none", "open", "closing", "closed"}
    /\ listener \in BOOLEAN /\ process \in {"up", "crashed"}

Ids(requests) == [i \in DOMAIN requests |-> requests[i].id]
Sent(x) == x.delivered \o x.outbox
Stream(x) ==
    Sent(x) \o x.running.replies
        \o Ids(x.running.todo \o FlattenSeq(x.processingQueue \o x.wire))

\* While a connection is healthy, what was answered, what is being executed, what waits
\* in the queue and what is on the wire are its requests, each once and in order,
\* although every chunk awaits the log and reading is paused and resumed.
NothingSkipped ==
    \A c \in Conn :
        conn[c].socket = "open" /\ ~Ignored(conn[c]) /\ ~Contains(Sent(conn[c]), ErrorReply)
            => Stream(conn[c]) = [i \in 1..conn[c].sent |-> i]

\* The n-th reply answers the n-th request until the first protocol error, whatever
\* closes the connection; after one the replies still follow the requests' order.
RepliesInOrder ==
    \A c \in Conn :
        LET replies == Sent(conn[c])
        IN  \A i \in DOMAIN replies :
                /\ (\A j \in 1..i : replies[j] # ErrorReply) => replies[i] = i
                /\ \A j \in 1..i - 1 : replies[i] # ErrorReply => replies[j] < replies[i]

\* QUIT is the last command a connection executes, also when later requests were in
\* its chunk or already queued.
QuitIsLast ==
    \A c \in Conn : \A i \in DOMAIN conn[c].executed :
        conn[c].executed[i].kind = "quit" => i = Len(conn[c].executed)

\* A connection executes and answers what it was asked, in the order in which it was
\* asked, and nothing behind QUIT.
InOrder == TypeOK /\ NothingSkipped /\ RepliesInOrder /\ QuitIsLast

\* A paused connection that is not closing has output whose end will resume it.
PauseEnds ==
    \A c \in Conn : conn[c].paused /\ conn[c].socket = "open" /\ ~Ignored(conn[c]) =>
        conn[c].isDraining /\ conn[c].needDrain /\ conn[c].outbox # <<>>

\* When stop has returned no socket is open and no command is executed any more.
StoppedIsQuiet ==
    [][stage = "stopped" => \A c \in Conn :
          ~Reads(conn[c]) /\ conn'[c].executed = conn[c].executed]_vars

\* A program that listens for the connections' errors survives all of them: the one of
\* a reply written after end() too comes before the listeners are removed.
HeardErrorsContained == listener => Up

\* Time and again a client has every reply it is owed, so one that stops sending gets
\* them all, unless its connection closes or had a protocol error.
RequestsAnswered ==
    \A c \in Conn :
        []<>(\/ Len(conn[c].delivered) = conn[c].sent \/ Contains(Sent(conn[c]), ErrorReply)
             \/ Ignored(conn[c]) \/ Gone(conn[c]) \/ ~Up)

\* stop returns although clients need not close and may have stopped reading.
StopReturns == isShuttingDown ~> (stage = "stopped" \/ ~Up)

\* A connection that was paused when it began to close is never resumed: with data
\* left to read it stays half open until the server stops.
Jammed(x) == x.paused /\ x.isClosing /\ x.wire # <<>> /\ Head(x.wire) # FIN

\* Once both sides have ended a connection its socket is closed.
EndedCloses ==
    \A c \in Conn :
        Contains(conn[c].wire, FIN) ~> (conn[c].socket = "closed" \/ Jammed(conn[c]) \/ ~Up)

\* Connections come to their end, by themselves or by the force of stop.
EndsReached == StopReturns /\ EndedCloses
=============================================================================
