--------------------------- MODULE ClusterServer ----------------------------
(***************************************************************************)
(* src/src/cluster/cluster-server.ts with its telemetry server: the chunks *)
(* of a connection are chained, and the commands of a chunk are awaited    *)
(* one by one.  Sockets are Node's: a write behind end fails with 'error', *)
(* whose handler destroys; one behind destroy is dropped; a socket closes  *)
(* when both its directions have ended; the end of the client ends ours    *)
(* (allowHalfOpen is false).                                               *)
(***************************************************************************)
EXTENDS Telemetry

CONSTANTS
    Chunks,       \* what a client may send at once: kinds of requests
    MaxSent       \* bound on the requests of a connection

\* "odd" is RESP, but no array.  "malformed" is a line that makes the parser throw once;
\* what would follow it in its chunk would be parsed with the next one.
Kind == {"command", "quit", "odd", "malformed"}
ASSUME ServerAssumption ==
    /\ Chunks \subseteq Seq(Kind) \ {<<>>} /\ MaxSent \in Nat
    /\ \A chunk \in Chunks : \A i \in 1..Len(chunk) - 1 : chunk[i] # "malformed"

VARIABLES
    conn,     \* client -> its socket and its chain
    phase     \* how far stop has come

serverVars == <<telemetry, conn, phase>>

NewConn == [state |-> "new", readable |-> FALSE, writable |-> FALSE,
            queue |-> <<>>,     \* chunks that wait for the chain
            rest |-> <<>>,      \* of the chunk under way; the head awaits its answer
            sent |-> 0,
            out |-> <<>>]       \* requests whose replies were written to the client

Request == [n : Nat, kind : Kind]
Connection == [state : {"new", "open", "closed"}, readable : BOOLEAN, writable : BOOLEAN,
               queue : Seq(Seq(Request)), rest : Seq(Request), sent : Nat, out : Seq(Request)]

ServerInit ==
    /\ TelemetryInit
    /\ conn = [c \in Client |-> NewConn]
    /\ phase = "running"
-----------------------------------------------------------------------------
destroy(k) == [k EXCEPT !.readable = FALSE, !.writable = FALSE]

write(k, request) == IF k.writable THEN [k EXCEPT !.out = Append(@, request)] ELSE destroy(k)

end(k) == [k EXCEPT !.writable = FALSE]

Malformed(chunk) == \E i \in DOMAIN chunk : chunk[i].kind = "malformed"

\* Mutant: the connection goes on behind an error.
Caught_Only(k) == [k EXCEPT !.queue = Tail(@)]
Caught(k) == destroy([k EXCEPT !.queue = Tail(@)])

\* What is no command is answered at once.
Answered(k) == write([k EXCEPT !.rest = Tail(@)], Head(k.rest))

\* The next chunk begins; one that does not parse is lost whole.
Begun(k) ==
    IF Malformed(Head(k.queue)) THEN Caught(k)
    ELSE [k EXCEPT !.rest = Head(k.queue), !.queue = Tail(@)]

\* One turn of the chain, which is at a connection and has met odd requests.
Turn == [at \in [conn : Connection, odd : Nat] |->
    LET k == at.conn IN
    IF k.rest # <<>>
    THEN IF Head(k.rest).kind = "odd" THEN [conn |-> Answered(k), odd |-> at.odd + 1] ELSE at
    ELSE IF k.queue = <<>> THEN at ELSE [at EXCEPT !.conn = Begun(k)]]

\* The chain runs on to the next command it has to await.  Two turns for every request
\* are enough: one begins its chunk and one answers it.
RunOn(k) ==
    LET after[n \in 0..2 * k.sent] ==
            IF n = 0 THEN [conn |-> k, odd |-> 0] ELSE Turn[after[n - 1]]
    IN  after[2 * k.sent]

\* Requests of which no answer has come.
Waiting(k) == Len(k.rest) + FoldLeft(LAMBDA n, chunk : n + Len(chunk), 0, k.queue)

\* answered commands are recorded, the rest of the chain runs on.
Proceed(c, k, ports, answered) ==
    LET run == RunOn(k) IN
    /\ conn' = [conn EXCEPT ![c] = run.conn]
    /\ recordCommands(answered + run.odd)
    /\ IF run.conn.rest = <<>> THEN Settle(ports, c)
                               ELSE \E s \in Shard : Post(ports, c, {s})
    /\ UNCHANGED <<ticks, viewer, synthetic, phase>>
-----------------------------------------------------------------------------
Listening == phase \in {"running", "telemetry"}

Connects(c) ==
    /\ c \in cast /\ Listening
    /\ conn[c].state = "new"
    /\ conn' = [conn EXCEPT ![c] = [NewConn EXCEPT !.state = "open", !.readable = TRUE, !.writable = TRUE]]
    /\ UNCHANGED <<telemetry, phase>>

Queued(k, chunk) ==
    [k EXCEPT !.queue = Append(@, [i \in DOMAIN chunk |-> [n |-> k.sent + i, kind |-> chunk[i]]]),
              !.sent = @ + Len(chunk)]

Busy(c) == owed[c] # {}

Data(c, chunk) ==
    /\ conn[c].readable
    /\ conn[c].sent + Len(chunk) <= MaxSent
    /\ LET k == Queued(conn[c], chunk) IN
       IF Busy(c) THEN conn' = [conn EXCEPT ![c] = k] /\ UNCHANGED <<telemetry, phase>>
                  ELSE Proceed(c, k, port, 0)

\* end and break: the rest of the chunk is dropped, later chunks are not.
AfterQuit(k) == end([k EXCEPT !.rest = <<>>])

CommandAnswered(s, c) ==
    /\ Completes(s, c)
    /\ LET k == write(conn[c], Head(conn[c].rest))
       IN  Proceed(c, IF Head(k.rest).kind = "quit" THEN AfterQuit(k) ELSE [k EXCEPT !.rest = Tail(@)],
                   Popped(s), 1)

ClientEnds(c) ==
    /\ conn[c].readable
    /\ conn' = [conn EXCEPT ![c] = destroy(@)]
    /\ UNCHANGED <<telemetry, phase>>

\* 'close': the server forgets the socket; the chain goes on.
OnClose(c) ==
    /\ conn[c].state = "open" /\ ~conn[c].readable /\ ~conn[c].writable
    /\ conn' = [conn EXCEPT ![c].state = "closed"]
    /\ UNCHANGED <<telemetry, phase>>
-----------------------------------------------------------------------------
(***************************************************************************)
(* stop: the telemetry server first, whose http server waits for requests  *)
(* under way, then the sockets, then the workers.                          *)
(***************************************************************************)
stop ==
    /\ phase = "running"
    /\ phase' = "telemetry"
    /\ stopTelemetry
    /\ UNCHANGED conn

\* Mutant: stop waits until the clients end their sockets.
Dropped_Ends(k) == end(k)
Dropped(k) == destroy(k)

TelemetryStopped ==
    /\ phase = "telemetry" /\ owed[api] = {}
    /\ phase' = "closing"
    /\ conn' = [c \in Client |-> Dropped(conn[c])]
    /\ UNCHANGED telemetry

\* server.close calls back when every connection is closed; coordinator.close ends the
\* threads and forgets the calls, which never settle.
AllClosed ==
    /\ phase = "closing"
    /\ \A c \in Client : conn[c].state # "open"
    /\ phase' = "stopped"
    /\ alive' = {}
    /\ UNCHANGED <<cast, port, owed, counters, ticks, viewer, synthetic, conn>>

Requests ==
    /\ \/ phase = "running" /\ \/ startSyntheticTraffic \/ stopSyntheticTraffic
                               \/ \E s \in Shard : ApiCommand(s)
                               \/ \E v \in Viewer : ViewerConnects(v)
       \/ \E v \in Viewer : ViewerCloses(v) \/ \E s \in Shard : ViewerCommand(v, s)
    /\ UNCHANGED <<conn, phase>>

Timers ==
    /\ TickStarts \/ \E s \in Shard : TrafficTick(s)
    /\ UNCHANGED <<conn, phase>>

Answers(s) ==
    \/ \E c \in Client : CommandAnswered(s, c)
    \/ /\ \/ PartAnswered(s) \/ TrafficAnswered(s)
          \/ \E x \in Viewer \cup {api} : CommandDone(s, x)
          \/ \E t \in DOMAIN tick : StatsDone(s, t) \/ TickDone(s, t)
       /\ UNCHANGED <<conn, phase>>

Clients == \E c \in Client :
    Connects(c) \/ ClientEnds(c) \/ \E chunk \in Chunks : Data(c, chunk)

Events == TelemetryStopped \/ AllClosed \/ \E c \in Client : OnClose(c)

Next ==
    \/ Requests \/ Timers \/ Clients \/ Events \/ stop
    \/ \E s \in Shard : Answers(s) \/ (WorkerDies(s) /\ UNCHANGED <<conn, phase>>)

(***************************************************************************)
(* Workers that live answer, and events that have happened are delivered.  *)
(* Nobody has to connect, send, end, stop or die; no interval has to fire. *)
(***************************************************************************)
ServerSpec ==
    /\ ServerInit /\ [][Next]_serverVars
    /\ \A s \in Shard : WF_serverVars(Answers(s))
    /\ WF_serverVars(Events)
-----------------------------------------------------------------------------
Stuck(x) == ~(owed[x] \subseteq alive)

\* A client reads the answers to its first requests, each once and in the order it
\* sent them, whatever chunks they came in and whoever else is served in between, and
\* none behind that of QUIT.
RepliesInOrder == \A c \in Client :
    LET out == conn[c].out
    IN  \A i \in DOMAIN out : out[i].n = i /\ (out[i].kind = "quit" => i = Len(out))

\* Every call whose shards live settles, and what is chained behind it, unless a worker
\* died under it: the fallback of tick, "if coordinator busy", does not cover that.
CallsSettle ==
    []<>(/\ \A x \in Caller : owed[x] = {} \/ Stuck(x)
         /\ \A c \in Client : Waiting(conn[c]) = 0 \/ Stuck(c))

\* stop comes to its end, unless a request of the dashboard waits for a dead worker.
StopReturns == []<>(phase \in {"running", "stopped"} \/ Stuck(api))
=============================================================================
