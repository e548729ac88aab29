----------------------------- MODULE Telemetry ------------------------------
(***************************************************************************)
(* src/src/telemetry/telemetry-collector.ts and telemetry-server.ts: what  *)
(* the master thread of a cluster counts, takes a snapshot of every second *)
(* and shows to dashboards, and the commands it runs for them.             *)
(*                                                                         *)
(* All of it awaits the coordinator, which ClusterCoordinator models.      *)
(* Here a shard is its queue of unanswered messages, inbox and outbox in   *)
(* one: both are first in, first out, and so is the worker in between.     *)
(* The code behind an await runs in the event that brings the last answer. *)
(***************************************************************************)
EXTENDS Integers, Sequences, FiniteSets, SequencesExt

CONSTANTS
    Client,          \* TCP connections of ClusterServer
    Viewer,          \* WebSockets of dashboards
    api,             \* POST /api/command, one request at a time
    traffic,         \* the synthetic traffic, one batch at a time
    ShardCount,
    HistoryLength,   \* options.historyLength (60)
    TrafficBatch,    \* commands in a batch of synthetic traffic
    Casts,           \* who may take part in a behaviour, a bound on the interleavings:
                     \* a set of callers, in which a number is a tick
    Mortal,          \* shards whose thread may end
    MaxTicks,        \* bound on the ticks
    MaxCommands      \* bound on the commands of viewers, api and traffic

ASSUME TelemetryAssumption ==
    /\ ShardCount \in Nat \ {0} /\ HistoryLength \in Nat \ {0}
    /\ TrafficBatch \in Nat \ {0} /\ MaxTicks \in Nat /\ MaxCommands \in Nat

VARIABLES
    cast,      \* the callers that take part
    port,      \* shard -> callers with an unanswered message, oldest first
    owed,      \* caller -> shards whose answer it awaits
    alive,     \* shards whose thread runs
    totalCommands, commandCountInterval,
    ticker,    \* the interval of the collector is set
    tick,      \* the ticks so far, with what they have collected
    history,   \* the last snapshots, oldest first
    viewer,    \* viewer -> its state and the snapshots it was sent
    isSyntheticTrafficRunning,
    trafficLeft   \* commands the batch under way has not got an answer to

rpc == <<port, owed, alive>>
counters == <<totalCommands, commandCountInterval>>
ticks == <<ticker, tick, history>>
synthetic == <<isSyntheticTrafficRunning, trafficLeft>>
telemetry == <<cast, rpc, counters, ticks, viewer, synthetic>>

Shard == 0..ShardCount - 1
Tick == 1..MaxTicks
Caller == Client \cup Viewer \cup {api, traffic} \cup Tick

\* Callers of different kinds are different, and only a tick is a number.
ASSUME CallerAssumption ==
    /\ Casts \subseteq SUBSET Caller
    /\ api # traffic
    /\ {api, traffic} \cap (Client \cup Viewer) = {} /\ Client \cap Viewer = {}
    /\ \A x \in Client \cup Viewer \cup {api, traffic} : x \notin Nat

\* TelemetryServer.start has run: the interval is set and autoSimulate is on.
TelemetryInit ==
    /\ cast \in Casts
    /\ port = [s \in Shard |-> <<>>]
    /\ owed = [x \in Caller |-> {}]
    /\ alive = Shard
    /\ totalCommands = 0 /\ commandCountInterval = 0
    /\ ticker = TRUE
    /\ tick = <<>>
    /\ history = <<>>
    /\ viewer = [v \in Viewer |-> [state |-> "new", seen |-> <<>>]]
    /\ isSyntheticTrafficRunning = (traffic \in cast)
    /\ trafficLeft = 0
-----------------------------------------------------------------------------
(***************************************************************************)
(* The coordinator.  A command goes to the shard of its key, any shard     *)
(* here; getClusterStats and sampleClusterKeys go to all of them.          *)
(***************************************************************************)
Post(ports, x, S) ==
    /\ port' = [s \in Shard |-> IF s \in S THEN Append(ports[s], x) ELSE ports[s]]
    /\ owed' = [owed EXCEPT ![x] = S]
    /\ UNCHANGED <<cast, alive>>

Settle(ports, x) ==
    /\ port' = ports
    /\ owed' = [owed EXCEPT ![x] = {}]
    /\ UNCHANGED <<cast, alive>>

Answerable(s) == s \in alive /\ port[s] # <<>>
\* Mutant: the answer settles the call that was made last.
Popped_Last(s) == [port EXCEPT ![s] = Front(@)]
Popped(s) == [port EXCEPT ![s] = Tail(@)]

\* The last answer that the caller at the head of shard s awaits.
Completes(s, x) == Answerable(s) /\ Head(port[s]) = x /\ owed[x] = {s}

\* Promise.all still waits for other shards.
PartAnswered(s) ==
    /\ Answerable(s)
    /\ owed[Head(port[s])] # {s}
    /\ port' = Popped(s)
    /\ owed' = [owed EXCEPT ![Head(port[s])] = @ \ {s}]
    /\ UNCHANGED <<cast, alive, counters, ticks, viewer, synthetic>>

WorkerDies(s) ==
    /\ s \in alive \cap Mortal
    /\ alive' = alive \ {s}
    /\ UNCHANGED <<cast, port, owed, counters, ticks, viewer, synthetic>>
-----------------------------------------------------------------------------
recordCommands(n) ==
    /\ totalCommands' = totalCommands + n
    /\ commandCountInterval' = commandCountInterval + n
recordCommand == recordCommands(1)

InFlight == Cardinality({x \in Viewer \cup {api} : owed[x] # {}}) + trafficLeft
MayAsk(n) == totalCommands + InFlight + n <= MaxCommands

\* executeRawCommand, for a dashboard or a request.
Ask(x, s) ==
    /\ x \in cast /\ owed[x] = {}
    /\ MayAsk(1)
    /\ Post(port, x, {s})
    /\ UNCHANGED <<counters, ticks, viewer, synthetic>>

ApiCommand(s) == Ask(api, s)
ViewerCommand(v, s) == viewer[v].state = "open" /\ Ask(v, s)

\* The answer goes back to whoever asked, if it is still there.
CommandDone(s, x) ==
    /\ x \in Viewer \cup {api}
    /\ Completes(s, x)
    /\ recordCommand
    /\ Settle(Popped(s), x)
    /\ UNCHANGED <<ticks, viewer, synthetic>>
-----------------------------------------------------------------------------
startSyntheticTraffic ==
    /\ traffic \in cast /\ ~isSyntheticTrafficRunning
    /\ isSyntheticTrafficRunning' = TRUE
    /\ UNCHANGED <<cast, rpc, counters, ticks, viewer, trafficLeft>>

\* A batch that has begun goes on.
stopSyntheticTraffic ==
    /\ isSyntheticTrafficRunning
    /\ isSyntheticTrafficRunning' = FALSE
    /\ UNCHANGED <<cast, rpc, counters, ticks, viewer, trafficLeft>>

TrafficTick(s) ==
    /\ isSyntheticTrafficRunning
    /\ trafficLeft = 0
    /\ MayAsk(TrafficBatch)
    /\ trafficLeft' = TrafficBatch
    /\ Post(port, traffic, {s})
    /\ UNCHANGED <<counters, ticks, viewer, isSyntheticTrafficRunning>>

\* The commands of a batch are awaited one by one.
TrafficAnswered(s) ==
    /\ Completes(s, traffic)
    /\ recordCommand
    /\ trafficLeft' = trafficLeft - 1
    /\ IF trafficLeft' = 0 THEN Settle(Popped(s), traffic)
                           ELSE \E t \in Shard : Post(Popped(s), traffic, {t})
    /\ UNCHANGED <<ticks, viewer, isSyntheticTrafficRunning>>
-----------------------------------------------------------------------------
(***************************************************************************)
(* tick.  The counters are read and reset before the awaits, totalCommands *)
(* is read behind them, and the interval does not wait for a tick to end.  *)
(***************************************************************************)
\* Mutant: commands that come during the awaits count twice.
ResetInterval_Forgotten == commandCountInterval
ResetInterval == 0

\* since is history: totalCommands when the tick began.
TickStarts ==
    /\ ticker
    /\ Len(tick) + 1 \in cast
    /\ tick' = Append(tick, [phase |-> "stats", commands |-> commandCountInterval,
                             since |-> totalCommands])
    /\ commandCountInterval' = ResetInterval
    /\ Post(port, Len(tick'), Shard)
    /\ UNCHANGED <<totalCommands, ticker, history, viewer, synthetic>>

StatsDone(s, t) ==
    /\ t \in DOMAIN tick /\ tick[t].phase = "stats"
    /\ Completes(s, t)
    /\ tick' = [tick EXCEPT ![t].phase = "keys"]
    /\ Post(Popped(s), t, Shard)
    /\ UNCHANGED <<counters, ticker, history, viewer, synthetic>>

Snapshot(t) ==
    [tick |-> t, commands |-> tick[t].commands, since |-> tick[t].since, total |-> totalCommands]

\* Mutant: the snapshots are not pushed at the end.
Pushed_InFront(snapshot) == <<snapshot>> \o history
Pushed(snapshot) ==
    LET all == Append(history, snapshot)
    IN  IF Len(all) > HistoryLength THEN Tail(all) ELSE all

\* The 'snapshot' event: one message to every viewer that is open.
Broadcast(t) ==
    viewer' = [v \in Viewer |-> IF viewer[v].state = "open"
                                THEN [viewer[v] EXCEPT !.seen = Append(@, t)] ELSE viewer[v]]

TickDone(s, t) ==
    /\ t \in DOMAIN tick /\ tick[t].phase = "keys"
    /\ Completes(s, t)
    /\ tick' = [tick EXCEPT ![t].phase = "done"]
    /\ history' = Pushed(Snapshot(t))
    /\ Broadcast(t)
    /\ Settle(Popped(s), t)
    /\ UNCHANGED <<counters, ticker, synthetic>>

InitialState == [i \in DOMAIN history |-> history[i].tick]

ViewerConnects(v) ==
    /\ v \in cast /\ viewer[v].state = "new"
    /\ viewer' = [viewer EXCEPT ![v] = [state |-> "open", seen |-> InitialState]]
    /\ UNCHANGED <<cast, rpc, counters, ticks, synthetic>>

ViewerCloses(v) ==
    /\ viewer[v].state = "open"
    /\ viewer' = [viewer EXCEPT ![v] = [state |-> "closed", seen |-> <<>>]]
    /\ UNCHANGED <<cast, rpc, counters, ticks, synthetic>>

\* stop, up to its first await: timers are cleared and viewers terminated.
stopTelemetry ==
    /\ isSyntheticTrafficRunning' = FALSE
    /\ ticker' = FALSE
    /\ viewer' = [v \in Viewer |-> [state |-> "closed", seen |-> <<>>]]
    /\ UNCHANGED <<cast, rpc, counters, tick, history, trafficLeft>>
-----------------------------------------------------------------------------
Consecutive(numbers) == \A i \in 1..Len(numbers) - 1 : numbers[i + 1] = numbers[i] + 1

Before(t) == IF t = 0 THEN 0 ELSE tick[t].since

\* Ticks overlap, and still no command is lost between two of them or counted in both:
\* what a tick has taken is what came since the one before, and the rest is in the
\* interval.  A snapshot never shows more commands than it has seen.
CountsPartition ==
    /\ \A t \in DOMAIN tick : tick[t].commands = tick[t].since - Before(t - 1)
    /\ commandCountInterval = totalCommands - Before(Len(tick))
    /\ \A i \in DOMAIN history : history[i].since <= history[i].total

\* Snapshots come out in the order of their ticks, though nothing in tick says so: the
\* messages of the earlier one are in front of those of the later one on every port.
\* A dashboard gets each once, without a gap from the history it is sent first.
SnapshotsInOrder ==
    /\ Consecutive([i \in DOMAIN history |-> history[i].tick])
    /\ \A v \in Viewer : viewer[v].state = "open" =>
          /\ Consecutive(viewer[v].seen)
          /\ history # <<>> => viewer[v].seen # <<>> /\ Last(viewer[v].seen) = Last(history).tick
=============================================================================
